------------------------ MODULE MCContainerLifecycle ------------------------
(* Instances of ContainerLifecycle for TLC. *)
EXTENDS ContainerLifecycle

MCKeys    == {"anna", "ben", "cora", "dora"}
MCKeyType == [anna |-> "pass", ben |-> "x25519", cora |-> "mlkem", dora |-> "mlkem"]
MCInvalid == {"dora"}

Plain(key)         == [key |-> key, profile |-> "balanced", label |-> <<>>]
Labelled(key, lab) == [key |-> key, profile |-> "interactive", label |-> <<lab>>]

(* A label that is the default one of the second place, one of another     *)
(* length, and the shortest that is too long.                              *)
Second == [name |-> <<"rcpt", 1>>, len |-> 5]
Work   == [name |-> <<"work", 0>>, len |-> 4]
Long   == [name |-> <<"long", 0>>, len |-> 65520]

MCRecipientLists == {
  <<>>,
  <<Plain("anna"), Labelled("ben", Work)>>,
  <<Plain("cora"), Labelled("anna", Work)>>,
  <<Labelled("ben", Long)>>,
  <<Plain("dora")>>,
  <<Labelled("ben", Second), Plain("ben")>>}    \* twice the same wrapper_id

(* Two people with keys of one kind, and lists of one shape: rewrapping    *)
(* between the last two keeps the header.                                  *)
MCSpliceKeys    == {"ben", "beth"}
MCSpliceKeyType == [ben |-> "x25519", beth |-> "x25519"]

MCSpliceLists == {
  <<Plain("ben"), Plain("beth")>>,
  <<Plain("ben")>>,
  <<Plain("beth")>>}

Input(text, size, nameLen) ==
  [text |-> text, size |-> size, name |-> <<[text |-> text, len |-> nameLen]>>, mime |-> <<>>,
   created |-> <<>>, chunkSize |-> 65536, epochSize |-> 1024, padding |-> [kind |-> "none"]]

(* Everything said, nothing said, more than decrypt takes, and no text.    *)
MCInputs ==
  {[Input("report", 600, 8) EXCEPT !.mime = <<[text |-> "text", len |-> 10]>>,
                                   !.created = <<-5>>,
                                   !.padding = [kind |-> "custom", value |-> 70000]],
   [Input("large", 5000, 0) EXCEPT !.name = <<>>, !.padding = [kind |-> "power_of_2", value |-> 12]],
   Input("empty", 0, 5)}

MCTwoTexts == {Input("report", 6, 8), Input("ledger", 9, 8)}

MCLongNames == {Input("report", 6, 255), Input("ledger", 9, 256)}

MCPolicies == {[threshold |-> 1, total |-> 1],
               [threshold |-> 2, total |-> 2],
               [threshold |-> 2, total |-> 1]}

MCOnePolicy == {[threshold |-> 1, total |-> 1]}

=============================================================================
