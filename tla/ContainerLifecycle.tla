------------------------- MODULE ContainerLifecycle -------------------------
(***************************************************************************)
(* The life of encrypted files: containers are made by encrypt and by      *)
(* rewrapping any container that still exists (callers keep copies, so an  *)
(* old one may be rewrapped after a newer one).  A rewrap is either the    *)
(* one call of api/mod.rs or the two steps of ops/rewrap.rs: recover the   *)
(* key and seal it for the new recipients, then rewrite a container --     *)
(* possibly another one than the recipients were sealed for.               *)
(***************************************************************************)
EXTENDS Container, PythonDecrypt

CONSTANTS
  Inputs,          \* what is encrypted, and what is said of it
  RecipientLists,  \* the recipient lists callers pass
  PolicyChoices,   \* the [threshold, total] callers of rewrap pass
  MaxContainers    \* bound: containers ever made

ASSUME BoundAssumption == MaxContainers \in Nat

(* What the callers pass is of the types of the code; a size of a chunk or *)
(* an epoch is any number, and refused when it is zero.                    *)
Recipient == [key     : Keys,
              profile : DOMAIN MemoryKib,
              label   : Seq([name : STRING \X Nat, len : Nat])]

ASSUME CallersAssumption ==
  /\ RecipientLists \subseteq Seq(Recipient)
  /\ \A choice \in PolicyChoices : choice.threshold \in Nat /\ choice.total \in Nat
  /\ \A input \in Inputs :
       /\ {input.size, input.chunkSize, input.epochSize} \subseteq Nat
       /\ IsOption(input.name) /\ IsOption(input.mime) /\ IsOption(input.created)
       /\ IsPadding(input.padding)

VARIABLES
  made,       \* the containers made so far, with the list each was made for
  prepared    \* <<>>, or <<p>>: recipients sealed by the first rewrap step

vars == <<made, prepared>>

Readers(recipients) == {recipients[i].key : i \in DOMAIN recipients}

(* A new file draws a key and a file_uuid nobody else has.                 *)
Fresh == Len(made) + 1

-----------------------------------------------------------------------------
Init ==
  /\ made = <<>>
  /\ prepared = <<>>

(* An operation returned: its container joins the others; when it returned *)
(* an error, nothing does.                                                 *)
Return(result, input, readers) ==
  /\ made' = IF result.status = "ok"
             THEN Append(made, [container |-> result.container,
                                input |-> input, readers |-> readers])
             ELSE made

EncryptFile(input, recipients) ==
  /\ Len(made) < MaxContainers
  /\ Return(Encrypt(input, recipients, Fresh, Fresh, Fresh), input, Readers(recipients))
  /\ UNCHANGED prepared

(* api::rewrap_container: nothing comes of it for nobody, for someone      *)
(* whose public key is none, or with a key that does not open.             *)
Rewrap(m, key, recipients, choice) ==
  /\ Len(made) < MaxContainers
  /\ recipients # <<>>
  /\ CanSeal(recipients)
  /\ \E fmk \in UnwrappedFmk(m.container, key) :
       Return(RewrapContainer(m.container, fmk, FileUuid(m.container),
                              RewrapPolicy(choice, recipients),
                              RewrapWrappers(m.container, fmk, recipients, Fresh)),
              m.input, Readers(recipients))
  /\ UNCHANGED prepared

(* The first step of the two-step API, on container m.  Containers may be  *)
(* made between the two steps: what it draws is numbered below zero.       *)
Prepare(m, key, recipients, choice) ==
  /\ Len(made) < MaxContainers
  /\ prepared = <<>>
  /\ CanSeal(recipients)
  /\ \E fmk \in UnwrappedFmk(m.container, key) :
       prepared' = <<[fmk     |-> fmk,
                      uuid    |-> FileUuid(m.container),
                      input   |-> m.input,
                      readers |-> Readers(recipients),
                      policy  |-> RewrapPolicy(choice, recipients),
                      wraps   |-> RewrapWrappers(m.container, fmk, recipients, -Fresh)]>>
  /\ UNCHANGED made

Finish(p, c) == RewrapContainer(c, p.fmk, p.uuid, p.policy, p.wraps)

(* The second step, on container m, which need not be the one prepared on. *)
Commit(m) ==
  /\ Len(made) < MaxContainers
  /\ \E i \in DOMAIN prepared :
       Return(Finish(prepared[i], m.container), prepared[i].input, prepared[i].readers)
  /\ prepared' = <<>>

Next ==
  \/ \E input \in Inputs, recipients \in RecipientLists : EncryptFile(input, recipients)
  \/ \E i \in DOMAIN made :
       \/ \E key \in Keys, recipients \in RecipientLists :
            \E choice \in PolicyChoices :
              \/ Rewrap(made[i], key, recipients, choice)
              \/ Prepare(made[i], key, recipients, choice)
       \/ Commit(made[i])

Spec == Init /\ [][Next]_vars

-----------------------------------------------------------------------------
(* Type invariant: every container made parses, and its header names the   *)
(* real section lengths.                                                   *)
TypeOK ==
  /\ Len(made) <= MaxContainers
  /\ Len(prepared) <= 1
  /\ \A i \in DOMAIN made : Parses(made[i].container)

(* A container opens for everyone on the list it was made for, giving the  *)
(* text that was encrypted and all that encrypt was told of it, and for    *)
(* nobody else -- after any chain of rewraps, of old containers or new, in *)
(* one step or in two, each of which decodes and encodes the metadata.     *)
ReadersExactly ==
  \A i \in DOMAIN made, key \in Keys :
    LET c     == made[i].container
        input == made[i].input
    IN  Decrypt(c, key) =
          IF key \notin made[i].readers THEN Failed("NoMatchingWrapper")
          ELSE IF input.size > MaxPlaintext THEN Failed("PlaintextSizeLimitExceeded")
          ELSE Opened(input.text, Described(input, c.footer.root))

(* Somebody can open c.                                                    *)
Opens(c) == Parses(c) /\ \E key \in Keys : Decrypt(c, key).status = "ok"

(* The sections of c with those in S taken from d instead.                 *)
Sections       == {"header", "policy", "wraps", "metadata", "payload", "footer"}
Splice(c, d, S) == [s \in Sections |-> IF s \in S THEN d[s] ELSE c[s]]

(* The wraps section of c with entries moved, repeated or taken from d.    *)
Rearranged(c, d) ==
  {[c EXCEPT !.wraps = w] : w \in [DOMAIN c.wraps -> Range(c.wraps) \cup Range(d.wraps)]}

(* A container put together from the sections of two others, or with its   *)
(* wrapper entries rearranged, opens for nobody, unless it is one that was *)
(* made: not even versions of one file, whose headers may be equal and     *)
(* whose keys are, can be mixed, and not the wrappers of two files, though *)
(* those of another file are parsed without a look at their file_uuid.     *)
MixturesRejected ==
  \A i, j \in DOMAIN made :
    LET c == made[i].container
        d == made[j].container
    IN  \A x \in {Splice(c, d, S) : S \in SUBSET Sections} \cup Rearranged(c, d) :
          Opens(x) => \E k \in DOMAIN made : made[k].container = x

(* Containers of which one part was replaced by that of another.           *)
Patched(c, d) ==
  {[c EXCEPT ![s] = d[s]] : s \in Sections}
    \cup {[c EXCEPT !.footer.root = d.footer.root], [c EXCEPT !.footer.tag = d.footer.tag]}

(* Rewrapping heals nothing and breaks nothing: whatever container it      *)
(* takes, the new one opens as the old one did, or fails as it did.        *)
RewrapHealsNothing ==
  \A i, j \in DOMAIN made, key \in Keys \ InvalidKeys :
    \A c \in Patched(made[i].container, made[j].container) :
      \A fmk \in UnwrappedFmk(c, key) :
        LET recipients == <<[key |-> key, profile |-> "balanced", label |-> <<>>]>>
            r == RewrapContainer(c, fmk, FileUuid(c), OneOfOne(recipients),
                                 RewrapWrappers(c, fmk, recipients, Fresh))
        IN  r.status = "ok" /\ Parses(c) => Decrypt(r.container, key) = Decrypt(c, key)

(* The Python program opens what the Rust program opens, with the same     *)
(* text and name, and of other containers at most those that are too large *)
(* for the Rust program or whose manifest root is not that of the payload. *)
PythonOpensAlike ==
  \A i, j \in DOMAIN made, key \in Keys :
    \A c \in Patched(made[i].container, made[j].container) :
      LET rust   == Decrypt(c, key)
          python == PyDecrypt(c, key)
      IN  IF rust.status = "ok"
          THEN python = PyOpens(rust.text, rust.metadata[1].name)
          ELSE python.status = "ok" =>
                 \/ made[i].input.size > MaxPlaintext
                 \/ c.footer.root # made[i].container.footer.root

(* A stanza with some cells taken from another of its type gives a key to  *)
(* nobody: each field is bound to all the others.                          *)
Mixed(s, t) ==
  {[n \in DOMAIN s |-> IF n \in S THEN t[n] ELSE s[n]] :
     S \in SUBSET {n \in DOMAIN s : s[n] # t[n]}} \ {s, t}

FieldsBound ==
  \A i, j \in DOMAIN made :
    LET c == made[i].container
        d == made[j].container
    IN  \A k \in DOMAIN c.wraps, l \in DOMAIN d.wraps : c.wraps[k].type = d.wraps[l].type =>
          \A s \in Mixed(c.wraps[k].stanza, d.wraps[l].stanza), key \in Keys :
            StanzaGives([c EXCEPT !.wraps[k].stanza = s], k, key) = {}

(* Recipients prepared for one container of a file fit every container of  *)
(* that file, older or newer (the header hash depends on the new entries   *)
(* only): finishing there gives a container that opens for them.  Every    *)
(* other file refuses them (rewrap_container, checks 5.5 and 8.5).         *)
PreparedFitsItsFile ==
  \A p \in Range(prepared), i \in DOMAIN made :
    LET c == made[i].container
        r == Finish(p, c)
    IN  IF FileUuid(c) # p.uuid
        THEN r.status # "ok"
        ELSE p.wraps # <<>> /\ PolicyValid(p.policy) /\ DistinctIds(p.wraps) /\ IdsFit(p.wraps)
               => /\ r.status = "ok"
                  /\ p.input.size <= MaxPlaintext =>
                       \A key \in p.readers : Decrypt(r.container, key).text = p.input.text

(* A logical name is at most 255 bytes (metadata_plaintext.rs:70): what    *)
(* encrypt writes can be parsed.                                           *)
NamesAreShort ==
  \A i \in DOMAIN made : MetadataParses(made[i].container.metadata.plain)

(* The containers are copies of sealed files.                              *)
CopyOf(m) ==
  [file    |-> FileUuid(m.container),
   text    |-> m.container.payload.text,
   readers |-> {key \in Keys : Decrypt(m.container, key).status = "ok"}]

Copies == {CopyOf(m) : m \in Range(made)}

Sealed == INSTANCE SealedFile WITH
            People <- Keys,
            Texts  <- {input.text : input \in Inputs},
            Files  <- 1 .. MaxContainers,
            copies <- Copies

ImplementsSealedFile == Sealed!Spec

=============================================================================
