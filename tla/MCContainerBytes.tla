-------------------------- MODULE MCContainerBytes --------------------------
(* Instances of ContainerBytes for TLC. *)
EXTENDS ContainerBytes

Chunk(ct, flags) == [flags |-> flags, ciphertext |-> ct, tag |-> <<1>>]

MCContents ==
  {[metadata |-> <<1>>, root |-> <<0>>,
    payload |-> [chunkSize |-> 2, tagSize |-> 1,
                 chunks |-> <<Chunk(<<1, 0>>, 0), Chunk(<<1>>, 1)>>]],
   [metadata |-> <<0>>, root |-> <<1>>,
    payload |-> [chunkSize |-> 1, tagSize |-> 1, chunks |-> <<Chunk(<<0>>, 1)>>]]}

Wrap(label) == [id |-> <<1>> \o label, stanza |-> <<0>>]

(* One recipient; two, one without a label; a repeated identifier; and as  *)
(* many as the count can just not tell, and one more.                      *)
MCWrapLists ==
  {<<Wrap(<<>>)>>,
   <<Wrap(<<0>>), Wrap(<<>>)>>,
   <<Wrap(<<>>), Wrap(<<>>)>>,
   <<Wrap(<<>>), Wrap(<<0>>), Wrap(<<1>>)>>,
   <<Wrap(<<>>), Wrap(<<0>>), Wrap(<<1>>), Wrap(<<2>>)>>}

MCPolicies == {[threshold |-> 1, total |-> 1], [threshold |-> 2, total |-> 2],
               [threshold |-> 0, total |-> 1]}

=============================================================================
