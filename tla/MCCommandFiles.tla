--------------------------- MODULE MCCommandFiles ---------------------------
(* Instances of CommandFiles for TLC. *)
EXTENDS CommandFiles, Sequences

MCCommands == {"c1", "c2"}

(* Two files with one stem, one of another, a key pair, and what           *)
(* with_extension makes of these names.                                    *)
Stems      == {"a", "b", "k"}
Extensions == {".hlk", ".tmp", ".pub", ".key"}
MCPaths    == {"a.txt"} \cup {s \o e : s \in Stems, e \in Extensions}

Stem(p)      == CHOOSE s \in Stems : p \in {s \o e : e \in Extensions \cup {".txt"}}
Extended(e)  == [p \in MCPaths |-> Stem(p) \o e]
MCTmpPath    == Extended(".tmp")
MCPubPath    == Extended(".pub")
MCKeyPath    == Extended(".key")

Run(w, i, k, o, f) == [does |-> w, input |-> i, key |-> k, output |-> o, force |-> f]

Jobs == {Run("encrypt", "a.txt", "k.pub", "a.hlk", FALSE),
         Run("encrypt", "a.txt", None, "b.hlk", TRUE),
         Run("decrypt", "a.hlk", "k.key", "a.txt", TRUE),
         Run("rewrap", "b.hlk", "k.pub", "b.hlk", TRUE),
         Run("decrypt", "b.hlk", None, "a.hlk", FALSE),
         Run("generate", "k.pub", None, "k.pub", FALSE)}

JobPairs == [MCCommands -> Jobs]

(* Every pair of jobs, one after the other and side by side. *)
MCAllPlans == [jobs : JobPairs, together : BOOLEAN]

(* Side by side on one stem: a container made from a.txt, and a.txt made. *)
MCSharedPlans ==
  {[jobs     |-> [c \in MCCommands |-> IF c = "c1" THEN Run("encrypt", "a.txt", None, "a.hlk", TRUE)
                                       ELSE Run("decrypt", "b.hlk", None, "a.txt", TRUE)],
    together |-> TRUE]}

(* a.tmp: left over from an earlier run; with and without a key pair. *)
MCExisting == {{"a.txt", "b.hlk", "a.tmp"}, {"a.txt", "b.hlk", "a.tmp", "k.pub", "k.key"}}

=============================================================================
