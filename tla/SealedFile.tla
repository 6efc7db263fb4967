----------------------------- MODULE SealedFile -----------------------------
(***************************************************************************)
(* What HydraLock promises about encrypted files: whoever seals a text     *)
(* names its readers; a copy for other readers can be derived only by      *)
(* someone who could read a copy of it; and every copy holds exactly the   *)
(* text that was sealed.  Copies handed out are never taken back.          *)
(***************************************************************************)
CONSTANTS
  People,     \* who may read
  Texts,      \* what may be sealed
  Files       \* identities of files

VARIABLE copies    \* the copies that exist: [file, text, readers]

Init == copies = {}

(* A new file, sealed for some readers.                                    *)
IsNewFile(new) == \A c \in copies : c.file # new.file

(* A copy of a file, made by a reader of another copy of it.               *)
IsShared(new) ==
  \E c \in copies : c.readers # {} /\ new = [c EXCEPT !.readers = new.readers]

(* Every step adds one copy.                                               *)
Next ==
  \E new \in copies' \ copies :
    /\ copies' = copies \cup {new}
    /\ new \in [file : Files, text : Texts, readers : (SUBSET People) \ {{}}]
    /\ IsNewFile(new) \/ IsShared(new)

Spec == Init /\ [][Next]_copies

=============================================================================
