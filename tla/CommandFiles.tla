---------------------------- MODULE CommandFiles ----------------------------
(***************************************************************************)
(* What the commands encrypt, decrypt, rewrap and gen-recipient (src/cli)  *)
(* do to files.  The first three check that their output does not exist    *)
(* (unless --force), read their input and their key file, compute, write   *)
(* the result to <output stem>.tmp and rename that over the output.        *)
(* gen-recipient writes <stem>.pub and then <stem>.key, over whatever is   *)
(* there.  Commands may run side by side, fail at any step and be killed   *)
(* at any moment.                                                          *)
(*                                                                         *)
(* A path names an inode; a process keeps writing to the inode it opened,  *)
(* whatever its path is called by then.  A file has two halves, so that it *)
(* can be half written; a half holds the mark of what was written there.   *)
(***************************************************************************)

CONSTANTS
  Commands,   \* the commands run
  Paths,
  TmpPath,    \* with_extension("tmp"), for every path
  PubPath,    \* with_extension("pub")
  KeyPath,    \* with_extension("key")
  Plans,      \* what may be run: [jobs, together], the job of each command
              \* ([does, input, key, output, force]) and whether they may
              \* overlap
  Existing    \* the paths that may exist at the beginning: a set of sets

None == "none"

Works == {"encrypt", "decrypt", "rewrap", "generate"}

KeyFiles == {PubPath[p] : p \in Paths} \cup {KeyPath[p] : p \in Paths}

(* with_extension replaces what it has set before, and sets what it is     *)
(* told; "none" is no path.                                                *)
ASSUME PathAssumption ==
  /\ {TmpPath, PubPath, KeyPath} \subseteq [Paths -> Paths]
  /\ \A f, g \in {TmpPath, PubPath, KeyPath}, p \in Paths : f[g[p]] = f[p]
  /\ \A p, q \in Paths : PubPath[p] # KeyPath[q]
  /\ None \notin Paths \cup Commands
  /\ Commands \cap Paths = {}
  /\ Existing \subseteq SUBSET Paths

(* Only gen-recipient makes key files, and it takes none.                  *)
ASSUME PlanAssumption ==
  /\ Plans \subseteq [jobs     : [Commands -> [does : Works, input : Paths, key : Paths \cup {None},
                                               output : Paths, force : BOOLEAN]],
                      together : BOOLEAN]
  /\ \A plan \in Plans, c \in Commands :
       IF plan.jobs[c].does = "generate" THEN plan.jobs[c].key = None
       ELSE {plan.jobs[c].output, TmpPath[plan.jobs[c].output]} \cap KeyFiles = {}

VARIABLES
  plan,     \* what is run
  stage,    \* how far each command is
  seen,     \* what each command has read as its input
  used,     \* and from its key file
  dir,      \* the directory: path -> inode, or None
  data,     \* inode -> its two halves
  handle    \* the inode each command has open for writing, or None

vars == <<plan, stage, seen, used, dir, data, handle>>

(* A path's first inode is named after it, and a key file never gets       *)
(* another; a command's temporary file is named after the command.         *)
Inodes == Paths \cup Commands
Empty  == [first |-> None, second |-> None]
All(x) == [first |-> x, second |-> x]

(* What is in a file at the beginning; the files of a key pair belong      *)
(* together.                                                               *)
Origin(p) == IF p \in KeyFiles THEN PubPath[p] ELSE p

Stages == {"check", "read", "load", "reload", "compute", "open", "first", "second", "rename",
           "public", "pub1", "pub2", "secret", "key1", "key2",
           "done", "failed", "killed"}
Ended  == {"done", "failed", "killed"}

Job(c)       == plan.jobs[c]
Generates(c) == Job(c).does = "generate"
Input(c)     == Job(c).input
Output(c)    == Job(c).output
Tmp(c)       == TmpPath[Output(c)]

Exists(p)  == dir[p] # None
Content(p) == data[dir[p]]

-----------------------------------------------------------------------------
Init ==
  /\ plan \in Plans
  /\ stage = [c \in Commands |-> "check"]
  /\ seen = [c \in Commands |-> Empty]
  /\ used = [c \in Commands |-> Empty]
  /\ \E there \in Existing :
       /\ dir = [p \in Paths |-> IF p \in there THEN p ELSE None]
       /\ data = [i \in Inodes |-> IF i \in there THEN All(Origin(i)) ELSE Empty]
  /\ handle = [c \in Commands |-> None]

Goto(c, s) == stage' = [stage EXCEPT ![c] = s]

files == <<dir, data, handle>>
read  == <<seen, used>>

(* A command starts; without overlap only when the others have ended.      *)
MayStart(c) == plan.together \/ \A d \in Commands \ {c} : stage[d] \in Ended \cup {"check"}

(* The test as it is, and one that ignores what exists.                    *)
NeverRefuses(c)  == FALSE
OutputRefused(c) == Exists(Output(c)) /\ ~Job(c).force

(* check_output.                                                           *)
CheckOutput(c) ==
  /\ stage[c] = "check"
  /\ ~Generates(c)
  /\ MayStart(c)
  /\ Goto(c, IF OutputRefused(c) THEN "failed" ELSE "read")
  /\ UNCHANGED <<plan, read, files>>

(* fs::read.                                                               *)
ReadInput(c) ==
  /\ stage[c] = "read"
  /\ IF Exists(Input(c)) THEN seen' = [seen EXCEPT ![c] = Content(Input(c))] /\ Goto(c, "load")
                         ELSE Goto(c, "failed") /\ UNCHANGED seen
  /\ UNCHANGED <<plan, used, files>>

(* decode_pem wants the header at one end and the footer at the other.     *)
(* (The variant is content with the header.)                               *)
HeaderOnly(text) == text.first # None
KeyParses(text)  == text.first # None /\ text.second # None

ReadsKey(c, from, to) ==
  /\ stage[c] = from
  /\ LET path == Job(c).key IN
     IF path = None THEN Goto(c, to) /\ UNCHANGED used
     ELSE IF Exists(path) /\ KeyParses(Content(path))
          THEN used' = [used EXCEPT ![c] = Content(path)] /\ Goto(c, to)
          ELSE Goto(c, "failed") /\ UNCHANGED used
  /\ UNCHANGED <<plan, seen, files>>

(* load_x25519_public and its like.  rewrap loads the recipient's key once *)
(* to see that it can and for the header, and again to seal to it: that    *)
(* load is unwrapped, and the command panics when the file is unreadable   *)
(* by then.                                                                *)
LoadKey(c)   == ReadsKey(c, "load", IF Job(c).does = "rewrap" THEN "reload" ELSE "compute")
ReloadKey(c) == ReadsKey(c, "reload", "compute")

(* Prompts and cryptography: nothing is written, and any of it may fail.   *)
(* decrypt and rewrap authenticate what was read, so that a half-written   *)
(* container fails.  (The variant goes on to the rename without writing.)  *)
Opens(c) == Job(c).does = "encrypt" \/ seen[c].first = seen[c].second

ComputeUnwritten(c) ==
  /\ stage[c] = "compute"
  /\ (Opens(c) /\ Goto(c, "rename")) \/ Goto(c, "failed")
  /\ UNCHANGED <<plan, read, files>>

Compute(c) ==
  /\ stage[c] = "compute"
  /\ (Opens(c) /\ Goto(c, "open")) \/ Goto(c, "failed")
  /\ UNCHANGED <<plan, read, files>>

(* A write that goes to the output itself, and where it goes.              *)
InPlace(c) == Output(c)
Target(c)  == Tmp(c)

(* fs::write opens the file: made anew, or emptied when it is there.       *)
OpenFile(c, path, from, to) ==
  /\ stage[c] = from
  /\ LET inode == IF Exists(path) THEN dir[path]
                  ELSE IF path \in KeyFiles THEN path ELSE c
     IN  /\ handle' = [handle EXCEPT ![c] = inode]
         /\ dir' = [dir EXCEPT ![path] = inode]
         /\ data' = [data EXCEPT ![inode] = Empty]
  /\ Goto(c, to)
  /\ UNCHANGED <<plan, read>>

WriteHalf(c, half, from, to) ==
  /\ stage[c] = from
  /\ data' = [data EXCEPT ![handle[c]][half] = c]
  /\ Goto(c, to)
  /\ UNCHANGED <<plan, read, dir, handle>>

OpenTmp(c) == OpenFile(c, Target(c), "open", "first")

(* A short write taken for a whole one, and write_all.                     *)
ShortWrite(c)  == WriteHalf(c, "first", "first", "rename")
WriteFirst(c)  == WriteHalf(c, "first", "first", "second")
WriteSecond(c) == WriteHalf(c, "second", "second", "rename")

(* gen-recipient makes a key pair and looks for no file.                   *)
Generate(c) ==
  /\ stage[c] = "check"
  /\ Generates(c)
  /\ MayStart(c)
  /\ Goto(c, "public")
  /\ UNCHANGED <<plan, read, files>>

WritePublic(c) ==
  \/ OpenFile(c, PubPath[Output(c)], "public", "pub1")
  \/ WriteHalf(c, "first", "pub1", "pub2")
  \/ WriteHalf(c, "second", "pub2", "secret")

(* A secret key that is already there, kept; and the code, which writes it *)
(* in any case.                                                            *)
KeepSecret(c) ==
  IF Exists(KeyPath[Output(c)])
  THEN stage[c] = "secret" /\ Goto(c, "done") /\ UNCHANGED <<plan, read, files>>
  ELSE OpenFile(c, KeyPath[Output(c)], "secret", "key1")
OpenSecret(c) == OpenFile(c, KeyPath[Output(c)], "secret", "key1")

WriteSecret(c) ==
  \/ OpenSecret(c)
  \/ WriteHalf(c, "first", "key1", "key2")
  \/ WriteHalf(c, "second", "key2", "done")

(* The disk is full, say: the command reports it and leaves behind what it *)
(* has written.                                                            *)
WriteFails(c) ==
  /\ stage[c] \in {"open", "first", "second", "public", "pub1", "pub2", "secret", "key1", "key2"}
  /\ Goto(c, "failed")
  /\ UNCHANGED <<plan, read, files>>

(* fs::rename: whatever the temporary path names by now becomes the output. *)
(* (The variant leaves the temporary name behind.)                         *)
Link(c) ==
  /\ stage[c] = "rename"
  /\ Exists(Tmp(c))
  /\ dir' = [dir EXCEPT ![Output(c)] = dir[Tmp(c)]]
  /\ Goto(c, "done")
  /\ UNCHANGED <<plan, read, data, handle>>

Rename(c) ==
  /\ stage[c] = "rename"
  /\ Exists(Tmp(c))
  /\ dir' = IF Tmp(c) = Output(c) THEN dir
            ELSE [dir EXCEPT ![Output(c)] = dir[Tmp(c)], ![Tmp(c)] = None]
  /\ Goto(c, "done")
  /\ UNCHANGED <<plan, read, data, handle>>

(* The temporary path is gone.                                             *)
RenameFails(c) ==
  /\ stage[c] = "rename"
  /\ ~Exists(Tmp(c))
  /\ Goto(c, "failed")
  /\ UNCHANGED <<plan, read, files>>

(* The process is killed.                                                  *)
Kill(c) ==
  /\ stage[c] \notin Ended \cup {"check"}
  /\ Goto(c, "killed")
  /\ UNCHANGED <<plan, read, files>>

Next ==
  \E c \in Commands :
    \/ CheckOutput(c) \/ ReadInput(c) \/ LoadKey(c) \/ ReloadKey(c) \/ Compute(c)
    \/ Generate(c) \/ WritePublic(c) \/ WriteSecret(c)
    \/ OpenTmp(c) \/ WriteFirst(c) \/ WriteSecond(c) \/ WriteFails(c)
    \/ Rename(c) \/ RenameFails(c)
    \/ Kill(c)

Spec == Init /\ [][Next]_vars

-----------------------------------------------------------------------------
(* Type invariant.                                                         *)
TypeOK ==
  /\ plan \in Plans
  /\ stage \in [Commands -> Stages]
  /\ {seen, used} \subseteq [Commands -> [first : Inodes \cup {None}, second : Inodes \cup {None}]]
  /\ dir \in [Paths -> Inodes \cup {None}]
  /\ data \in [Inodes -> [first : Inodes \cup {None}, second : Inodes \cup {None}]]
  /\ handle \in [Commands -> Inodes \cup {None}]
  /\ \A c \in Commands : stage[c] \in {"first", "second", "rename", "pub1", "pub2", "key1", "key2"}
                       => handle[c] # None

Succeeds(c) == stage[c] # "done" /\ stage'[c] = "done"

TmpPaths == {Tmp(c) : c \in {d \in Commands : ~Generates(d)}}

(* The files whose writer takes care of them.                              *)
Kept == Paths \ (TmpPaths \cup KeyFiles)

(* No two commands use one temporary file at the same time: they run one   *)
(* after the other, or their outputs have different stems.                 *)
TmpsApart == plan.together => \A c, d \in Commands :
    ~Generates(c) /\ ~Generates(d) /\ Tmp(c) = Tmp(d) => c = d

(* The files other than temporary ones and keys are whole at every moment: *)
(* what existed at the beginning or all of one command's result, whatever  *)
(* was killed or failed ("for atomicity", cli/encrypt.rs:115).             *)
FilesAreWhole ==
  TmpsApart =>
    \A p \in Kept :
      Exists(p) => Content(p).first = Content(p).second /\ Content(p) # Empty

(* A file other than these changes only in the step in which the command   *)
(* it is the output of succeeds: one that fails or is killed has left it   *)
(* as it was (write_output).                                               *)
ChangesOnlyBySuccess ==
  [][TmpsApart =>
       \A p \in Kept :
         \/ dir'[p] = dir[p] /\ (Exists(p) => data'[dir[p]] = data[dir[p]])
         \/ \E c \in Commands : p = Output(c) /\ Succeeds(c)]_vars

(* A command that reports success has put its own result, all of it, at    *)
(* its output, when no other command uses its temporary file.              *)
ApartSuccessIsOwnResult ==
  [][TmpsApart => \A c \in Commands :
                      Succeeds(c) /\ ~Generates(c) => data'[dir'[Output(c)]] = All(c)]_vars

(* "Write to a temp file, then rename for atomicity" (cli/encrypt.rs:115): *)
(* what a command that reports success put at its output is its result.    *)
SuccessIsOwnResult ==
  [][\A c \in Commands : Succeeds(c) /\ ~Generates(c) => data'[dir'[Output(c)]] = All(c)]_vars

(* "output file already exists -- use --force to overwrite"                *)
(* (cli/encrypt.rs:107): a command without it never replaces a file, when  *)
(* no other command makes its output after it has looked.                  *)
NeverReplacesUnforced ==
  [][TmpsApart =>
       \A c \in Commands :
         Succeeds(c) /\ ~Generates(c) /\ ~Job(c).force => ~Exists(Output(c)) \/ Output(c) = Tmp(c)]_vars

(* A command run in place replaces exactly the file it has read, so that   *)
(* nobody's change is lost: always when commands run one after the other,  *)
(* and side by side as long as no two have one temporary file, which two   *)
(* writers of one output always have (cli/rewrap_cmd.rs).                  *)
ReplacesWhatItRead ==
  [][TmpsApart =>
       \A c \in Commands :
         Succeeds(c) /\ ~Generates(c) /\ Input(c) = Output(c) /\ Output(c) # Tmp(c)
           => Content(Output(c)) = seen[c]]_vars

(* The generations of the key pair a path belongs to run one at a time.    *)
GeneratesPair(c, p) == Generates(c) /\ PubPath[Output(c)] = PubPath[p]

PairAlone(p) ==
  plan.together => \A c, d \in Commands : GeneratesPair(c, p) /\ GeneratesPair(d, p) => c = d

(* Public and secret key files beside each other are one whole pair, unless*)
(* a generation of this pair is under way, or has failed or was killed     *)
(* after it had opened the first file (cli/gen_recipient.rs).              *)
KeyPairsMatch ==
  \A p \in Paths :
    LET pub == PubPath[p]
        key == KeyPath[p]
    IN  /\ PairAlone(p)
        /\ \A c \in Commands :
             GeneratesPair(c, p) => handle[c] = None \/ stage[c] = "done"
        /\ Exists(pub)
        => /\ Exists(key)
           /\ Content(pub) = Content(key)
           /\ Content(pub).first = Content(pub).second

(* No command succeeds with a key file caught half written, at whichever   *)
(* of its loads (decode_pem).                                              *)
WholeKeysUsed ==
  \A c \in Commands :
    stage[c] = "done" /\ Job(c).key # None /\ PairAlone(Job(c).key)
      => used[c] # Empty /\ used[c].first = used[c].second

=============================================================================
