------------------------- MODULE CommandFilesProofs -------------------------
(***************************************************************************)
(* Proofs about CommandFiles, for any commands, paths, jobs and files that *)
(* exist at the beginning, in turn or side by side, failing or killed      *)
(* anywhere.                                                               *)
(***************************************************************************)
EXTENDS CommandFiles, TLAPS

(* Where the commands can be.                                              *)
Active(c)  == stage[c] \notin Ended \cup {"check"}
Written    == {"first", "second", "rename"}
Checked    == {"read", "load", "reload", "compute", "open"} \cup Written
Generating == {"public", "pub1", "pub2", "secret", "key1", "key2"}

StageInv ==
  /\ \A c \in Commands :
       stage[c] \in {"check"} \cup Ended \cup IF Generates(c) THEN Generating ELSE Checked
  /\ ~plan.together => \A c, d \in Commands : Active(c) /\ Active(d) => c = d

(* Which path names which inode: every inode has one name at most, a key   *)
(* file its own and nobody else's, and a command's own inode is in use     *)
(* only once it has made it.  Who writes to key files.                     *)
InodeInv ==
  /\ \A p, q \in Paths : Exists(p) /\ dir[p] = dir[q] => p = q
  /\ \A p \in Paths : Exists(p) => (p \in KeyFiles => dir[p] = p) /\ (dir[p] \in KeyFiles => dir[p] = p)
  /\ \A p \in Paths, c \in Commands : dir[p] = c => stage[c] \in Written \cup Ended
  /\ \A c \in Commands :
       IF Generates(c) THEN handle[c] \in {None, PubPath[Output(c)], KeyPath[Output(c)]}
       ELSE handle[c] \notin KeyFiles

(* Temporary files nobody else uses: the command's is where it left it,    *)
(* and holds what it has written.                                          *)
TmpInv ==
  TmpsApart =>
    \A c \in Commands : stage[c] \in Written =>
      /\ Exists(Tmp(c)) /\ handle[c] = dir[Tmp(c)]
      /\ stage[c] = "second" => data[handle[c]].first = c
      /\ stage[c] = "rename" => data[handle[c]] = All(c)

FilesInv == TypeOK /\ StageInv /\ InodeInv /\ TmpInv /\ FilesAreWhole

(* What a command has found at its output is still so.                     *)
OutputInv ==
  TmpsApart =>
    \A c \in Commands : stage[c] \in Checked /\ Output(c) # Tmp(c) =>
      /\ ~Job(c).force => ~Exists(Output(c))
      /\ stage[c] # "read" /\ Input(c) = Output(c)
           => Exists(Output(c)) /\ Content(Output(c)) = seen[c]

(* A generation nobody disturbs: what it has written so far.               *)
Half(c) == [first |-> c, second |-> None]

GenerationInv ==
  \A c \in Commands : Generates(c) /\ PairAlone(Output(c)) =>
    LET pub == PubPath[Output(c)]
        key == KeyPath[Output(c)]
    IN  /\ stage[c] \in {"check", "public"} => handle[c] = None
        /\ stage[c] \in {"pub1", "pub2"} => handle[c] = pub
        /\ stage[c] \in {"key1", "key2"} => handle[c] = key /\ Exists(key)
        /\ stage[c] \in Generating \ {"public"} => Exists(pub)
        /\ stage[c] = "pub1" => data[pub] = Empty
        /\ stage[c] = "pub2" => data[pub] = Half(c)
        /\ stage[c] \in {"secret", "key1", "key2"} => data[pub] = All(c)
        /\ stage[c] = "key1" => data[key] = Empty
        /\ stage[c] = "key2" => data[key] = Half(c)

(* A key file with both ends is whole.                                     *)
KeysWhole ==
  \A p \in KeyFiles : PairAlone(p) /\ KeyParses(data[p]) => data[p].first = data[p].second

KeysUsed ==
  \A c \in Commands :
    /\ stage[c] \in (Checked \ {"read", "load"}) \cup {"done"}
    /\ Job(c).key \in KeyFiles
    /\ PairAlone(Job(c).key)
    => used[c] # Empty /\ used[c].first = used[c].second

-----------------------------------------------------------------------------
(* What the assumptions say of paths and jobs.                             *)

LEMMA Names ==
  /\ None \notin Inodes
  /\ Paths \cap Commands = {}
BY PathAssumption DEF Inodes

LEMMA Extensions ==
  ASSUME NEW p \in Paths
  PROVE  /\ TmpPath[p] \in Paths /\ PubPath[p] \in Paths /\ KeyPath[p] \in Paths
         /\ TmpPath[TmpPath[p]] = TmpPath[p]
         /\ PubPath[PubPath[p]] = PubPath[p] /\ PubPath[KeyPath[p]] = PubPath[p]
         /\ KeyPath[PubPath[p]] = KeyPath[p] /\ KeyPath[KeyPath[p]] = KeyPath[p]
         /\ PubPath[p] \in KeyFiles /\ KeyPath[p] \in KeyFiles
<1>1. TmpPath \in [Paths -> Paths] /\ PubPath \in [Paths -> Paths] /\ KeyPath \in [Paths -> Paths]
  BY PathAssumption
<1>2. \A f, g \in {TmpPath, PubPath, KeyPath} : f[g[p]] = f[p]
  BY PathAssumption
<1> QED BY <1>1, <1>2 DEF KeyFiles

LEMMA PairsDiffer ==
  ASSUME NEW p \in Paths, NEW q \in Paths
  PROVE  /\ PubPath[p] # KeyPath[q]
         /\ KeyPath[p] = KeyPath[q] <=> PubPath[p] = PubPath[q]
<1>1. PubPath[p] # KeyPath[q]
  BY PathAssumption
<1>2. /\ PubPath[KeyPath[p]] = PubPath[p] /\ PubPath[KeyPath[q]] = PubPath[q]
      /\ KeyPath[PubPath[p]] = KeyPath[p] /\ KeyPath[PubPath[q]] = KeyPath[q]
  BY Extensions
<1> QED BY <1>1, <1>2

LEMMA KeyFilesArePaths ==
  KeyFiles \subseteq Paths
BY Extensions DEF KeyFiles

LEMMA JobTypes ==
  ASSUME plan \in Plans, NEW c \in Commands
  PROVE  /\ Input(c) \in Paths /\ Output(c) \in Paths /\ Tmp(c) \in Paths
         /\ Job(c).key \in Paths \cup {None}
         /\ Generates(c) => Job(c).key = None
         /\ ~Generates(c) => Output(c) \notin KeyFiles /\ Tmp(c) \notin KeyFiles
<1>1. plan.jobs \in [Commands -> [does : Works, input : Paths, key : Paths \cup {None},
                                  output : Paths, force : BOOLEAN]]
  BY PlanAssumption
<1>2. Job(c) \in [does : Works, input : Paths, key : Paths \cup {None},
                  output : Paths, force : BOOLEAN]
  BY <1>1 DEF Job
<1>3. Input(c) \in Paths /\ Output(c) \in Paths /\ Job(c).key \in Paths \cup {None}
  BY <1>2 DEF Input, Output
<1>4. Tmp(c) \in Paths
  BY <1>3, Extensions DEF Tmp
<1>5. IF plan.jobs[c].does = "generate" THEN plan.jobs[c].key = None
      ELSE {plan.jobs[c].output, TmpPath[plan.jobs[c].output]} \cap KeyFiles = {}
  BY PlanAssumption
<1> QED BY <1>3, <1>4, <1>5 DEF Job, Generates, Output, Tmp

-----------------------------------------------------------------------------
(* Types.                                                                  *)

Text == [first : Inodes \cup {None}, second : Inodes \cup {None}]

LEMMA Texts ==
  /\ Empty \in Text
  /\ \A x \in Inodes : All(x) \in Text /\ All(x) # Empty
BY Names DEF Text, Empty, All

LEMMA InitTyped ==
  Init => TypeOK
<1> SUFFICES ASSUME Init PROVE TypeOK
  OBVIOUS
<1>1. PICK there \in Existing :
        /\ dir = [p \in Paths |-> IF p \in there THEN p ELSE None]
        /\ data = [i \in Inodes |-> IF i \in there THEN All(Origin(i)) ELSE Empty]
  BY DEF Init
<1>2. there \subseteq Paths
  BY PathAssumption
<1>3. \A p \in Paths : Origin(p) \in Inodes
  BY Extensions DEF Origin, Inodes
<1>4. dir \in [Paths -> Inodes \cup {None}]
  BY <1>1 DEF Inodes
<1>5. data \in [Inodes -> Text]
  BY <1>1, <1>2, <1>3, Texts
<1>6. seen \in [Commands -> Text] /\ used \in [Commands -> Text]
  BY Texts DEF Init
<1>7. handle \in [Commands -> Inodes \cup {None}] /\ stage \in [Commands -> Stages]
  BY DEF Init, Stages
<1>8. \A c \in Commands : stage[c] = "check"
  BY DEF Init
<1> QED BY <1>4, <1>5, <1>6, <1>7, <1>8 DEF Init, TypeOK, Text

LEMMA OpenFileTyped ==
  ASSUME TypeOK, NEW c \in Commands, NEW path \in Paths, NEW from, NEW to \in Stages,
         OpenFile(c, path, from, to)
  PROVE  TypeOK'
<1> DEFINE inode == IF Exists(path) THEN dir[path] ELSE IF path \in KeyFiles THEN path ELSE c
<1>1. inode \in Inodes
  BY DEF TypeOK, Exists, Inodes
<1>2. /\ handle' = [handle EXCEPT ![c] = inode]
      /\ dir' = [dir EXCEPT ![path] = inode]
      /\ data' = [data EXCEPT ![inode] = Empty]
      /\ stage' = [stage EXCEPT ![c] = to]
      /\ plan' = plan /\ seen' = seen /\ used' = used
  BY DEF OpenFile, Goto, read
<1> HIDE DEF inode
<1>3. data' \in [Inodes -> Text]
  BY <1>2, Texts DEF TypeOK, Text
<1>4. /\ handle' \in [Commands -> Inodes \cup {None}]
      /\ dir' \in [Paths -> Inodes \cup {None}]
      /\ stage' \in [Commands -> Stages]
  BY <1>1, <1>2 DEF TypeOK
<1>5. \A d \in Commands :
        stage'[d] \in {"first", "second", "rename", "pub1", "pub2", "key1", "key2"} => handle'[d] # None
  BY <1>1, <1>2, Names DEF TypeOK
<1> QED BY <1>2, <1>3, <1>4, <1>5 DEF TypeOK, Text

LEMMA WriteHalfTyped ==
  ASSUME TypeOK, NEW c \in Commands, NEW half \in {"first", "second"},
         NEW from \in {"first", "second", "pub1", "pub2", "key1", "key2"}, NEW to \in Stages,
         WriteHalf(c, half, from, to)
  PROVE  TypeOK' /\ handle[c] \in Inodes
<1>1. handle[c] \in Inodes
  BY DEF WriteHalf, TypeOK
<1>2. data[handle[c]] \in Text
  BY <1>1 DEF TypeOK, Text
<1>3. [data[handle[c]] EXCEPT ![half] = c] \in Text
  BY <1>2 DEF Text, Inodes
<1>4. data' \in [Inodes -> Text]
  BY <1>1, <1>3 DEF WriteHalf, TypeOK, Text
<1>5. stage' \in [Commands -> Stages]
  BY DEF WriteHalf, TypeOK, Goto
<1>6. \A d \in Commands :
        stage'[d] \in {"first", "second", "rename", "pub1", "pub2", "key1", "key2"} => handle'[d] # None
  BY <1>1, Names DEF WriteHalf, TypeOK, Goto
<1> QED BY <1>1, <1>4, <1>5, <1>6 DEF WriteHalf, TypeOK, Text, read

LEMMA QuietTyped ==
  ASSUME TypeOK, NEW c \in Commands, UNCHANGED <<plan, files>>,
         NEW to \in Stages \ {"first", "second", "rename", "pub1", "pub2", "key1", "key2"}, Goto(c, to),
         seen' \in [Commands -> Text], used' \in [Commands -> Text]
  PROVE  TypeOK'
BY DEF TypeOK, Goto, files, Text

-----------------------------------------------------------------------------
(* The steps of a command.                                                 *)
Step(c) ==
  \/ CheckOutput(c) \/ ReadInput(c) \/ LoadKey(c) \/ ReloadKey(c) \/ Compute(c)
  \/ Generate(c) \/ WritePublic(c) \/ WriteSecret(c)
  \/ OpenTmp(c) \/ WriteFirst(c) \/ WriteSecond(c) \/ WriteFails(c)
  \/ Rename(c) \/ RenameFails(c)
  \/ Kill(c)

LEMMA ReadsKeyTyped ==
  ASSUME TypeOK, NEW c \in Commands, NEW from, NEW to \in {"reload", "compute"}, ReadsKey(c, from, to)
  PROVE  TypeOK'
<1>1. CASE Job(c).key = None \/ ~(Exists(Job(c).key) /\ KeyParses(Content(Job(c).key)))
  <2>1. UNCHANGED <<plan, seen, used, files>>
    BY <1>1 DEF ReadsKey
  <2>2. PICK s \in {"reload", "compute", "failed"} : Goto(c, s)
    BY <1>1 DEF ReadsKey
  <2>3. s \in Stages \ {"first", "second", "rename", "pub1", "pub2", "key1", "key2"}
    BY DEF Stages
  <2> QED BY <2>1, <2>2, <2>3, QuietTyped DEF TypeOK, Text
<1>2. CASE Job(c).key # None /\ Exists(Job(c).key) /\ KeyParses(Content(Job(c).key))
  <2>1. Job(c).key \in Paths
    BY <1>2, JobTypes DEF TypeOK
  <2>2. Content(Job(c).key) \in Text
    BY <1>2, <2>1 DEF TypeOK, Text, Content, Exists
  <2>3. /\ used' = [used EXCEPT ![c] = Content(Job(c).key)]
        /\ Goto(c, to)
        /\ UNCHANGED <<plan, seen, files>>
    BY <1>2 DEF ReadsKey
  <2>4. used' \in [Commands -> Text]
    BY <2>2, <2>3 DEF TypeOK, Text
  <2>5. to \in Stages \ {"first", "second", "rename", "pub1", "pub2", "key1", "key2"}
    BY DEF Stages
  <2> QED BY <2>3, <2>4, <2>5, QuietTyped DEF TypeOK, Text
<1> QED BY <1>1, <1>2

LEMMA ReadInputTyped ==
  ASSUME TypeOK, NEW c \in Commands, ReadInput(c)
  PROVE  TypeOK'
<1>1. Input(c) \in Paths
  BY JobTypes DEF TypeOK
<1>2. Exists(Input(c)) => Content(Input(c)) \in Text
  BY <1>1 DEF TypeOK, Text, Content, Exists
<1>3. seen' \in [Commands -> Text]
  BY <1>2 DEF ReadInput, TypeOK, Text
<1>4. PICK s \in {"load", "failed"} : Goto(c, s)
  BY DEF ReadInput
<1>5. s \in Stages \ {"first", "second", "rename", "pub1", "pub2", "key1", "key2"}
  BY DEF Stages
<1> QED BY <1>3, <1>4, <1>5, QuietTyped DEF ReadInput, TypeOK, Text

(* The steps that only move on.                                            *)
MovesOn(c) ==
  CheckOutput(c) \/ Compute(c) \/ Generate(c) \/ WriteFails(c) \/ RenameFails(c) \/ Kill(c)

LEMMA MovesOnEffect ==
  ASSUME NEW c \in Commands, MovesOn(c)
  PROVE  /\ UNCHANGED <<plan, read, files>>
         /\ \E s \in {"read", "open", "public", "failed", "killed"} : Goto(c, s)
BY DEF MovesOn, CheckOutput, Compute, Generate, WriteFails, RenameFails, Kill

LEMMA RenameTyped ==
  ASSUME TypeOK, NEW c \in Commands, Rename(c)
  PROVE  TypeOK'
<1>1. Output(c) \in Paths /\ Tmp(c) \in Paths
  BY JobTypes DEF TypeOK
<1>2. dir' \in [Paths -> Inodes \cup {None}]
  BY <1>1 DEF Rename, TypeOK
<1>3. stage' = [stage EXCEPT ![c] = "done"] /\ UNCHANGED <<plan, seen, used, data, handle>>
  BY DEF Rename, Goto, read
<1>4. stage' \in [Commands -> Stages]
  BY <1>3 DEF TypeOK, Stages
<1> QED BY <1>2, <1>3, <1>4 DEF TypeOK

LEMMA StepTyped ==
  ASSUME TypeOK, NEW c \in Commands, Step(c)
  PROVE  TypeOK'
<1>1. CASE MovesOn(c)
  <2>1. UNCHANGED <<plan, seen, used, files>>
    BY <1>1, MovesOnEffect DEF read
  <2>2. PICK s \in {"read", "open", "public", "failed", "killed"} : Goto(c, s)
    BY <1>1, MovesOnEffect
  <2>3. s \in Stages \ {"first", "second", "rename", "pub1", "pub2", "key1", "key2"}
    BY DEF Stages
  <2> QED BY <2>1, <2>2, <2>3, QuietTyped DEF TypeOK, Text
<1>2. CASE ReadInput(c)
  BY <1>2, ReadInputTyped
<1>3. CASE LoadKey(c) \/ ReloadKey(c)
  <2>1. PICK from \in {"load", "reload"}, to \in {"reload", "compute"} : ReadsKey(c, from, to)
    BY <1>3 DEF LoadKey, ReloadKey
  <2> QED BY <2>1, ReadsKeyTyped
<1>4. CASE OpenTmp(c)
  <2>1. Tmp(c) \in Paths /\ "first" \in Stages
    BY JobTypes DEF TypeOK, Stages
  <2> QED BY <1>4, <2>1, OpenFileTyped DEF OpenTmp, Target
<1>5. CASE WriteFirst(c) \/ WriteSecond(c)
  <2>1. "second" \in Stages /\ "rename" \in Stages
    BY DEF Stages
  <2> QED BY <1>5, <2>1, WriteHalfTyped DEF WriteFirst, WriteSecond
<1>6. CASE WritePublic(c)
  <2>1. PubPath[Output(c)] \in Paths
    BY JobTypes, Extensions DEF TypeOK
  <2>2. "pub1" \in Stages /\ "pub2" \in Stages /\ "secret" \in Stages
    BY DEF Stages
  <2> QED BY <1>6, <2>1, <2>2, OpenFileTyped, WriteHalfTyped DEF WritePublic
<1>7. CASE WriteSecret(c)
  <2>1. KeyPath[Output(c)] \in Paths
    BY JobTypes, Extensions DEF TypeOK
  <2>2. "key1" \in Stages /\ "key2" \in Stages /\ "done" \in Stages
    BY DEF Stages
  <2> QED BY <1>7, <2>1, <2>2, OpenFileTyped, WriteHalfTyped DEF WriteSecret, OpenSecret
<1>8. CASE Rename(c)
  BY <1>8, RenameTyped
<1> QED BY <1>1, <1>2, <1>3, <1>4, <1>5, <1>6, <1>7, <1>8 DEF Step, MovesOn

LEMMA NextIsStep ==
  [Next]_vars <=> (\E c \in Commands : Step(c)) \/ UNCHANGED vars
BY DEF Next, Step

(* Every variable keeps its type, and who writes has a file open           *)
(* (cli/encrypt.rs, cli/gen_recipient.rs).                                 *)
THEOREM CommandsTyped == Spec => []TypeOK
<1>1. Init => TypeOK
  BY InitTyped
<1>2. TypeOK /\ [Next]_vars => TypeOK'
  <2> SUFFICES ASSUME TypeOK, [Next]_vars PROVE TypeOK'
    OBVIOUS
  <2>1. CASE UNCHANGED vars
    BY <2>1 DEF vars, TypeOK
  <2>2. ASSUME NEW c \in Commands, Step(c) PROVE TypeOK'
    BY <2>2, StepTyped
  <2> QED BY <2>1, <2>2, NextIsStep
<1> QED BY <1>1, <1>2, PTL DEF Spec

-----------------------------------------------------------------------------
(* Where a step leads: only its own command moves, on its own way.         *)
Ways(c) == Ended \cup IF Generates(c) THEN Generating ELSE Checked

LEMMA StepMoves ==
  ASSUME TypeOK, StageInv, NEW c \in Commands, Step(c)
  PROVE  /\ plan' = plan
         /\ stage[c] \notin Ended
         /\ stage[c] = "check" => MayStart(c)
         /\ stage' = [stage EXCEPT ![c] = stage'[c]]
         /\ stage'[c] \in Ways(c)
         /\ stage'[c] = "done" /\ ~Generates(c) => Rename(c)
<1>1. stage[c] \in {"check"} \cup Ways(c)
  BY DEF StageInv, Ways
<1>2. stage \in [Commands -> Stages]
  BY DEF TypeOK
<1> DEFINE Leads(from, to) ==
      /\ plan' = plan /\ stage[c] = from /\ stage' = [stage EXCEPT ![c] = to]
<1>3. CASE CheckOutput(c)
  <2>1. \E to \in {"failed", "read"} : Leads("check", to) /\ ~Generates(c) /\ MayStart(c)
    BY <1>3 DEF CheckOutput, Goto
  <2> QED BY <1>2, <2>1 DEF Ways, Ended, Checked
<1>4. CASE ReadInput(c)
  <2>1. \E to \in {"failed", "load"} : Leads("read", to)
    BY <1>4 DEF ReadInput, Goto
  <2> QED BY <1>1, <1>2, <2>1 DEF Ways, Ended, Checked, Generating
<1>5. CASE LoadKey(c) \/ ReloadKey(c)
  <2>1. \E from \in {"load", "reload"}, to \in {"failed", "reload", "compute"} : Leads(from, to)
    BY <1>5 DEF LoadKey, ReloadKey, ReadsKey, Goto
  <2> QED BY <1>1, <1>2, <2>1 DEF Ways, Ended, Checked, Generating
<1>6. CASE Compute(c)
  <2>1. \E to \in {"failed", "open"} : Leads("compute", to)
    BY <1>6 DEF Compute, Goto
  <2> QED BY <1>1, <1>2, <2>1 DEF Ways, Ended, Checked, Generating
<1>7. CASE Generate(c)
  <2>1. Leads("check", "public") /\ Generates(c) /\ MayStart(c)
    BY <1>7 DEF Generate, Goto
  <2> QED BY <1>2, <2>1 DEF Ways, Ended, Generating
<1>8. CASE WritePublic(c) \/ WriteSecret(c)
  <2>1. \E from \in Generating, to \in Generating \cup {"done"} : Leads(from, to)
    BY <1>8 DEF WritePublic, WriteSecret, OpenSecret, OpenFile, WriteHalf, Goto, Generating
  <2>2. Generating \cap ({"check"} \cup Ended \cup Checked) = {}
    BY DEF Ended, Checked, Generating, Written
  <2>3. Generates(c)
    BY <1>1, <2>1, <2>2 DEF Ways
  <2>4. stage[c] \notin Ended \cup {"check"}
    BY <2>1, <2>2
  <2>5. stage'[c] \in Generating \cup {"done"} /\ plan' = plan /\ stage' = [stage EXCEPT ![c] = stage'[c]]
    BY <1>2, <2>1
  <2> QED BY <2>3, <2>4, <2>5 DEF Ways, Ended
<1>9. CASE OpenTmp(c) \/ WriteFirst(c) \/ WriteSecond(c)
  <2>1. \E from \in {"open", "first", "second"}, to \in Written : Leads(from, to)
    BY <1>9 DEF OpenTmp, WriteFirst, WriteSecond, OpenFile, WriteHalf, Goto, Written
  <2> QED BY <1>1, <1>2, <2>1 DEF Ways, Ended, Checked, Generating, Written
<1>10. CASE Rename(c)
  <2>1. Leads("rename", "done")
    BY <1>10 DEF Rename, Goto
  <2> QED BY <1>1, <1>2, <1>10, <2>1 DEF Ways, Ended, Checked, Generating, Written
<1>11. CASE WriteFails(c) \/ RenameFails(c) \/ Kill(c)
  <2>1. \E to \in {"failed", "killed"} : plan' = plan /\ stage' = [stage EXCEPT ![c] = to]
    BY <1>11 DEF WriteFails, RenameFails, Kill, Goto
  <2>2. stage[c] \notin Ended \cup {"check"}
    BY <1>11 DEF WriteFails, RenameFails, Kill, Ended
  <2> QED BY <1>2, <2>1, <2>2 DEF Ways, Ended
<1> QED BY <1>3, <1>4, <1>5, <1>6, <1>7, <1>8, <1>9, <1>10, <1>11 DEF Step

LEMMA StepKeepsStages ==
  ASSUME TypeOK, StageInv, NEW c \in Commands, Step(c)
  PROVE  StageInv'
<1>1. /\ plan' = plan
      /\ stage[c] \notin Ended
      /\ stage[c] = "check" => MayStart(c)
      /\ stage' = [stage EXCEPT ![c] = stage'[c]]
      /\ stage'[c] \in Ways(c)
  BY StepMoves
<1>2. stage \in [Commands -> Stages]
  BY DEF TypeOK
<1>3. \A d \in Commands : d # c => stage'[d] = stage[d]
  BY <1>1, <1>2
<1>4. \A d \in Commands : Generates(d)' = Generates(d)
  BY <1>1 DEF Generates, Job
<1>5. \A d \in Commands :
        stage'[d] \in {"check"} \cup Ended \cup IF Generates(d) THEN Generating ELSE Checked
  BY <1>1, <1>3 DEF Ways, StageInv
<1>6. ASSUME ~plan.together, NEW d \in Commands, Active(d)', d # c PROVE FALSE
  <2>1. Active(d)
    BY <1>3, <1>6 DEF Active
  <2>2. stage[c] # "check"
    BY <1>1, <1>6, <2>1 DEF Active, MayStart
  <2>3. Active(c)
    BY <1>1, <2>2 DEF Active
  <2> QED BY <1>6, <2>1, <2>3 DEF StageInv
<1> QED BY <1>1, <1>4, <1>5, <1>6 DEF StageInv

-----------------------------------------------------------------------------
(* Inodes.                                                                 *)

(* What opening a file does, in a directory in which every inode has one   *)
(* name: the path then names an inode that no other path names.            *)
Opened(c, path) ==
  /\ dir'[path] \in Inodes
  /\ handle' = [handle EXCEPT ![c] = dir'[path]]
  /\ data'[dir'[path]] = Empty
  /\ \A q \in Paths \ {path} : dir'[q] = dir[q] /\ dir[q] # dir'[path]
  /\ \A i \in Inodes : i # dir'[path] => data'[i] = data[i]
  /\ path \in KeyFiles => dir'[path] = path
  /\ path \notin KeyFiles => dir'[path] \notin KeyFiles /\ dir'[path] \in {dir[path], c}

LEMMA OpenEffect ==
  ASSUME TypeOK, InodeInv, NEW c \in Commands, NEW path \in Paths, NEW from, NEW to,
         OpenFile(c, path, from, to), path \in KeyFiles \/ from = "open"
  PROVE  Opened(c, path)
<1> DEFINE inode == IF Exists(path) THEN dir[path] ELSE IF path \in KeyFiles THEN path ELSE c
<1>1. /\ handle' = [handle EXCEPT ![c] = inode]
      /\ dir' = [dir EXCEPT ![path] = inode]
      /\ data' = [data EXCEPT ![inode] = Empty]
      /\ stage[c] = from
  BY DEF OpenFile
<1>2. inode \in Inodes
  BY DEF TypeOK, Exists, Inodes
<1>3. path \in KeyFiles => inode = path
  BY DEF InodeInv
<1>4. path \notin KeyFiles => inode \notin KeyFiles /\ inode \in {dir[path], c}
  BY Names, KeyFilesArePaths DEF InodeInv
<1>5. ASSUME NEW q \in Paths, q # path PROVE dir[q] # inode
  <2>1. CASE Exists(path)
    BY <1>5, <2>1 DEF InodeInv
  <2>2. CASE ~Exists(path) /\ path \in KeyFiles
    BY <1>5, <2>2, Names DEF InodeInv, Exists, Inodes
  <2>3. CASE ~Exists(path) /\ path \notin KeyFiles
    <3>1. stage[c] = "open" /\ inode = c
      BY <1>1, <2>3
    <3> QED BY <3>1 DEF InodeInv, Written, Ended
  <2> QED BY <2>1, <2>2, <2>3
<1> HIDE DEF inode
<1>6. dir'[path] = inode /\ \A q \in Paths \ {path} : dir'[q] = dir[q]
  BY <1>1 DEF TypeOK
<1>7. data'[inode] = Empty /\ \A i \in Inodes : i # inode => data'[i] = data[i]
  BY <1>1, <1>2 DEF TypeOK
<1> QED BY <1>1, <1>2, <1>3, <1>4, <1>5, <1>6, <1>7 DEF Opened

(* A command writes a half of the file it has open.                        *)
Filled(c, half) ==
  /\ handle[c] \in Inodes
  /\ data'[handle[c]] = [data[handle[c]] EXCEPT ![half] = c]
  /\ \A i \in Inodes : i # handle[c] => data'[i] = data[i]
  /\ UNCHANGED <<dir, handle>>

LEMMA WriteEffect ==
  ASSUME TypeOK, NEW c \in Commands, NEW half \in {"first", "second"},
         NEW from \in {"first", "second", "pub1", "pub2", "key1", "key2"}, NEW to,
         WriteHalf(c, half, from, to)
  PROVE  Filled(c, half)
<1>1. handle[c] \in Inodes
  BY DEF WriteHalf, TypeOK
<1> QED BY <1>1 DEF WriteHalf, TypeOK, Filled

(* The steps that leave the files alone: on the way to the writing, and to *)
(* the end.                                                                *)
Preparing == {"read", "load", "reload", "compute"}

Prepares(c) ==
  /\ stage[c] \in {"check"} \cup Preparing
  /\ stage'[c] \in Preparing \cup {"open", "public"}
  /\ stage[c] # "check" => stage'[c] # "public"
  /\ UNCHANGED files

GivesUp(c) ==
  /\ stage'[c] \in {"failed", "killed"}
  /\ UNCHANGED files

(* What every step does to the files.                                      *)
LEMMA StepEffect ==
  ASSUME TypeOK, InodeInv, NEW c \in Commands, Step(c)
  PROVE  \/ Prepares(c) \/ GivesUp(c)
         \/ stage[c] = "open" /\ stage'[c] = "first" /\ Opened(c, Tmp(c))
         \/ stage[c] = "first" /\ stage'[c] = "second" /\ Filled(c, "first")
         \/ stage[c] = "second" /\ stage'[c] = "rename" /\ Filled(c, "second")
         \/ Rename(c)
         \/ stage[c] = "public" /\ stage'[c] = "pub1" /\ Opened(c, PubPath[Output(c)])
         \/ stage[c] = "pub1" /\ stage'[c] = "pub2" /\ Filled(c, "first")
         \/ stage[c] = "pub2" /\ stage'[c] = "secret" /\ Filled(c, "second")
         \/ stage[c] = "secret" /\ stage'[c] = "key1" /\ Opened(c, KeyPath[Output(c)])
         \/ stage[c] = "key1" /\ stage'[c] = "key2" /\ Filled(c, "first")
         \/ stage[c] = "key2" /\ stage'[c] = "done" /\ Filled(c, "second")
<1>1. CASE MovesOn(c) \/ ReadInput(c) \/ LoadKey(c) \/ ReloadKey(c)
  <2>1. UNCHANGED files
    BY <1>1, MovesOnEffect DEF ReadInput, LoadKey, ReloadKey, ReadsKey
  <2>2. \/ stage'[c] \in {"failed", "killed"}
        \/ stage[c] = "check" /\ stage'[c] \in {"read", "public"}
        \/ stage[c] = "compute" /\ stage'[c] = "open"
        \/ stage[c] \in {"read", "load", "reload"} /\ stage'[c] \in Preparing
    BY <1>1 DEF MovesOn, CheckOutput, Compute, Generate, WriteFails, RenameFails, Kill,
                ReadInput, LoadKey, ReloadKey, ReadsKey, Goto, TypeOK, Preparing
  <2> QED BY <2>1, <2>2 DEF Prepares, GivesUp, Preparing
<1>2. Tmp(c) \in Paths /\ Output(c) \in Paths
  BY JobTypes DEF TypeOK
<1>3. /\ PubPath[Output(c)] \in Paths \cap KeyFiles
      /\ KeyPath[Output(c)] \in Paths \cap KeyFiles
  BY <1>2, Extensions
<1>4. \A s : Goto(c, s) => stage'[c] = s
  BY DEF TypeOK, Goto
<1>5. CASE OpenTmp(c)
  BY <1>2, <1>4, <1>5, OpenEffect DEF OpenTmp, Target, OpenFile
<1>6. CASE WriteFirst(c) \/ WriteSecond(c)
  BY <1>4, <1>6, WriteEffect DEF WriteFirst, WriteSecond, WriteHalf
<1>7. CASE WritePublic(c)
  BY <1>3, <1>4, <1>7, OpenEffect, WriteEffect DEF WritePublic, OpenFile, WriteHalf
<1>8. CASE WriteSecret(c)
  BY <1>3, <1>4, <1>8, OpenEffect, WriteEffect DEF WriteSecret, OpenSecret, OpenFile, WriteHalf
<1> QED BY <1>1, <1>5, <1>6, <1>7, <1>8 DEF Step, MovesOn

LEMMA InitFiles ==
  Init => InodeInv /\ FilesAreWhole
<1> SUFFICES ASSUME Init PROVE InodeInv /\ FilesAreWhole
  OBVIOUS
<1>1. PICK there \in Existing :
        /\ dir = [p \in Paths |-> IF p \in there THEN p ELSE None]
        /\ data = [i \in Inodes |-> IF i \in there THEN All(Origin(i)) ELSE Empty]
  BY DEF Init
<1>2. \A p \in Paths : dir[p] # None => dir[p] = p /\ p \in there
  BY <1>1
<1>3. \A c \in Commands : handle[c] = None /\ None \notin KeyFiles
  BY Names, KeyFilesArePaths DEF Init, Inodes
<1>4. InodeInv
  BY <1>2, <1>3, Names DEF InodeInv, Exists, Inodes
<1>5. ASSUME NEW p \in Paths, Exists(p)
      PROVE  Content(p).first = Content(p).second /\ Content(p) # Empty
  <2>1. dir[p] = p /\ data[p] = All(Origin(p))
    BY <1>1, <1>2, <1>5 DEF Exists, Inodes
  <2>2. Origin(p) \in Inodes
    BY Extensions DEF Origin, Inodes
  <2> QED BY <2>1, <2>2, Texts DEF Content, All
<1> QED BY <1>4, <1>5 DEF FilesAreWhole, Kept

LEMMA StepKeepsInodes ==
  ASSUME TypeOK, StageInv, InodeInv, NEW c \in Commands, Step(c)
  PROVE  InodeInv'
<1>1. plan' = plan /\ \A d \in Commands : d # c => stage'[d] = stage[d]
  BY StepMoves DEF TypeOK
<1>2. \A d \in Commands : Generates(d)' = Generates(d) /\ Output(d)' = Output(d) /\ Output(d) \in Paths
  BY <1>1, JobTypes DEF Generates, Output, Job, TypeOK
<1> USE DEF InodeInv, Exists
<1>3. ASSUME UNCHANGED <<dir, handle>>, stage[c] \in Written \cup Ended => stage'[c] \in Written \cup Ended
      PROVE  InodeInv'
  BY <1>1, <1>2, <1>3
<1>4. CASE Prepares(c) \/ GivesUp(c)
  BY <1>3, <1>4 DEF Prepares, GivesUp, Preparing, files, Written, Ended
<1>5. CASE stage'[c] \in Written \cup Ended /\ \E half \in {"first", "second"} : Filled(c, half)
  BY <1>3, <1>5 DEF Filled
<1>6. CASE stage[c] \in Generating /\ \E half \in {"first", "second"} : Filled(c, half)
  BY <1>3, <1>6 DEF Filled, Generating, Written, Ended
<1>7. ASSUME NEW path \in Paths, Opened(c, path),
             IF Generates(c) THEN path \in {PubPath[Output(c)], KeyPath[Output(c)]}
                             ELSE path \notin KeyFiles,
             path \in KeyFiles => stage[c] \notin Written \cup Ended,
             path \notin KeyFiles => stage'[c] \in Written
      PROVE  InodeInv'
  <2>1. \A p, q \in Paths : dir'[p] # None /\ dir'[p] = dir'[q] => p = q
    BY <1>7 DEF Opened
  <2>2. \A p \in Paths : dir'[p] # None =>
          (p \in KeyFiles => dir'[p] = p) /\ (dir'[p] \in KeyFiles => dir'[p] = p)
    BY <1>7 DEF Opened
  <2>3. ASSUME NEW p \in Paths, NEW d \in Commands, dir'[p] = d PROVE stage'[d] \in Written \cup Ended
    <3>1. CASE dir'[p] = dir[p]
      <4>1. d \in Inodes /\ d # None /\ dir[p] = d
        BY <2>3, <3>1, Names DEF Inodes
      <4>2. stage[d] \in Written \cup Ended
        BY <4>1
      <4>3. d = c => path \notin KeyFiles
        BY <1>7, <4>2
      <4> QED BY <1>1, <1>7, <4>2, <4>3
    <3>2. CASE dir'[p] # dir[p]
      <4>1. p = path /\ d \notin Paths
        BY <1>7, <2>3, <3>2, Names DEF Opened
      <4>2. path \notin KeyFiles /\ d = c
        BY <1>7, <2>3, <3>2, <4>1 DEF Opened
      <4> QED BY <1>7, <4>2
    <3> QED BY <3>1, <3>2
  <2>4. ASSUME NEW d \in Commands
        PROVE  IF Generates(d) THEN handle'[d] \in {None, PubPath[Output(d)], KeyPath[Output(d)]}
               ELSE handle'[d] \notin KeyFiles
    <3>1. CASE d # c
      BY <3>1, <1>7 DEF Opened, TypeOK
    <3>2. CASE d = c
      <4>1. handle'[c] = dir'[path]
        BY <1>7 DEF Opened, TypeOK
      <4>2. PubPath[Output(c)] \in KeyFiles /\ KeyPath[Output(c)] \in KeyFiles
        BY <1>2, Extensions
      <4> QED BY <1>7, <3>2, <4>1, <4>2 DEF Opened
    <3> QED BY <3>1, <3>2
  <2> QED BY <1>2, <2>1, <2>2, <2>3, <2>4
<1>8. CASE stage[c] = "open" /\ stage'[c] = "first" /\ Opened(c, Tmp(c))
  <2>1. ~Generates(c)
    BY <1>8 DEF StageInv, Ended, Generating
  <2>2. Tmp(c) \in Paths \ KeyFiles
    BY <2>1, JobTypes DEF TypeOK
  <2> QED BY <1>7, <1>8, <2>1, <2>2 DEF Written
<1>9. CASE \/ stage[c] = "public" /\ Opened(c, PubPath[Output(c)])
           \/ stage[c] = "secret" /\ Opened(c, KeyPath[Output(c)])
  <2>1. Generates(c) /\ stage[c] \notin Written \cup Ended
    BY <1>9 DEF StageInv, Ended, Checked, Written
  <2>2. {PubPath[Output(c)], KeyPath[Output(c)]} \subseteq Paths \cap KeyFiles
    BY <1>2, Extensions
  <2> QED BY <1>7, <1>9, <2>1, <2>2
<1>10. CASE Rename(c)
  <2>1. ~Generates(c)
    BY <1>10 DEF Rename, StageInv, Ended, Generating
  <2>2. {Output(c), Tmp(c)} \subseteq Paths \ KeyFiles
    BY <2>1, JobTypes DEF TypeOK
  <2>3. stage'[c] = "done" /\ handle' = handle
    BY <1>10 DEF Rename, Goto, TypeOK
  <2>4. CASE Tmp(c) = Output(c)
    BY <1>3, <1>10, <2>3, <2>4 DEF Rename, Ended
  <2>5. CASE Tmp(c) # Output(c)
    <3>1. dir'[Output(c)] = dir[Tmp(c)] /\ dir'[Tmp(c)] = None
      BY <1>10, <2>2, <2>5 DEF Rename, TypeOK
    <3>2. \A p \in Paths \ {Output(c), Tmp(c)} : dir'[p] = dir[p]
      BY <1>10, <2>2, <2>5 DEF Rename, TypeOK
    <3>3. dir[Tmp(c)] # None /\ dir[Tmp(c)] \notin KeyFiles
      BY <1>10, <2>2 DEF Rename
    <3>4. \A p, q \in Paths : dir'[p] # None /\ dir'[p] = dir'[q] => p = q
      BY <2>2, <3>1, <3>2, <3>3
    <3>5. \A p \in Paths : dir'[p] # None =>
            (p \in KeyFiles => dir'[p] = p) /\ (dir'[p] \in KeyFiles => dir'[p] = p)
      BY <2>2, <3>1, <3>2, <3>3
    <3>6. \A p \in Paths : dir'[p] # None => \E q \in Paths : dir'[p] = dir[q]
      BY <2>2, <3>1, <3>2
    <3>7. \A p \in Paths, d \in Commands : dir'[p] = d => stage'[d] \in Written \cup Ended
      BY <1>1, <2>3, <3>6, Names DEF Inodes, Ended
    <3> QED BY <1>2, <2>3, <3>4, <3>5, <3>7
  <2> QED BY <2>4, <2>5
<1> QED BY <1>4, <1>5, <1>6, <1>8, <1>9, <1>10, StepEffect DEF Written, Ended, Generating

-----------------------------------------------------------------------------
(* Temporary files.                                                        *)

(* Commands under way at the same time, when none shares its temporary     *)
(* file.                                                                   *)
LEMMA TmpsDiffer ==
  ASSUME TypeOK, StageInv, TmpsApart,
         NEW c \in Commands, NEW d \in Commands, c # d,
         ~Generates(c), ~Generates(d), Active(c), Active(d)
  PROVE  Tmp(c) # Tmp(d) /\ Output(c) # Output(d) /\ Output(d) # Tmp(c)
<1>1. plan.together
  BY DEF StageInv
<1>2. Tmp(c) # Tmp(d)
  BY <1>1 DEF TmpsApart
<1>3. Output(c) \in Paths /\ Output(d) \in Paths
  BY JobTypes DEF TypeOK
<1>4. TmpPath[Tmp(c)] = Tmp(c)
  BY <1>3, Extensions DEF Tmp
<1> QED BY <1>2, <1>4 DEF Tmp

(* What is open for writing: a key file, or the command's temporary file.  *)
LEMMA WritersApart ==
  ASSUME TypeOK, StageInv, InodeInv, TmpInv, TmpsApart, NEW c \in Commands, handle[c] \in Inodes,
         stage[c] \in Written \cup Generating
  PROVE  /\ handle[c] \in KeyFiles \/ (~Generates(c) /\ handle[c] = dir[Tmp(c)])
         /\ \A p \in Paths \ KeyFiles : dir[p] = handle[c] => ~Generates(c) /\ p = Tmp(c)
<1>1. CASE Generates(c)
  <2>1. handle[c] \in {PubPath[Output(c)], KeyPath[Output(c)]}
    BY <1>1, Names DEF InodeInv
  <2>2. handle[c] \in KeyFiles
    BY <2>1, Extensions, JobTypes DEF TypeOK
  <2>3. \A p \in Paths : dir[p] = handle[c] => p \in KeyFiles
    BY <2>2, KeyFilesArePaths, Names DEF InodeInv, Exists, Inodes
  <2> QED BY <2>2, <2>3
<1>2. CASE ~Generates(c)
  <2>1. stage[c] \in Written
    BY <1>2 DEF StageInv, Written, Generating, Ended, Checked
  <2>2. Exists(Tmp(c)) /\ handle[c] = dir[Tmp(c)]
    BY <2>1 DEF TmpInv
  <2>3. Tmp(c) \in Paths
    BY JobTypes DEF TypeOK
  <2> QED BY <1>2, <2>2, <2>3 DEF InodeInv
<1> QED BY <1>1, <1>2

(* Of the files other than keys a step touches the temporary one of its    *)
(* command, and, when it renames that, the output.                         *)
LEMMA StepTouches ==
  ASSUME TypeOK, StageInv, InodeInv, TmpInv, TmpsApart, NEW c \in Commands, Step(c),
         NEW p \in Paths \ KeyFiles, ~Generates(c) => p # Tmp(c), Rename(c) => p # Output(c)
  PROVE  /\ dir'[p] = dir[p]
         /\ Exists(p) => data'[dir[p]] = data[dir[p]]
<1>1. Output(c) \in Paths /\ Tmp(c) \in Paths
  BY JobTypes DEF TypeOK
<1>2. Exists(p) => dir[p] \in Inodes
  BY DEF TypeOK, Exists
<1>3. CASE UNCHANGED files
  BY <1>3 DEF files
<1>4. ASSUME NEW path \in Paths \ {p}, Opened(c, path)
      PROVE  dir'[p] = dir[p] /\ (Exists(p) => data'[dir[p]] = data[dir[p]])
  BY <1>2, <1>4 DEF Opened
<1>5. ASSUME NEW half \in {"first", "second"}, Filled(c, half), stage[c] \in Written \cup Generating
      PROVE  dir'[p] = dir[p] /\ (Exists(p) => data'[dir[p]] = data[dir[p]])
  <2>1. handle[c] \in Inodes
    BY <1>5 DEF Filled
  <2>2. dir[p] # handle[c]
    BY <1>5, <2>1, WritersApart
  <2> QED BY <1>2, <1>5, <2>2 DEF Filled
<1>6. CASE Rename(c)
  <2>1. ~Generates(c)
    BY <1>6 DEF Rename, StageInv, Generating, Ended
  <2> QED BY <1>1, <1>6, <2>1 DEF Rename, TypeOK
<1>7. /\ PubPath[Output(c)] \in Paths \ {p}
      /\ KeyPath[Output(c)] \in Paths \ {p}
      /\ stage[c] = "open" => Tmp(c) \in Paths \ {p}
  <2>1. stage[c] = "open" => ~Generates(c)
    BY DEF StageInv, Generating, Ended
  <2> QED BY <1>1, <2>1, Extensions
<1> QED BY <1>3, <1>4, <1>5, <1>6, <1>7, StepEffect DEF Prepares, GivesUp, Written, Generating

LEMMA StepKeepsTmps ==
  ASSUME TypeOK, StageInv, InodeInv, TmpInv, NEW c \in Commands, Step(c)
  PROVE  TmpInv'
<1>1. plan' = plan /\ \A d \in Commands : d # c => stage'[d] = stage[d]
  BY StepMoves DEF TypeOK
<1>2. \A d \in Commands :
        Generates(d)' = Generates(d) /\ Output(d)' = Output(d) /\ Tmp(d)' = Tmp(d) /\ Tmp(d) \in Paths
  BY <1>1, JobTypes DEF Generates, Tmp, Output, Job, TypeOK
<1>3. TmpsApart' = TmpsApart
  BY <1>1, <1>2 DEF TmpsApart
<1>4. TmpInv' <=>
        (TmpsApart =>
           \A d \in Commands : stage'[d] \in Written =>
             /\ dir'[Tmp(d)] # None /\ handle'[d] = dir'[Tmp(d)]
             /\ stage'[d] = "second" => data'[handle'[d]].first = d
             /\ stage'[d] = "rename" => data'[handle'[d]] = All(d))
  BY <1>2, <1>3 DEF TmpInv, Exists
<1> SUFFICES ASSUME TmpsApart, NEW d \in Commands, stage'[d] \in Written
             PROVE  /\ dir'[Tmp(d)] # None /\ handle'[d] = dir'[Tmp(d)]
                    /\ stage'[d] = "second" => data'[handle'[d]].first = d
                    /\ stage'[d] = "rename" => data'[handle'[d]] = All(d)
  BY <1>4
<1>5. CASE d = c
  <2>1. CASE Opened(c, Tmp(c)) /\ stage'[c] = "first"
    <3>1. dir'[Tmp(c)] # None
      BY <2>1, Names DEF Opened
    <3>2. handle'[c] = dir'[Tmp(c)]
      BY <2>1 DEF Opened, TypeOK
    <3> QED BY <1>5, <2>1, <3>1, <3>2
  <2>2. ASSUME NEW half, Filled(c, half), stage[c] \in Written
        PROVE  /\ dir'[Tmp(c)] # None /\ handle'[c] = dir'[Tmp(c)]
               /\ data'[handle'[c]] = [data[handle[c]] EXCEPT ![half] = c]
    <3>1. dir[Tmp(c)] # None /\ handle[c] = dir[Tmp(c)]
      BY <2>2 DEF TmpInv, Exists
    <3> QED BY <2>2, <3>1 DEF Filled
  <2>3. CASE Filled(c, "first") /\ stage[c] = "first" /\ stage'[c] = "second"
    <3>1. data[handle[c]] \in Text
      BY <2>3 DEF Filled, TypeOK, Text
    <3>2. stage[c] \in Written
      BY <2>3 DEF Written
    <3> QED BY <1>5, <2>2, <2>3, <3>1, <3>2 DEF Text
  <2>4. CASE Filled(c, "second") /\ stage[c] = "second" /\ stage'[c] = "rename"
    <3>1. data[handle[c]] \in Text
      BY <2>4 DEF Filled, TypeOK, Text
    <3>2. stage[c] \in Written
      BY <2>4 DEF Written
    <3>3. data[handle[c]].first = c
      BY <2>4, <3>2 DEF TmpInv
    <3>4. [data[handle[c]] EXCEPT !["second"] = c] = All(c)
      BY <3>1, <3>3 DEF Text, All
    <3> QED BY <1>5, <2>2, <2>4, <3>2, <3>4
  <2>5. stage'[c] \in {"first", "second", "rename"}
    BY <1>5 DEF Written
  <2>6. ~Rename(c)
    BY <2>5 DEF Rename, Goto, TypeOK
  <2> QED BY <2>1, <2>3, <2>4, <2>5, <2>6, StepEffect DEF Prepares, GivesUp, Preparing
<1>6. CASE d # c
  <2>1. stage[d] \in Written /\ stage'[d] = stage[d]
    BY <1>1, <1>6
  <2>2. /\ dir[Tmp(d)] # None /\ handle[d] = dir[Tmp(d)]
        /\ stage[d] = "second" => data[handle[d]].first = d
        /\ stage[d] = "rename" => data[handle[d]] = All(d)
    BY <2>1 DEF TmpInv, Exists
  <2>3. ~Generates(d) /\ Active(d)
    BY <2>1 DEF StageInv, Active, Written, Generating, Ended
  <2>4. Tmp(d) \in Paths \ KeyFiles
    BY <2>3, JobTypes DEF TypeOK
  <2>5. CASE stage[c] # "check"
    <3>1. Active(c)
      BY <2>5, StepMoves DEF Active
    <3>2. ~Generates(c) => Tmp(d) # Tmp(c) /\ Tmp(d) # Output(c)
      BY <1>6, <2>3, <3>1, TmpsDiffer
    <3>3. Rename(c) => ~Generates(c)
      BY DEF Rename, StageInv, Generating, Ended
    <3>4. dir'[Tmp(d)] = dir[Tmp(d)] /\ data'[dir[Tmp(d)]] = data[dir[Tmp(d)]]
      BY <2>2, <2>4, <3>2, <3>3, StepTouches DEF Exists
    <3>5. handle'[d] = handle[d]
      BY <1>6, StepEffect DEF Prepares, GivesUp, Opened, Filled, Rename, files, TypeOK
    <3> QED BY <2>1, <2>2, <3>4, <3>5
  <2>6. CASE stage[c] = "check"
    <3>1. UNCHANGED files
      BY <2>6, StepEffect DEF Prepares, GivesUp, Rename
    <3> QED BY <2>1, <2>2, <3>1 DEF files
  <2> QED BY <2>5, <2>6
<1> QED BY <1>5, <1>6

-----------------------------------------------------------------------------
(* The files that are kept.                                                *)

LEMMA KeptStep ==
  ASSUME TypeOK, StageInv, InodeInv, TmpInv, TmpsApart, NEW c \in Commands, Step(c), NEW p \in Kept
  PROVE  \/ dir'[p] = dir[p] /\ (Exists(p) => data'[dir[p]] = data[dir[p]])
         \/ Rename(c) /\ p = Output(c)
<1>1. p \in Paths \ KeyFiles
  BY DEF Kept
<1>2. ~Generates(c) => p # Tmp(c)
  BY DEF Kept, TmpPaths
<1> QED BY <1>1, <1>2, StepTouches

(* A rename puts the command's own result, all of it, at the output.       *)
LEMMA RenameEffect ==
  ASSUME TypeOK, StageInv, InodeInv, TmpInv, TmpsApart, NEW c \in Commands, Rename(c)
  PROVE  /\ dir'[Output(c)] = dir[Tmp(c)] /\ dir[Tmp(c)] \in Inodes
         /\ data'[dir[Tmp(c)]] = All(c)
         /\ Succeeds(c) /\ ~Generates(c)
<1>1. Output(c) \in Paths /\ Tmp(c) \in Paths
  BY JobTypes DEF TypeOK
<1>2. stage[c] = "rename" /\ stage'[c] = "done" /\ data' = data
  BY DEF Rename, Goto, TypeOK
<1>3. ~Generates(c)
  BY <1>2 DEF StageInv, Generating, Ended
<1>4. dir'[Output(c)] = dir[Tmp(c)]
  BY <1>1 DEF Rename, TypeOK
<1>5. Exists(Tmp(c)) /\ data[dir[Tmp(c)]] = All(c)
  BY <1>2 DEF TmpInv, Written
<1> QED BY <1>1, <1>2, <1>3, <1>4, <1>5 DEF Succeeds, Exists, TypeOK

LEMMA StepKeepsWhole ==
  ASSUME TypeOK, StageInv, InodeInv, TmpInv, FilesAreWhole, NEW c \in Commands, Step(c)
  PROVE  FilesAreWhole'
<1>1. plan' = plan
  BY StepMoves
<1>2. TmpsApart' = TmpsApart /\ Kept' = Kept
  BY <1>1 DEF TmpsApart, Kept, TmpPaths, Generates, Tmp, Output, Job
<1>3. ASSUME TmpsApart, NEW p \in Kept, dir'[p] # None
      PROVE  data'[dir'[p]].first = data'[dir'[p]].second /\ data'[dir'[p]] # Empty
  <2>1. CASE dir'[p] = dir[p] /\ (Exists(p) => data'[dir[p]] = data[dir[p]])
    BY <1>3, <2>1 DEF FilesAreWhole, Exists, Content
  <2>2. CASE Rename(c) /\ p = Output(c)
    <3>1. data'[dir'[p]] = All(c)
      BY <1>3, <2>2, RenameEffect
    <3> QED BY <3>1, Texts DEF All, Inodes
  <2> QED BY <1>3, <2>1, <2>2, KeptStep
<1> QED BY <1>2, <1>3 DEF FilesAreWhole, Exists, Content

LEMMA FilesInductive ==
  Spec => []FilesInv
<1>1. Init => FilesInv
  <2> SUFFICES ASSUME Init PROVE FilesInv
    OBVIOUS
  <2>1. \A c \in Commands : stage[c] = "check"
    BY DEF Init
  <2>2. StageInv /\ TmpInv
    BY <2>1 DEF StageInv, TmpInv, Active, Written
  <2> QED BY <2>2, InitTyped, InitFiles DEF FilesInv
<1>2. FilesInv /\ [Next]_vars => FilesInv'
  <2> SUFFICES ASSUME FilesInv, [Next]_vars PROVE FilesInv'
    OBVIOUS
  <2>1. CASE UNCHANGED vars
    BY <2>1 DEF vars, FilesInv, TypeOK, StageInv, InodeInv, TmpInv, FilesAreWhole, TmpsApart, Kept,
                TmpPaths, Active, Generates, Exists, Content, Tmp, Output, Job
  <2>2. ASSUME NEW c \in Commands, Step(c) PROVE FilesInv'
    BY <2>2, StepTyped, StepKeepsStages, StepKeepsInodes, StepKeepsTmps, StepKeepsWhole DEF FilesInv
  <2> QED BY <2>1, <2>2, NextIsStep
<1> QED BY <1>1, <1>2, PTL DEF Spec

(* Killed, failed or side by side: the files other than temporary ones and *)
(* keys are whole at every moment, when no two commands have one temporary *)
(* file at a time ("for atomicity", cli/encrypt.rs:115).                   *)
THEOREM CommandsKeepFilesWhole == Spec => []FilesAreWhole
<1>1. FilesInv => FilesAreWhole
  BY DEF FilesInv
<1> QED BY <1>1, FilesInductive, PTL

(* These files change only in the step in which the command whose output   *)
(* they are succeeds (write_output).                                       *)
THEOREM CommandsChangeOnlyBySuccess == Spec => ChangesOnlyBySuccess
<1>1. ASSUME FilesInv, [Next]_vars, TmpsApart, NEW p \in Kept
      PROVE  \/ dir'[p] = dir[p] /\ (Exists(p) => data'[dir[p]] = data[dir[p]])
             \/ \E c \in Commands : p = Output(c) /\ Succeeds(c)
  <2>1. CASE UNCHANGED vars
    BY <2>1 DEF vars
  <2>2. ASSUME NEW c \in Commands, Step(c)
        PROVE  \/ dir'[p] = dir[p] /\ (Exists(p) => data'[dir[p]] = data[dir[p]])
               \/ p = Output(c) /\ Succeeds(c)
    BY <1>1, <2>2, KeptStep, RenameEffect DEF FilesInv
  <2> QED BY <1>1, <2>1, <2>2, NextIsStep
<1>2. FilesInv /\ [Next]_vars =>
        [TmpsApart =>
           \A p \in Kept :
             \/ dir'[p] = dir[p] /\ (Exists(p) => data'[dir[p]] = data[dir[p]])
             \/ \E c \in Commands : p = Output(c) /\ Succeeds(c)]_vars
  BY <1>1
<1> QED BY <1>2, FilesInductive, PTL DEF Spec, ChangesOnlyBySuccess

(* The step in which a command succeeds.                                   *)
LEMMA SuccessIsRename ==
  ASSUME TypeOK, StageInv, [Next]_vars, NEW c \in Commands, Succeeds(c), ~Generates(c)
  PROVE  Rename(c)
<1>1. PICK d \in Commands : Step(d)
  BY NextIsStep DEF vars, Succeeds
<1>2. d = c
  BY <1>1, StepMoves DEF Succeeds, TypeOK
<1> QED BY <1>1, <1>2, StepMoves DEF Succeeds

(* A command that reports success has put its own result at its output,    *)
(* when no other command uses its temporary file (cli/encrypt.rs:115).     *)
THEOREM CommandsSucceedWithOwnResult == Spec => ApartSuccessIsOwnResult
<1>1. ASSUME FilesInv, [Next]_vars, TmpsApart, NEW c \in Commands, Succeeds(c), ~Generates(c)
      PROVE  data'[dir'[Output(c)]] = All(c)
  BY <1>1, SuccessIsRename, RenameEffect DEF FilesInv
<1>2. FilesInv /\ [Next]_vars =>
        [TmpsApart => \A c \in Commands :
                        Succeeds(c) /\ ~Generates(c) => data'[dir'[Output(c)]] = All(c)]_vars
  BY <1>1
<1> QED BY <1>2, FilesInductive, PTL DEF Spec, ApartSuccessIsOwnResult

-----------------------------------------------------------------------------
(* Outputs.                                                                *)

(* An output that is not its own temporary file is nobody's.               *)
LEMMA OutputKept ==
  ASSUME TypeOK, NEW c \in Commands, ~Generates(c), Output(c) # Tmp(c)
  PROVE  Output(c) \in Kept
<1>1. Output(c) \in Paths \ KeyFiles
  BY JobTypes DEF TypeOK
<1>2. ASSUME NEW d \in Commands, Output(c) = Tmp(d) PROVE FALSE
  <2>1. Output(d) \in Paths
    BY JobTypes DEF TypeOK
  <2>2. TmpPath[Output(c)] = Output(c)
    BY <1>2, <2>1, Extensions DEF Tmp
  <2> QED BY <2>2 DEF Tmp
<1> QED BY <1>1, <1>2 DEF Kept, TmpPaths

LEMMA StepKeepsOutputs ==
  ASSUME TypeOK, StageInv, InodeInv, TmpInv, OutputInv, NEW c \in Commands, Step(c)
  PROVE  OutputInv'
<1>1. /\ plan' = plan
      /\ \A d \in Commands : d # c => stage'[d] = stage[d]
  BY StepMoves DEF TypeOK
<1>2. /\ TmpsApart' = TmpsApart
      /\ \A d \in Commands :
           Job(d)' = Job(d) /\ Output(d)' = Output(d) /\ Tmp(d)' = Tmp(d) /\ Input(d)' = Input(d)
  BY <1>1 DEF TmpsApart, Generates, Tmp, Output, Input, Job
<1>3. OutputInv' <=>
        (TmpsApart =>
           \A d \in Commands : stage'[d] \in Checked /\ Output(d) # Tmp(d) =>
             /\ ~Job(d).force => dir'[Output(d)] = None
             /\ stage'[d] # "read" /\ Input(d) = Output(d)
                  => dir'[Output(d)] # None /\ data'[dir'[Output(d)]] = seen'[d])
  BY <1>2 DEF OutputInv, Exists, Content
<1> SUFFICES ASSUME TmpsApart, NEW d \in Commands, stage'[d] \in Checked, Output(d) # Tmp(d)
             PROVE  /\ ~Job(d).force => dir'[Output(d)] = None
                    /\ stage'[d] # "read" /\ Input(d) = Output(d)
                         => dir'[Output(d)] # None /\ data'[dir'[Output(d)]] = seen'[d]
  BY <1>3
<1>4. ~Generates(d)
  BY StepKeepsStages, <1>1 DEF StageInv, Generates, Job, Checked, Written, Generating, Ended
<1>5. Output(d) \in Kept
  BY <1>4, OutputKept
<1>6. CASE d # c
  <2>1. stage'[d] = stage[d] /\ seen'[d] = seen[d]
    <3>1. seen'[d] = seen[d]
      BY <1>6, MovesOnEffect DEF Step, MovesOn, ReadInput, LoadKey, ReloadKey, ReadsKey, WritePublic,
         WriteSecret, OpenSecret, OpenTmp, OpenFile, WriteFirst, WriteSecond, WriteHalf, Rename, read, TypeOK
    <3> QED BY <1>1, <1>6, <3>1
  <2>2. /\ ~Job(d).force => ~Exists(Output(d))
        /\ stage[d] # "read" /\ Input(d) = Output(d)
             => Exists(Output(d)) /\ Content(Output(d)) = seen[d]
    BY <2>1 DEF OutputInv
  <2>3. ~(Rename(c) /\ Output(d) = Output(c))
    <3> SUFFICES ASSUME Rename(c) PROVE Output(d) # Output(c)
      OBVIOUS
    <3>1. Active(c) /\ ~Generates(c)
      BY RenameEffect DEF Rename, Active, Ended
    <3>2. Active(d)
      BY <2>1 DEF Active, Checked, Written, Ended
    <3> QED BY <1>4, <1>6, <3>1, <3>2, TmpsDiffer
  <2>4. dir'[Output(d)] = dir[Output(d)] /\ (Exists(Output(d)) => data'[dir[Output(d)]] = data[dir[Output(d)]])
    BY <1>5, <2>3, KeptStep
  <2> QED BY <2>1, <2>2, <2>4 DEF Exists, Content
<1>7. CASE d = c
  <2>1. ~Rename(c)
    BY <1>7 DEF Rename, Goto, TypeOK, Checked, Written
  <2>2. dir'[Output(d)] = dir[Output(d)] /\ (Exists(Output(d)) => data'[dir[Output(d)]] = data[dir[Output(d)]])
    BY <1>5, <2>1, KeptStep
  <2>3. CASE CheckOutput(c)
    <3>1. stage'[c] = "read" /\ ~OutputRefused(c)
      BY <1>7, <2>3 DEF CheckOutput, Goto, TypeOK, Checked, Written
    <3> QED BY <1>7, <2>2, <3>1 DEF OutputRefused, Exists
  <2>4. CASE ReadInput(c)
    <3>1. stage[c] = "read" /\ Exists(Input(c)) /\ seen'[c] = Content(Input(c))
      BY <1>7, <2>4 DEF ReadInput, Goto, TypeOK, Checked, Written
    <3>2. ~Job(c).force => ~Exists(Output(c))
      BY <1>7, <3>1 DEF OutputInv, Checked
    <3> QED BY <1>7, <2>2, <3>1, <3>2 DEF Exists, Content
  <2>5. CASE ~CheckOutput(c) /\ ~ReadInput(c)
    <3>1. seen' = seen
      BY <2>5, MovesOnEffect DEF Step, MovesOn, LoadKey, ReloadKey, ReadsKey, WritePublic,
         WriteSecret, OpenSecret, OpenTmp, OpenFile, WriteFirst, WriteSecond, WriteHalf, Rename, read
    <3>2. stage[c] \in Checked \ {"read"}
      <4>1. stage[c] \in {"check"} \cup Checked
        BY <1>4, <1>7, StepMoves DEF StageInv, Ended
      <4>2. stage[c] \notin {"check", "read"}
        BY <2>5, <1>7, <1>4 DEF Step, LoadKey, ReloadKey, ReadsKey, Compute, Generate, WritePublic,
           WriteSecret, OpenSecret, OpenTmp, OpenFile, WriteFirst, WriteSecond, WriteHalf, WriteFails,
           Rename, RenameFails, Kill, Goto, TypeOK, Checked, Written, Ended
      <4> QED BY <4>1, <4>2
    <3> QED BY <1>7, <2>2, <3>1, <3>2 DEF OutputInv, Exists, Content
  <2> QED BY <2>3, <2>4, <2>5
<1> QED BY <1>6, <1>7

LEMMA OutputInductive ==
  Spec => []OutputInv
<1>1. Init => OutputInv
  BY DEF Init, OutputInv, Checked, Written
<1>2. FilesInv /\ OutputInv /\ [Next]_vars => OutputInv'
  <2> SUFFICES ASSUME FilesInv, OutputInv, [Next]_vars PROVE OutputInv'
    OBVIOUS
  <2>1. CASE UNCHANGED vars
    BY <2>1 DEF vars, OutputInv, TmpsApart, Generates, Exists, Content, Tmp, Output, Input, Job
  <2>2. ASSUME NEW c \in Commands, Step(c) PROVE OutputInv'
    BY <2>2, StepKeepsOutputs DEF FilesInv
  <2> QED BY <2>1, <2>2, NextIsStep
<1> QED BY <1>1, <1>2, FilesInductive, PTL DEF Spec

(* A command without --force never replaces a file, though it looks for    *)
(* one long before it writes (cli/encrypt.rs:107).                         *)
THEOREM CommandsReplaceNothingUnforced == Spec => NeverReplacesUnforced
<1>1. ASSUME FilesInv, OutputInv, [Next]_vars, TmpsApart, NEW c \in Commands,
             Succeeds(c), ~Generates(c), ~Job(c).force
      PROVE  ~Exists(Output(c)) \/ Output(c) = Tmp(c)
  <2>1. stage[c] = "rename"
    BY <1>1, SuccessIsRename DEF FilesInv, Rename
  <2> QED BY <1>1, <2>1 DEF OutputInv, Checked, Written
<1>2. FilesInv /\ OutputInv /\ [Next]_vars =>
        [TmpsApart =>
           \A c \in Commands :
             Succeeds(c) /\ ~Generates(c) /\ ~Job(c).force
               => ~Exists(Output(c)) \/ Output(c) = Tmp(c)]_vars
  BY <1>1
<1> QED BY <1>2, FilesInductive, OutputInductive, PTL DEF Spec, NeverReplacesUnforced

(* A command run in place replaces exactly what it has read                *)
(* (cli/rewrap_cmd.rs).                                                    *)
THEOREM CommandsReplaceWhatTheyRead == Spec => ReplacesWhatItRead
<1>1. ASSUME FilesInv, OutputInv, [Next]_vars, TmpsApart, NEW c \in Commands,
             Succeeds(c), ~Generates(c), Input(c) = Output(c), Output(c) # Tmp(c)
      PROVE  Content(Output(c)) = seen[c]
  <2>1. stage[c] = "rename"
    BY <1>1, SuccessIsRename DEF FilesInv, Rename
  <2> QED BY <1>1, <2>1 DEF OutputInv, Checked, Written
<1>2. FilesInv /\ OutputInv /\ [Next]_vars =>
        [TmpsApart =>
           \A c \in Commands :
             Succeeds(c) /\ ~Generates(c) /\ Input(c) = Output(c) /\ Output(c) # Tmp(c)
               => Content(Output(c)) = seen[c]]_vars
  BY <1>1
<1> QED BY <1>2, FilesInductive, OutputInductive, PTL DEF Spec, ReplacesWhatItRead

-----------------------------------------------------------------------------
(* Key files.                                                              *)

(* The pair a command makes or would make.                                 *)
LEMMA PairFacts ==
  ASSUME TypeOK, NEW c \in Commands
  PROVE  /\ Output(c) \in Paths
         /\ PubPath[Output(c)] \in Paths \cap KeyFiles /\ KeyPath[Output(c)] \in Paths \cap KeyFiles
         /\ PubPath[Output(c)] # KeyPath[Output(c)]
BY JobTypes, Extensions, PairsDiffer DEF TypeOK

LEMMA KeyFileInode ==
  ASSUME InodeInv, NEW p \in KeyFiles, Exists(p)
  PROVE  dir[p] = p
BY KeyFilesArePaths DEF InodeInv

(* Only a generation touches key files, and only those of its pair.        *)
LEMMA KeyFilesTouched ==
  ASSUME TypeOK, StageInv, InodeInv, NEW c \in Commands, Step(c), NEW p \in KeyFiles,
         Generates(c) /\ stage[c] # "check" => p \notin {PubPath[Output(c)], KeyPath[Output(c)]}
  PROVE  dir'[p] = dir[p] /\ data'[p] = data[p]
<1>1. p \in Paths /\ p \in Inodes
  BY KeyFilesArePaths DEF Inodes
<1>2. CASE UNCHANGED files
  BY <1>2 DEF files
<1>3. CASE ~Generates(c) /\ Opened(c, Tmp(c))
  <2>1. Tmp(c) \notin KeyFiles
    BY <1>3, JobTypes DEF TypeOK
  <2>2. dir'[Tmp(c)] # p
    BY <1>3, <2>1 DEF Opened
  <2> QED BY <1>1, <1>3, <2>1, <2>2 DEF Opened
<1>4. ASSUME NEW half, Filled(c, half), stage[c] # "check" PROVE dir'[p] = dir[p] /\ data'[p] = data[p]
  <2>1. handle[c] # p
    BY <1>1, <1>4, Names DEF InodeInv, Filled
  <2> QED BY <1>1, <1>4, <2>1 DEF Filled
<1>5. CASE Rename(c)
  <2>1. ~Generates(c)
    BY <1>5 DEF Rename, StageInv, Generating, Ended
  <2>2. {Output(c), Tmp(c)} \subseteq Paths \ KeyFiles
    BY <2>1, JobTypes DEF TypeOK
  <2> QED BY <1>1, <1>5, <2>2 DEF Rename, TypeOK
<1>6. ASSUME Generates(c), stage[c] # "check", NEW path \in {PubPath[Output(c)], KeyPath[Output(c)]},
             Opened(c, path)
      PROVE  dir'[p] = dir[p] /\ data'[p] = data[p]
  <2>1. dir'[path] = path /\ p # path
    BY <1>6, PairFacts DEF Opened
  <2> QED BY <1>1, <1>6, <2>1 DEF Opened
<1>7. /\ stage[c] = "open" => ~Generates(c)
      /\ stage[c] \in Generating => Generates(c)
  BY DEF StageInv, Generating, Checked, Written, Ended
<1> QED BY <1>2, <1>3, <1>4, <1>5, <1>6, <1>7, StepEffect DEF Prepares, GivesUp, Generating

(* A generation alone with its pair: whatever else is under way is on      *)
(* another.                                                                *)
LEMMA PairUndisturbed ==
  ASSUME TypeOK, StageInv, NEW c \in Commands, NEW d \in Commands, c # d,
         Generates(c), PairAlone(Output(c)), Active(c), Generates(d), Active(d)
  PROVE  {PubPath[Output(c)], KeyPath[Output(c)]} \cap {PubPath[Output(d)], KeyPath[Output(d)]} = {}
<1>1. plan.together
  BY DEF StageInv
<1>2. PubPath[Output(c)] # PubPath[Output(d)]
  BY <1>1 DEF PairAlone, GeneratesPair
<1> QED BY <1>2, PairFacts, PairsDiffer

(* A file written half by half.                                            *)
LEMMA Halves ==
  ASSUME NEW c \in Commands
  PROVE  [Empty EXCEPT !["first"] = c] = Half(c) /\ [Half(c) EXCEPT !["second"] = c] = All(c)
<1>1. Empty \in Text /\ Empty.second = None
  BY Texts DEF Empty
<1>2. Half(c) \in Text /\ Half(c).first = c /\ Half(c).second = None
  BY DEF Half, Text, Inodes
<1>3. All(c) \in Text /\ All(c).first = c /\ All(c).second = c
  BY DEF All, Text, Inodes
<1>4. \A s, t \in Text : s.first = t.first /\ s.second = t.second => s = t
  BY DEF Text
<1>5. /\ [Empty EXCEPT !["first"] = c] \in Text
      /\ [Empty EXCEPT !["first"] = c].first = c /\ [Empty EXCEPT !["first"] = c].second = None
  BY <1>1 DEF Text, Inodes
<1>6. /\ [Half(c) EXCEPT !["second"] = c] \in Text
      /\ [Half(c) EXCEPT !["second"] = c].first = c /\ [Half(c) EXCEPT !["second"] = c].second = c
  BY <1>2 DEF Text, Inodes
<1> QED BY <1>2, <1>3, <1>4, <1>5, <1>6

LEMMA StepKeepsGenerations ==
  ASSUME TypeOK, StageInv, InodeInv, GenerationInv, NEW c \in Commands, Step(c)
  PROVE  GenerationInv'
<1>1. /\ plan' = plan
      /\ \A d \in Commands : d # c => stage'[d] = stage[d]
  BY StepMoves DEF TypeOK
<1>2. /\ \A d \in Commands : Generates(d)' = Generates(d) /\ Output(d)' = Output(d)
      /\ \A p : PairAlone(p)' = PairAlone(p)
  BY <1>1 DEF Generates, Output, Job, PairAlone, GeneratesPair
<1> DEFINE pub(d) == PubPath[Output(d)]
           key(d) == KeyPath[Output(d)]
           Holds(d, s, h, on, in) ==
             /\ s \in {"check", "public"} => h = None
             /\ s \in {"pub1", "pub2"} => h = pub(d)
             /\ s \in {"key1", "key2"} => h = key(d) /\ on[key(d)] # None
             /\ s \in Generating \ {"public"} => on[pub(d)] # None
             /\ s = "pub1" => in[pub(d)] = Empty
             /\ s = "pub2" => in[pub(d)] = Half(d)
             /\ s \in {"secret", "key1", "key2"} => in[pub(d)] = All(d)
             /\ s = "key1" => in[key(d)] = Empty
             /\ s = "key2" => in[key(d)] = Half(d)
<1>3. \A d \in Commands : Generates(d) /\ PairAlone(Output(d)) => Holds(d, stage[d], handle[d], dir, data)
  BY DEF GenerationInv, Exists
<1>4. SUFFICES ASSUME NEW d \in Commands, Generates(d), PairAlone(Output(d))
               PROVE  Holds(d, stage'[d], handle'[d], dir', data')
  BY <1>2 DEF GenerationInv, Exists
<1>5. Holds(d, stage[d], handle[d], dir, data)
  BY <1>3, <1>4
<1>6. /\ pub(d) \in Paths \cap KeyFiles /\ key(d) \in Paths \cap KeyFiles /\ pub(d) # key(d)
      /\ pub(d) \in Inodes /\ key(d) \in Inodes
  BY PairFacts DEF Inodes
<1>7. CASE d # c
  <2>1. stage'[d] = stage[d]
    BY <1>1, <1>7
  <2>2. handle'[d] = handle[d]
    BY <1>7, StepEffect DEF Prepares, GivesUp, Opened, Filled, Rename, files, TypeOK
  <2>3. CASE Active(d)
    <3>1. ASSUME NEW p \in {pub(d), key(d)} PROVE dir'[p] = dir[p] /\ data'[p] = data[p]
      <4>1. Generates(c) /\ stage[c] # "check" => p \notin {pub(c), key(c)}
        <5> SUFFICES ASSUME Generates(c), stage[c] # "check" PROVE p \notin {pub(c), key(c)}
          OBVIOUS
        <5>1. Active(c)
          BY StepMoves DEF Active
        <5> QED BY <1>4, <1>7, <2>3, <5>1, PairUndisturbed
      <4> QED BY <1>6, <4>1, KeyFilesTouched
    <3> QED BY <1>5, <2>1, <2>2, <3>1
  <2>4. CASE ~Active(d)
    BY <1>5, <2>1, <2>2, <2>4 DEF Active, Ended, Generating
  <2> QED BY <2>3, <2>4
<1>8. CASE d = c
  <2>1. stage[c] \in Generating \cup {"check"} /\ stage'[c] \in Generating \cup Ended
    BY <1>4, <1>8, StepMoves DEF StageInv, Ways
  <2>2. CASE stage'[c] \in Ended
    BY <1>8, <2>2 DEF Ended, Generating
  <2>3. CASE stage'[c] = "public" /\ UNCHANGED files /\ stage[c] = "check"
    BY <1>5, <1>8, <2>3 DEF files, Generating
  <2>4. CASE stage'[c] = "pub1" /\ Opened(c, pub(c))
    <3>1. handle'[c] = dir'[pub(c)] /\ dir'[pub(c)] = pub(c) /\ data'[pub(c)] = Empty
      BY <1>6, <1>8, <2>4 DEF Opened, TypeOK
    <3> QED BY <1>6, <1>8, <2>4, <3>1, Names DEF Generating
  <2>5. CASE stage'[c] = "key1" /\ stage[c] = "secret" /\ Opened(c, key(c))
    <3>1. handle'[c] = dir'[key(c)] /\ dir'[key(c)] = key(c) /\ data'[key(c)] = Empty
      BY <1>6, <1>8, <2>5 DEF Opened, TypeOK
    <3>2. dir'[pub(c)] = dir[pub(c)] /\ data'[pub(c)] = data[pub(c)]
      BY <1>6, <1>8, <2>5, <3>1 DEF Opened
    <3>3. dir[pub(c)] # None /\ data[pub(c)] = All(c)
      BY <1>5, <1>8, <2>5 DEF Generating
    <3> QED BY <1>6, <1>8, <2>5, <3>1, <3>2, <3>3, Names DEF Generating
  <2>6. CASE \/ stage'[c] = "pub2" /\ stage[c] = "pub1" /\ Filled(c, "first")
             \/ stage'[c] = "secret" /\ stage[c] = "pub2" /\ Filled(c, "second")
             \/ stage'[c] = "key2" /\ stage[c] = "key1" /\ Filled(c, "first")
    <3>1. UNCHANGED <<dir, handle>>
      BY <2>6 DEF Filled
    <3>2. [Empty EXCEPT !["first"] = c] = Half(c) /\ [Half(c) EXCEPT !["second"] = c] = All(c)
      BY Halves
    <3>3. CASE stage[c] = "pub1"
      <4>1. handle[c] = pub(c) /\ data[pub(c)] = Empty /\ dir[pub(c)] # None
        BY <1>5, <1>8, <3>3 DEF Generating
      <4>2. data'[pub(c)] = Half(c)
        BY <2>6, <3>2, <3>3, <4>1 DEF Filled
      <4> QED BY <1>8, <2>6, <3>1, <3>3, <4>1, <4>2 DEF Generating
    <3>4. CASE stage[c] = "pub2"
      <4>1. handle[c] = pub(c) /\ data[pub(c)] = Half(c) /\ dir[pub(c)] # None
        BY <1>5, <1>8, <3>4 DEF Generating
      <4>2. data'[pub(c)] = All(c)
        BY <2>6, <3>2, <3>4, <4>1 DEF Filled
      <4> QED BY <1>8, <2>6, <3>1, <3>4, <4>1, <4>2 DEF Generating
    <3>5. CASE stage[c] = "key1"
      <4>1. /\ handle[c] = key(c) /\ data[key(c)] = Empty /\ dir[key(c)] # None
            /\ data[pub(c)] = All(c) /\ dir[pub(c)] # None
        BY <1>5, <1>8, <3>5 DEF Generating
      <4>2. data'[key(c)] = Half(c) /\ data'[pub(c)] = data[pub(c)]
        BY <1>6, <1>8, <2>6, <3>2, <3>5, <4>1 DEF Filled
      <4> QED BY <1>8, <2>6, <3>1, <3>5, <4>1, <4>2 DEF Generating
    <3> QED BY <2>6, <3>3, <3>4, <3>5
  <2> HIDE DEF Holds, pub, key
  <2> QED
    <3>1. ~Rename(c) /\ ~(stage[c] \in {"open", "first", "second"})
      BY <2>1 DEF Rename, Generating
    <3> QED BY <2>1, <2>2, <2>3, <2>4, <2>5, <2>6, <3>1, StepEffect
            DEF Prepares, GivesUp, Generating, Ended, Preparing, pub, key
<1> QED BY <1>7, <1>8

LEMMA InitKeys ==
  Init => GenerationInv /\ KeysWhole /\ KeysUsed
<1> SUFFICES ASSUME Init PROVE GenerationInv /\ KeysWhole /\ KeysUsed
  OBVIOUS
<1>1. \A c \in Commands : stage[c] = "check" /\ handle[c] = None
  BY DEF Init
<1>2. \A i \in Inodes : data[i] = Empty \/ data[i] = All(Origin(i))
  BY DEF Init
<1>3. GenerationInv
  BY <1>1 DEF GenerationInv, Generating
<1>4. KeysWhole
  <2>1. Empty.first = None /\ \A x : All(x).first = All(x).second
    BY DEF Empty, All
  <2>2. \A p \in KeyFiles : data[p] = Empty \/ data[p] = All(Origin(p))
    BY <1>2, KeyFilesArePaths DEF Inodes
  <2> QED BY <2>1, <2>2 DEF KeysWhole, KeyParses
<1>5. KeysUsed
  BY <1>1 DEF KeysUsed, Checked, Written
<1> QED BY <1>3, <1>4, <1>5

(* What a generation alone with its pair does to the two files.            *)
LEMMA PairStep ==
  ASSUME TypeOK, StageInv, InodeInv, GenerationInv, NEW c \in Commands, Step(c),
         Generates(c), PairAlone(Output(c)), stage[c] # "check",
         NEW pub, NEW key, pub = PubPath[Output(c)], key = KeyPath[Output(c)]
  PROVE  \/ GivesUp(c)
         \/ /\ Opened(c, pub) /\ data'[pub] = Empty /\ data'[key] = data[key]
            /\ stage'[c] = "pub1"
         \/ /\ Filled(c, "first") /\ data'[pub] = Half(c) /\ data'[key] = data[key]
            /\ stage'[c] = "pub2"
         \/ /\ Filled(c, "second") /\ data'[pub] = All(c) /\ data'[key] = data[key]
            /\ stage'[c] = "secret"
         \/ /\ Opened(c, key) /\ data'[key] = Empty /\ data'[pub] = data[pub]
            /\ stage'[c] = "key1"
         \/ /\ Filled(c, "first") /\ data'[key] = Half(c) /\ data'[pub] = data[pub]
            /\ stage'[c] = "key2"
         \/ /\ Filled(c, "second") /\ data'[key] = All(c) /\ data'[pub] = data[pub]
            /\ stage'[c] = "done" /\ stage[c] = "key2"
<1>1. /\ pub \in Paths \cap KeyFiles /\ key \in Paths \cap KeyFiles /\ pub # key
      /\ pub \in Inodes /\ key \in Inodes
  BY PairFacts DEF Inodes
<1>2. stage[c] \in Generating
  BY StepMoves DEF StageInv, Ended
<1>3. ~Rename(c) /\ ~Prepares(c) /\ stage[c] \notin {"open", "first", "second"}
  BY <1>2 DEF Rename, Prepares, Preparing, Generating
<1>4. /\ stage[c] \in {"pub1", "pub2"} => handle[c] = pub
      /\ stage[c] \in {"key1", "key2"} => handle[c] = key
      /\ stage[c] = "pub1" => data[pub] = Empty
      /\ stage[c] = "pub2" => data[pub] = Half(c)
      /\ stage[c] = "key1" => data[key] = Empty
      /\ stage[c] = "key2" => data[key] = Half(c)
  BY DEF GenerationInv
<1>5. Opened(c, pub) => data'[pub] = Empty /\ data'[key] = data[key]
  BY <1>1 DEF Opened
<1>6. Opened(c, key) => data'[key] = Empty /\ data'[pub] = data[pub]
  BY <1>1 DEF Opened
<1>7. ASSUME NEW half, Filled(c, half), handle[c] = pub
      PROVE  data'[pub] = [data[pub] EXCEPT ![half] = c] /\ data'[key] = data[key]
  BY <1>1, <1>7 DEF Filled
<1>8. ASSUME NEW half, Filled(c, half), handle[c] = key
      PROVE  data'[key] = [data[key] EXCEPT ![half] = c] /\ data'[pub] = data[pub]
  BY <1>1, <1>8 DEF Filled
<1>9. stage[c] = "pub1" /\ Filled(c, "first") => data'[pub] = Half(c) /\ data'[key] = data[key]
  BY <1>4, <1>7, Halves
<1>10. stage[c] = "pub2" /\ Filled(c, "second") => data'[pub] = All(c) /\ data'[key] = data[key]
  BY <1>4, <1>7, Halves
<1>11. stage[c] = "key1" /\ Filled(c, "first") => data'[key] = Half(c) /\ data'[pub] = data[pub]
  BY <1>4, <1>8, Halves
<1>12. stage[c] = "key2" /\ Filled(c, "second") => data'[key] = All(c) /\ data'[pub] = data[pub]
  BY <1>4, <1>8, Halves
<1> QED BY <1>3, <1>5, <1>6, <1>9, <1>10, <1>11, <1>12, StepEffect

(* Key files that are of one pair.                                         *)
LEMMA OnePair ==
  ASSUME TypeOK, NEW c \in Commands, NEW p \in KeyFiles, p \in {PubPath[Output(c)], KeyPath[Output(c)]}
  PROVE  /\ PubPath[p] = PubPath[Output(c)]
         /\ PairAlone(p) <=> PairAlone(Output(c))
<1>1. PubPath[p] = PubPath[Output(c)]
  BY Extensions, PairFacts
<1> QED BY <1>1 DEF PairAlone, GeneratesPair

LEMMA StepKeepsKeysWhole ==
  ASSUME TypeOK, StageInv, InodeInv, GenerationInv, KeysWhole, NEW c \in Commands, Step(c)
  PROVE  KeysWhole'
<1>1. plan' = plan
  BY StepMoves
<1>2. \A p : PairAlone(p)' = PairAlone(p)
  BY <1>1 DEF PairAlone, GeneratesPair, Generates, Output, Job
<1>3. ASSUME NEW p \in KeyFiles, PairAlone(p), KeyParses(data'[p])
      PROVE  data'[p].first = data'[p].second
  <2>1. CASE data'[p] = data[p]
    BY <1>3, <2>1 DEF KeysWhole
  <2>2. CASE data'[p] # data[p]
    <3>1. Generates(c) /\ stage[c] # "check" /\ p \in {PubPath[Output(c)], KeyPath[Output(c)]}
      BY <2>2, KeyFilesTouched
    <3>2. PairAlone(Output(c))
      BY <1>3, <3>1, OnePair
    <3>3. ~GivesUp(c)
      BY <2>2 DEF GivesUp, files
    <3>4. data'[p] \in {Empty, Half(c), All(c)}
      BY <2>2, <3>1, <3>2, <3>3, PairStep
    <3> QED BY <1>3, <3>4 DEF KeyParses, Empty, Half, All
  <2> QED BY <2>1, <2>2
<1> QED BY <1>2, <1>3 DEF KeysWhole, KeyParses

LEMMA StepKeepsKeysUsed ==
  ASSUME TypeOK, StageInv, InodeInv, KeysWhole, KeysUsed, NEW c \in Commands, Step(c)
  PROVE  KeysUsed'
<1>1. plan' = plan /\ \A d \in Commands : d # c => stage'[d] = stage[d]
  BY StepMoves DEF TypeOK
<1>2. /\ \A p : PairAlone(p)' = PairAlone(p)
      /\ \A d \in Commands : Job(d)' = Job(d)
  BY <1>1 DEF PairAlone, GeneratesPair, Generates, Output, Job
<1> DEFINE Uses(s) == s \in (Checked \ {"read", "load"}) \cup {"done"}
<1>3. SUFFICES ASSUME NEW d \in Commands, Uses(stage'[d]), Job(d).key \in KeyFiles, PairAlone(Job(d).key)
               PROVE  used'[d] # Empty /\ used'[d].first = used'[d].second
  BY <1>2 DEF KeysUsed
<1>4. CASE Uses(stage[d]) /\ used'[d] = used[d]
  BY <1>3, <1>4 DEF KeysUsed
<1>5. CASE LoadKey(c) \/ ReloadKey(c)
  <2>1. CASE d # c
    BY <1>1, <1>3, <1>4, <1>5, <2>1 DEF LoadKey, ReloadKey, ReadsKey, TypeOK
  <2>2. CASE d = c
    <3>1. Job(d).key # None
      BY <1>3, KeyFilesArePaths, Names DEF Inodes
    <3>2. stage'[d] # "failed"
      BY <1>3 DEF Checked, Written
    <3>3. Exists(Job(d).key) /\ KeyParses(Content(Job(d).key)) /\ used'[d] = Content(Job(d).key)
      BY <1>5, <2>2, <3>1, <3>2 DEF LoadKey, ReloadKey, ReadsKey, Goto, TypeOK
    <3>4. Content(Job(d).key) = data[Job(d).key]
      BY <1>3, <3>3, KeyFileInode DEF Content
    <3>5. data[Job(d).key].first = data[Job(d).key].second
      BY <1>3, <3>3, <3>4 DEF KeysWhole
    <3> QED BY <3>3, <3>4, <3>5 DEF KeyParses, Empty
  <2> QED BY <2>1, <2>2
<1>6. CASE ~LoadKey(c) /\ ~ReloadKey(c)
  <2>1. used' = used
    BY <1>6, MovesOnEffect DEF Step, MovesOn, ReadInput, WritePublic, WriteSecret, OpenSecret, OpenTmp,
       OpenFile, WriteFirst, WriteSecond, WriteHalf, Rename, read
  <2>2. CASE d # c
    BY <1>1, <1>3, <1>4, <2>1, <2>2
  <2>3. CASE d = c
    <3>1. ~Generates(c)
      BY <1>3, <2>3, KeyFilesArePaths, Names, JobTypes DEF TypeOK, Inodes
    <3>2. stage[c] \in {"check"} \cup Checked
      BY <3>1, StepMoves DEF StageInv, Ended
    <3>3. stage[c] \notin {"check", "read", "load"}
      BY <1>3, <1>6, <2>3, <3>1 DEF Step, CheckOutput, ReadInput, Compute, Generate, WritePublic,
         WriteSecret, OpenSecret, OpenTmp, OpenFile, WriteFirst, WriteSecond, WriteHalf, WriteFails,
         Rename, RenameFails, Kill, Goto, TypeOK, Checked, Written, Ended
    <3> QED BY <1>4, <2>1, <2>3, <3>2, <3>3
  <2> QED BY <2>2, <2>3
<1> QED BY <1>5, <1>6

LEMMA KeysInductive ==
  Spec => [](GenerationInv /\ KeysWhole /\ KeysUsed)
<1>1. FilesInv /\ (GenerationInv /\ KeysWhole /\ KeysUsed) /\ [Next]_vars
        => (GenerationInv /\ KeysWhole /\ KeysUsed)'
  <2> SUFFICES ASSUME FilesInv, GenerationInv, KeysWhole, KeysUsed, [Next]_vars
               PROVE  (GenerationInv /\ KeysWhole /\ KeysUsed)'
    OBVIOUS
  <2>1. CASE UNCHANGED vars
    BY <2>1 DEF vars, GenerationInv, KeysWhole, KeysUsed, PairAlone, GeneratesPair, Generates, Output,
       Job, Exists
  <2>2. ASSUME NEW c \in Commands, Step(c) PROVE (GenerationInv /\ KeysWhole /\ KeysUsed)'
    BY <2>2, StepKeepsGenerations, StepKeepsKeysWhole, StepKeepsKeysUsed DEF FilesInv
  <2> QED BY <2>1, <2>2, NextIsStep
<1> QED BY <1>1, InitKeys, FilesInductive, PTL DEF Spec

(* Every command that takes a key takes one gen-recipient may have made.   *)
KeysAreKeyFiles ==
  \A run \in Plans, c \in Commands : run.jobs[c].key \in KeyFiles \cup {None}

(* No command succeeds with a key file caught half written, whoever writes *)
(* it meanwhile and at whichever load (decode_pem).                        *)
THEOREM CommandsUseWholeKeys == KeysAreKeyFiles => (Spec => []WholeKeysUsed)
<1> SUFFICES ASSUME KeysAreKeyFiles PROVE Spec => []WholeKeysUsed
  OBVIOUS
<1>1. FilesInv /\ KeysUsed => WholeKeysUsed
  <2> SUFFICES ASSUME FilesInv, KeysUsed, NEW c \in Commands, stage[c] = "done", Job(c).key # None,
                      PairAlone(Job(c).key)
               PROVE  used[c] # Empty /\ used[c].first = used[c].second
    BY DEF WholeKeysUsed
  <2>1. Job(c).key \in KeyFiles
    BY DEF KeysAreKeyFiles, FilesInv, TypeOK, Job
  <2> QED BY <2>1 DEF KeysUsed
<1> QED BY <1>1, FilesInductive, KeysInductive, PTL

-----------------------------------------------------------------------------
(* Pairs of key files.                                                     *)

(* A public key file that exists at the beginning has its secret one beside*)
(* it.                                                                     *)
PairsTogether ==
  \A there \in Existing, p \in Paths : PubPath[p] \in there => KeyPath[p] \in there

LEMMA InitPairs ==
  ASSUME PairsTogether, Init
  PROVE  KeyPairsMatch
<1>1. PICK there \in Existing :
        /\ dir = [p \in Paths |-> IF p \in there THEN p ELSE None]
        /\ data = [i \in Inodes |-> IF i \in there THEN All(Origin(i)) ELSE Empty]
  BY DEF Init
<1>2. ASSUME NEW p \in Paths, Exists(PubPath[p])
      PROVE  /\ Exists(KeyPath[p])
             /\ Content(PubPath[p]) = Content(KeyPath[p])
             /\ Content(PubPath[p]).first = Content(PubPath[p]).second
  <2>1. PubPath[p] \in Paths \cap KeyFiles /\ KeyPath[p] \in Paths \cap KeyFiles
    BY Extensions
  <2>2. PubPath[p] \in there /\ KeyPath[p] \in there
    BY <1>1, <1>2, <2>1 DEF Exists, PairsTogether
  <2>3. dir[PubPath[p]] = PubPath[p] /\ dir[KeyPath[p]] = KeyPath[p]
    BY <1>1, <2>1, <2>2
  <2>4. Origin(PubPath[p]) = PubPath[p] /\ Origin(KeyPath[p]) = PubPath[p]
    BY <2>1, Extensions DEF Origin
  <2>5. Content(PubPath[p]) = All(PubPath[p]) /\ Content(KeyPath[p]) = All(PubPath[p])
    BY <1>1, <2>1, <2>2, <2>3, <2>4 DEF Content, Inodes
  <2> QED BY <2>1, <2>3, <2>5, Names DEF Exists, All, Inodes
<1> QED BY <1>2 DEF KeyPairsMatch

LEMMA StepKeepsPairs ==
  ASSUME TypeOK, StageInv, InodeInv, GenerationInv, KeyPairsMatch, NEW c \in Commands, Step(c)
  PROVE  KeyPairsMatch'
<1>1. plan' = plan /\ \A d \in Commands : d # c => stage'[d] = stage[d]
  BY StepMoves DEF TypeOK
<1>2. /\ \A p : PairAlone(p)' = PairAlone(p)
      /\ \A d \in Commands : \A p : GeneratesPair(d, p)' = GeneratesPair(d, p)
  BY <1>1 DEF PairAlone, GeneratesPair, Generates, Output, Job
<1>3. InodeInv'
  BY StepKeepsInodes
<1>4. SUFFICES ASSUME NEW p \in Paths, PairAlone(p), dir'[PubPath[p]] # None,
                      \A d \in Commands :
                        GeneratesPair(d, p) => handle'[d] = None \/ stage'[d] = "done"
               PROVE  /\ dir'[KeyPath[p]] # None
                      /\ data'[dir'[PubPath[p]]] = data'[dir'[KeyPath[p]]]
                      /\ data'[dir'[PubPath[p]]].first = data'[dir'[PubPath[p]]].second
  BY <1>2 DEF KeyPairsMatch, Exists, Content
<1> DEFINE pub == PubPath[p]
           key == KeyPath[p]
<1>5. pub \in Paths \cap KeyFiles /\ key \in Paths \cap KeyFiles
  BY Extensions
<1>6. \A d \in Commands : d # c => handle'[d] = handle[d]
  BY StepEffect DEF Prepares, GivesUp, Opened, Filled, Rename, files, TypeOK
<1>7. ASSUME dir'[pub] = dir[pub], data'[pub] = data[pub], dir'[key] = dir[key], data'[key] = data[key],
             GeneratesPair(c, p) => handle[c] = None
      PROVE  /\ dir'[key] # None
             /\ data'[dir'[pub]] = data'[dir'[key]]
             /\ data'[dir'[pub]].first = data'[dir'[pub]].second
  <2>1. \A d \in Commands : GeneratesPair(d, p) => handle[d] = None \/ stage[d] = "done"
    BY <1>1, <1>4, <1>6, <1>7
  <2>2. Exists(pub)
    BY <1>4, <1>7 DEF Exists
  <2>3. Exists(key) /\ Content(pub) = Content(key) /\ Content(pub).first = Content(pub).second
    BY <1>4, <2>1, <2>2 DEF KeyPairsMatch
  <2>4. dir[pub] = pub /\ dir[key] = key
    BY <1>5, <2>2, <2>3, KeyFileInode
  <2> QED BY <1>7, <2>3, <2>4 DEF Exists, Content
<1>8. CASE ~GeneratesPair(c, p) \/ stage[c] = "check"
  <2>1. Generates(c) /\ stage[c] # "check" => {pub, key} \cap {PubPath[Output(c)], KeyPath[Output(c)]} = {}
    BY <1>8, PairFacts, PairsDiffer DEF GeneratesPair
  <2>2. /\ dir'[pub] = dir[pub] /\ data'[pub] = data[pub]
        /\ dir'[key] = dir[key] /\ data'[key] = data[key]
    BY <1>5, <2>1, KeyFilesTouched
  <2>3. GeneratesPair(c, p) => handle[c] = None
    BY <1>4, <1>8 DEF GenerationInv, GeneratesPair, PairAlone
  <2> QED BY <1>7, <2>2, <2>3
<1>9. CASE GeneratesPair(c, p) /\ stage[c] # "check"
  <2>1. Generates(c) /\ pub = PubPath[Output(c)] /\ key = KeyPath[Output(c)]
    BY <1>9, PairFacts, PairsDiffer DEF GeneratesPair
  <2>2. PairAlone(Output(c))
    BY <1>4, <1>9 DEF GeneratesPair, PairAlone
  <2>3. handle'[c] = None \/ stage'[c] = "done"
    BY <1>4, <1>9
  <2>4. \A path : Opened(c, path) => handle'[c] # None
    BY Names DEF Opened, TypeOK
  <2>5. \A half : Filled(c, half) => handle'[c] # None
    BY Names DEF Filled
  <2>6. CASE GivesUp(c)
    <3>1. handle[c] = None
      BY <2>3, <2>6 DEF GivesUp, files
    <3> QED BY <1>7, <2>6, <3>1 DEF GivesUp, files
  <2>7. CASE /\ Filled(c, "second") /\ data'[key] = All(c) /\ data'[pub] = data[pub]
             /\ stage[c] = "key2"
    <3>1. data[pub] = All(c) /\ Exists(pub) /\ Exists(key)
      BY <2>1, <2>2, <2>7 DEF GenerationInv, Generating
    <3>2. dir'[pub] = pub /\ dir'[key] = key
      BY <1>5, <2>7, <3>1, KeyFileInode DEF Filled
    <3> QED BY <1>5, <2>7, <3>1, <3>2, Names DEF All, Inodes
  <2> QED BY <2>1, <2>2, <2>3, <2>4, <2>5, <2>6, <2>7, <1>9, PairStep
<1> QED BY <1>8, <1>9

(* Public and secret key files beside each other are one whole pair, unless*)
(* a generation of this pair is under way or was broken off                *)
(* (cli/gen_recipient.rs).                                                 *)
THEOREM CommandsMatchKeyPairs == PairsTogether => (Spec => []KeyPairsMatch)
<1> SUFFICES ASSUME PairsTogether PROVE Spec => []KeyPairsMatch
  OBVIOUS
<1>1. Init => KeyPairsMatch
  BY InitPairs
<1>2. FilesInv /\ (GenerationInv /\ KeysWhole /\ KeysUsed) /\ KeyPairsMatch /\ [Next]_vars => KeyPairsMatch'
  <2> SUFFICES ASSUME FilesInv, GenerationInv, KeyPairsMatch, [Next]_vars PROVE KeyPairsMatch'
    OBVIOUS
  <2>1. CASE UNCHANGED vars
    BY <2>1 DEF vars, KeyPairsMatch, PairAlone, GeneratesPair, Generates, Output, Job, Exists, Content
  <2>2. ASSUME NEW c \in Commands, Step(c) PROVE KeyPairsMatch'
    BY <2>2, StepKeepsPairs DEF FilesInv
  <2> QED BY <2>1, <2>2, NextIsStep
<1> QED BY <1>1, <1>2, FilesInductive, KeysInductive, PTL DEF Spec

=============================================================================
