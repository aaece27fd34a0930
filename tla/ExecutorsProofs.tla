---------------------------- MODULE ExecutorsProofs ----------------------------
(***************************************************************************)
(* Proofs about Executors, for any number of agents on the host, any       *)
(* files, jobs and timeouts.                                               *)
(*                                                                         *)
(* A step of one agent is either its own or leaves another's execution     *)
(* Aside: it changes nothing of that but the files, and those only in a    *)
(* way that marks the execution as not clean.                              *)
(***************************************************************************)
EXTENDS Executors, SequenceTheorems, TLAPS

Stuff == Blocks \cup {Hole}

(* TypeOK, and what it leaves open.                                        *)
Typed ==
    /\ TypeOK
    /\ file \in [Paths -> Seq(Stuff) \cup {Absent}]
    /\ DOMAIN job = Workers /\ DOMAIN form = Workers /\ DOMAIN before = Workers
    /\ read \in [Workers -> Seq(Stuff)]

(* Which executor is in which phase, and what it has read by then.         *)
ShapeAt(w) ==
    /\ phase[w] = "opened" => job[w].op \in {"copy_file", "checksum"}
    /\ phase[w] = "copying" => job[w].op = "copy_file"
    /\ phase[w] = "truncated" => job[w].op = "write_file"
    /\ phase[w] \in {"idle", "started", "checked"} => at[w] = 0 /\ read[w] = << >>
    /\ phase[w] = "opened" /\ job[w].op = "copy_file" => at[w] = 0

Shape == \A w \in Workers : ShapeAt(w)

-------------------------------------------------------------------------------
(* The operators.                                                          *)

LEMMA TaskFields ==
    ASSUME NEW t \in Tasks(Paths, Contents)
    PROVE  /\ t.op \in {"copy_file", "write_file", "checksum", "file_exists",
                        "wait", "tcp_check", "http_check"}
           /\ t.op = "copy_file" => /\ t.source \in Paths /\ t.destination \in Paths
                                    /\ PathsOf(t) = {t.source, t.destination}
           /\ t.op = "write_file" => /\ t.destination \in Paths /\ PathsOf(t) = {t.destination}
                                     /\ t.content \in Contents \cup {<< >>}
           /\ t.op \in {"checksum", "file_exists"} => t.source \in Paths /\ PathsOf(t) = {t.source}
           /\ t.op = "wait" => t.duration \in Int
BY DEF Tasks, PathsOf

LEMMA JobFields ==
    ASSUME TypeOK, NEW w \in Workers, phase[w] # "idle"
    PROVE  job[w] \in Tasks(Paths, Contents) /\ form[w] \in Forms
<1>1. [task |-> job[w], form |-> form[w]] \in [task : Tasks(Paths, Contents), form : Forms]
  BY ExecutorsAssumption DEF TypeOK
<1> QED
  BY <1>1

LEMMA BlockIsStuff ==
    ASSUME NEW c \in Seq(Stuff), NEW n \in Nat \ {0}, NEW b \in Stuff
    PROVE  /\ WithBlock(c, n, b) \in Seq(Stuff)
           /\ n >= Len(c) => Len(WithBlock(c, n, b)) = n
           /\ n = Len(c) + 1 => /\ WithBlock(c, n, b)[n] = b
                                /\ \A i \in 1 .. Len(c) : WithBlock(c, n, b)[i] = c[i]
<1> DEFINE m == IF n > Len(c) THEN n ELSE Len(c)
<1>1. m \in Nat
  BY LenProperties
<1>2. \A i \in 1 .. m : (IF i = n THEN b ELSE IF i <= Len(c) THEN c[i] ELSE Hole) \in Stuff
  BY ElementOfSeq DEF Stuff
<1> QED
  BY <1>1, <1>2, LenProperties DEF WithBlock

LEMMA PrefixIsStuff ==
    ASSUME NEW c \in Seq(Stuff), NEW new \in Seq(Stuff)
    PROVE  /\ WithPrefix(c, new) \in Seq(Stuff)
           /\ c = << >> => WithPrefix(c, new) = new
<1> DEFINE m == IF Len(new) > Len(c) THEN Len(new) ELSE Len(c)
<1>1. m \in Nat /\ Len(new) \in Nat
  BY LenProperties
<1>2. \A i \in 1 .. m : (IF i <= Len(new) THEN new[i] ELSE c[i]) \in Stuff
  BY LenProperties, ElementOfSeq
<1>3. WithPrefix(c, new) \in Seq(Stuff)
  BY <1>1, <1>2 DEF WithPrefix
<1>4. ASSUME c = << >> PROVE WithPrefix(c, new) = new
  <2>1. WithPrefix(c, new) = [i \in 1 .. Len(new) |-> new[i]]
    BY <1>1, <1>4 DEF WithPrefix
  <2> QED
    BY <2>1, LenProperties
<1> QED
  BY <1>3, <1>4

(* Contents and their beginnings are what files are made of, and no file   *)
(* that exists is Absent.                                                  *)
LEMMA ContentIsStuff ==
    /\ \A c \in Contents \cup {<< >>} : c \in Seq(Stuff)
    /\ \A c \in Seq(Stuff) : c # Absent
    /\ << >> \in Seq(Stuff)
<1>1. Seq(Blocks) \subseteq Seq(Stuff)
  BY SeqDef DEF Stuff
<1> QED
  BY <1>1, ExecutorsAssumption, EmptySeq DEF Stuff

THEOREM InitTyped == Init => Typed /\ Shape
BY ContentIsStuff, EmptySeq DEF Init, Typed, TypeOK, Shape, ShapeAt, Phases, NoJob, Plain

-------------------------------------------------------------------------------
(* What a step does to the files and to the executions of others.          *)

StepOf(v) ==
    \/ \E j \in JobsOf[v] : Begin(v, j)
    \/ Expire(v) \/ Stop(v) \/ HTTPCheck(v) \/ Progress(v)

Aside(w) ==
    /\ phase'[w] = phase[w] /\ job'[w] = job[w] /\ form'[w] = form[w] /\ ctx'[w] = ctx[w]
    /\ at'[w] = at[w] /\ read'[w] = read[w] /\ answer'[w] = answer[w]
    /\ result'[w] = result[w] /\ before'[w] = before[w]
    /\ clean'[w] => clean[w] /\ (phase[w] = "idle" \/ \A p \in PathsOf(job[w]) : file'[p] = file[p])

(* The job writes a file.                                                  *)
Writer(t) == t.op \in {"copy_file", "write_file"}

(* A step of v writes nothing, or some stuff to the destination of its job.*)
Writes(v) ==
    \/ UNCHANGED <<file, clean>>
    \/ UNCHANGED file /\ clean' = [clean EXCEPT ![v] = TRUE]
    \/ /\ phase[v] # "idle" /\ Writer(job[v])
       /\ \E p \in Paths, c \in Seq(Stuff) : p = job[v].destination /\ Write(v, p, c)

LEMMA StepWrites ==
    ASSUME Typed, Shape, NEW v \in Workers, StepOf(v)
    PROVE  Writes(v)
<1> USE DEF WriteNothing
<1>0. /\ phase[v] # "idle" => job[v] \in Tasks(Paths, Contents) /\ form[v] \in Forms
      /\ phase[v] = "idle" => job[v] = NoJob
  BY JobFields DEF Typed, TypeOK
<1>1. CASE \/ \E j \in JobsOf[v] : Begin(v, j)
           \/ Expire(v) \/ Stop(v) \/ HTTPCheck(v)
  BY <1>1 DEF Begin, Expire, Stop, HTTPCheck, Writes
<1>2. CASE Refuse(v) \/ TCPCheck(v) \/ Wait(v) \/ Interrupted(v) \/ CheckContext(v)
           \/ OpenSource(v) \/ EndCopy(v) \/ ReadBlock(v) \/ EndChecksum(v) \/ Stat(v)
  BY <1>2 DEF Refuse, TCPCheck, Wait, Interrupted, CheckContext, OpenSource, EndCopy, ReadBlock,
              EndChecksum, Stat, Writes
<1>3. CASE Submit(v)
  BY <1>3 DEF Submit, Writes
<1>4. CASE CreateDestination(v)
  <2>1. phase[v] = "opened" /\ job[v].op = "copy_file"
    BY <1>4 DEF CreateDestination, GoOn, Return, Step
  <2>2. job[v].destination \in Paths
    BY <1>0, <2>1, TaskFields
  <2> QED
    BY <1>4, <2>1, <2>2, ContentIsStuff DEF CreateDestination, Writes, Writer
<1>5. CASE CopyBlock(v)
  <2>1. phase[v] = "copying" /\ job[v].op = "copy_file" /\ ~ AtEnd(v) /\ at[v] \in Nat
    BY <1>5 DEF CopyBlock, Shape, ShapeAt, Typed, TypeOK
  <2>2. job[v].source \in Paths /\ job[v].destination \in Paths
    BY <1>0, <2>1, TaskFields
  <2>3. file[job[v].source] \in Seq(Stuff) /\ file[job[v].destination] \in Seq(Stuff)
    BY <2>1, <2>2 DEF Typed, TypeOK
  <2>4. at[v] + 1 \in 1 .. Len(file[job[v].source])
    BY <2>1, <2>3, LenProperties DEF AtEnd
  <2>5. file[job[v].source][at[v] + 1] \in Stuff
    BY <2>3, <2>4, ElementOfSeq
  <2>6. WithBlock(file[job[v].destination], at[v] + 1, file[job[v].source][at[v] + 1]) \in Seq(Stuff)
    <3>1. at[v] + 1 \in Nat \ {0}
      BY <2>1
    <3> QED
      BY <2>3, <2>5, <3>1, BlockIsStuff
  <2> QED
    BY <1>5, <2>1, <2>2, <2>6 DEF CopyBlock, Writes, Writer
<1>6. CASE TruncateFile(v)
  <2>1. phase[v] = "checked" /\ job[v].op = "write_file"
    BY <1>6 DEF TruncateFile, GoOn, Return, Step
  <2>2. job[v].destination \in Paths
    BY <1>0, <2>1, TaskFields
  <2> QED
    BY <1>6, <2>1, <2>2, ContentIsStuff DEF TruncateFile, Writes, Writer
<1>7. CASE WriteContent(v)
  <2>1. phase[v] = "truncated" /\ job[v].op = "write_file"
    BY <1>7 DEF WriteContent, Shape, ShapeAt
  <2>2. job[v].destination \in Paths /\ job[v].content \in Seq(Stuff)
    BY <1>0, <2>1, TaskFields, ContentIsStuff
  <2>3. file[job[v].destination] \in Seq(Stuff)
    BY <2>1, <2>2 DEF Typed, TypeOK
  <2>4. \A n \in 0 .. Len(job[v].content) : SubSeq(job[v].content, 1, n) \in Seq(Stuff)
    BY <2>2, SubSeqProperties, LenProperties
  <2> QED
    BY <1>7, <2>1, <2>2, <2>3, <2>4, PrefixIsStuff DEF WriteContent, Writes, Writer
<1> QED
  BY <1>1, <1>2, <1>3, <1>4, <1>5, <1>6, <1>7 DEF StepOf, Progress, FileStep

(* The step of v leaves the others aside.                                  *)
LEMMA StepAside ==
    ASSUME Typed, NEW v \in Workers, NEW w \in Workers, w # v, StepOf(v), Writes(v)
    PROVE  Aside(w)
<1>1. /\ phase'[w] = phase[w] /\ job'[w] = job[w] /\ form'[w] = form[w] /\ ctx'[w] = ctx[w]
      /\ at'[w] = at[w] /\ read'[w] = read[w] /\ answer'[w] = answer[w]
      /\ result'[w] = result[w] /\ before'[w] = before[w]
  <2> USE DEF Typed, TypeOK, Step, Return, GoOn
  <2>1. CASE (\E j \in JobsOf[v] : Begin(v, j)) \/ Expire(v) \/ Stop(v) \/ HTTPCheck(v)
    BY <2>1 DEF Begin, Expire, Stop, HTTPCheck, execution
  <2>2. CASE Refuse(v) \/ TCPCheck(v) \/ Wait(v) \/ Interrupted(v) \/ Submit(v)
    BY <2>2 DEF Refuse, TCPCheck, Wait, Interrupted, Submit
  <2>3. CASE \/ CheckContext(v) \/ OpenSource(v) \/ CreateDestination(v) \/ CopyBlock(v)
             \/ EndCopy(v)
    BY <2>3 DEF CheckContext, OpenSource, CreateDestination, CopyBlock, EndCopy
  <2>4. CASE \/ TruncateFile(v) \/ WriteContent(v) \/ ReadBlock(v) \/ EndChecksum(v) \/ Stat(v)
    BY <2>4 DEF TruncateFile, WriteContent, ReadBlock, EndChecksum, Stat
  <2> QED
    BY <2>1, <2>2, <2>3, <2>4 DEF StepOf, Progress, FileStep
<1>2. clean'[w] => clean[w] /\ (phase[w] = "idle" \/ \A p \in PathsOf(job[w]) : file'[p] = file[p])
  <2>1. CASE UNCHANGED <<file, clean>>
    BY <2>1
  <2>2. CASE UNCHANGED file /\ clean' = [clean EXCEPT ![v] = TRUE]
    BY <2>2 DEF Typed, TypeOK
  <2>3. ASSUME NEW p \in Paths, NEW c \in Seq(Stuff), Write(v, p, c), clean'[w]
        PROVE  clean[w] /\ (phase[w] = "idle" \/ \A q \in PathsOf(job[w]) : file'[q] = file[q])
    <3>1. clean[w] /\ (phase[w] = "idle" \/ p \notin PathsOf(job[w]))
      BY <2>3 DEF Write
    <3>2. ASSUME NEW q, q # p PROVE file'[q] = file[q]
      BY <2>3, <3>2 DEF Write, Typed
    <3> QED
      BY <3>1, <3>2
  <2> QED
    BY <2>1, <2>2, <2>3 DEF Writes
<1> QED
  BY <1>1, <1>2 DEF Aside

(* The files keep their type, and those that exist go on existing.         *)
LEMMA FilesStay ==
    ASSUME Typed, NEW v \in Workers, Writes(v)
    PROVE  /\ file' \in [Paths -> Seq(Stuff) \cup {Absent}]
           /\ DOMAIN file' = Paths /\ clean' \in [Workers -> BOOLEAN]
           /\ \A p \in Paths : file[p] # Absent => file'[p] # Absent
<1>1. CASE UNCHANGED <<file, clean>>
  BY <1>1 DEF Typed, TypeOK
<1>2. CASE UNCHANGED file /\ clean' = [clean EXCEPT ![v] = TRUE]
  BY <1>2 DEF Typed, TypeOK
<1>3. ASSUME NEW p \in Paths, NEW c \in Seq(Stuff), Write(v, p, c)
      PROVE  /\ file' \in [Paths -> Seq(Stuff) \cup {Absent}]
             /\ clean' \in [Workers -> BOOLEAN]
             /\ \A q \in Paths : file[q] # Absent => file'[q] # Absent
  <2>1. file' \in [Paths -> Seq(Stuff) \cup {Absent}]
    BY <1>3 DEF Typed, Write
  <2>2. clean' \in [Workers -> BOOLEAN]
    BY <1>3 DEF Write
  <2>3. ASSUME NEW q \in Paths, file[q] # Absent PROVE file'[q] # Absent
    BY <1>3, <2>3, ContentIsStuff DEF Typed, Write
  <2> QED
    BY <2>1, <2>2, <2>3
<1> QED
  BY <1>1, <1>2, <1>3 DEF Writes

-------------------------------------------------------------------------------
(* Types and phases.                                                       *)

(* What TypeOK says of one execution, besides the ranges of the functions. *)
Execution(w) ==
    /\ IF phase[w] = "idle" THEN job[w] = NoJob /\ form[w] = Plain
       ELSE [task |-> job[w], form |-> form[w]] \in JobsOf[w]
    /\ job[w].op = "checksum" => Len(read[w]) = at[w]
    /\ phase[w] \in {"opened", "copying"} => file[job[w].source] # Absent
    /\ phase[w] \in {"copying", "truncated"} => file[job[w].destination] # Absent

Ranges ==
    /\ phase \in [Workers -> Phases]
    /\ ctx \in [Workers -> {"live", "expired", "stopped"}]
    /\ at \in [Workers -> Nat]
    /\ answer \in [Workers -> Statuses \cup {0}]
    /\ result \in [Workers -> {"none", "SUCCESS", "FAILED"}]
    /\ DOMAIN job = Workers /\ DOMAIN form = Workers /\ DOMAIN before = Workers
    /\ read \in [Workers -> Seq(Stuff)]

LEMMA ReturnRanges ==
    ASSUME Ranges, NEW v \in Workers, NEW from, NEW status \in {"SUCCESS", "FAILED"},
           Return(v, from, status), UNCHANGED ctx
    PROVE  Ranges'
BY DEF Ranges, Return, Step, Phases

LEMMA GoOnRanges ==
    ASSUME Ranges, NEW v \in Workers, NEW from, NEW to \in Phases, GoOn(v, from, to), UNCHANGED ctx
    PROVE  Ranges'
BY DEF Ranges, GoOn, Step

LEMMA StepRanges ==
    ASSUME Typed, Shape, NEW v \in Workers, StepOf(v)
    PROVE  Ranges'
<1> USE DEF Phases
<1>0. Ranges
  BY DEF Ranges, Typed, TypeOK
<1>1. ASSUME NEW j \in JobsOf[v], Begin(v, j) PROVE Ranges'
  BY <1>0, <1>1 DEF Begin, Step, Ranges
<1>2. CASE Expire(v) \/ Stop(v)
  BY <1>0, <1>2 DEF Expire, Stop, execution, Ranges
<1>3. CASE HTTPCheck(v)
  <2>1. CASE Return(v, "started", "FAILED")
    BY <1>0, <1>3, <2>1, ReturnRanges DEF HTTPCheck
  <2>2. ASSUME NEW s \in Statuses, NEW verdict \in {"SUCCESS", "FAILED"},
               Step(v, "started", "returned"), answer' = [answer EXCEPT ![v] = s],
               result' = [result EXCEPT ![v] = verdict],
               UNCHANGED <<job, form, at, read, before, ctx>>
        PROVE  Ranges'
    BY <1>0, <2>2 DEF Ranges, Step
  <2> QED
    BY <1>3, <2>1, <2>2 DEF HTTPCheck
<1>4. CASE Refuse(v) \/ Wait(v) \/ Interrupted(v)
  BY <1>0, <1>4, ReturnRanges DEF Refuse, Wait, Interrupted
<1>5. CASE TCPCheck(v)
  BY <1>0, <1>5, ReturnRanges DEF TCPCheck
<1>6. CASE Submit(v)
  <2>1. /\ phase' \in [Workers -> Phases] /\ ctx' \in [Workers -> {"live", "expired", "stopped"}]
        /\ at' \in [Workers -> Nat]
    BY <1>0, <1>6 DEF Submit, Step, Ranges
  <2>2. /\ result' \in [Workers -> {"none", "SUCCESS", "FAILED"}] /\ read' \in [Workers -> Seq(Stuff)]
        /\ answer' \in [Workers -> Statuses \cup {0}]
    BY <1>0, <1>6, EmptySeq DEF Submit, Ranges
  <2>3. DOMAIN job' = Workers /\ DOMAIN form' = Workers /\ DOMAIN before' = Workers
    BY <1>0, <1>6 DEF Submit, Ranges
  <2> QED
    BY <2>1, <2>2, <2>3 DEF Ranges
<1>7. CASE CheckContext(v)
  BY <1>0, <1>7, ReturnRanges, GoOnRanges DEF CheckContext
<1>8. CASE OpenSource(v)
  BY <1>0, <1>8, ReturnRanges, GoOnRanges DEF OpenSource
<1>9. CASE CreateDestination(v)
  BY <1>0, <1>9, ReturnRanges, GoOnRanges DEF CreateDestination
<1>10. CASE CopyBlock(v)
  <2>1. CASE Return(v, "copying", "FAILED")
    BY <1>0, <1>10, <2>1, ReturnRanges DEF CopyBlock
  <2>2. CASE ~ Return(v, "copying", "FAILED")
    <3>1. /\ Step(v, "copying", "copying")
          /\ at' = [at EXCEPT ![v] = at[v] + 1]
          /\ UNCHANGED <<job, form, read, answer, result, before, ctx>>
      BY <1>10, <2>2 DEF CopyBlock
    <3> QED
      BY <1>0, <3>1 DEF Step, Ranges
  <2> QED
    BY <2>1, <2>2
<1>11. CASE EndCopy(v)
  BY <1>0, <1>11, ReturnRanges DEF EndCopy
<1>12. CASE TruncateFile(v)
  BY <1>0, <1>12, ReturnRanges, GoOnRanges DEF TruncateFile
<1>13. CASE WriteContent(v)
  BY <1>0, <1>13, ReturnRanges DEF WriteContent
<1>14. CASE ReadBlock(v)
  <2>1. phase[v] = "opened" /\ job[v].op = "checksum" /\ ~ AtEnd(v) /\ at[v] \in Nat
    BY <1>14 DEF ReadBlock, Typed, TypeOK
  <2>2. job[v].source \in Paths
    BY <2>1, JobFields, TaskFields DEF Typed
  <2>3. file[job[v].source] \in Seq(Stuff)
    BY <2>1, <2>2 DEF Typed, TypeOK
  <2>4. at[v] + 1 \in 1 .. Len(file[job[v].source])
    BY <2>1, <2>3, LenProperties DEF AtEnd
  <2>5. file[job[v].source][at[v] + 1] \in Stuff
    BY <2>3, <2>4, ElementOfSeq
  <2>6. Append(read[v], file[job[v].source][at[v] + 1]) \in Seq(Stuff)
    BY <1>0, <2>5, AppendProperties DEF Ranges
  <2>7. CASE Return(v, "opened", "FAILED")
    BY <1>0, <1>14, <2>7, ReturnRanges DEF ReadBlock
  <2>8. CASE ~ Return(v, "opened", "FAILED")
    <3>1. /\ Step(v, "opened", "opened")
          /\ read' = [read EXCEPT ![v] = Append(@, file[job[v].source][at[v] + 1])]
          /\ at' = [at EXCEPT ![v] = at[v] + 1]
          /\ UNCHANGED <<job, form, answer, result, before, ctx>>
      BY <1>14, <2>8 DEF ReadBlock
    <3>2. read' \in [Workers -> Seq(Stuff)]
      BY <1>0, <2>6, <3>1 DEF Ranges
    <3> QED
      BY <1>0, <2>1, <3>1, <3>2 DEF Step, Ranges
  <2> QED
    BY <2>7, <2>8
<1>15. CASE EndChecksum(v)
  BY <1>0, <1>15, ReturnRanges DEF EndChecksum
<1>16. CASE Stat(v)
  BY <1>0, <1>16, ReturnRanges DEF Stat
<1> QED
  BY <1>1, <1>2, <1>3, <1>4, <1>5, <1>6, <1>7, <1>8, <1>9, <1>10, <1>11, <1>12, <1>13,
     <1>14, <1>15, <1>16 DEF StepOf, Progress, FileStep

(* A step of v, for v itself.                                              *)
LEMMA OwnShape ==
    ASSUME Typed, Shape, NEW v \in Workers, StepOf(v), Writes(v)
    PROVE  Execution(v)' /\ ShapeAt(v)'
<1> USE DEF Typed, TypeOK, Execution, Shape, ShapeAt, Step, Return, GoOn, Phases
<1>0. /\ phase[v] # "idle" => job[v] \in Tasks(Paths, Contents) /\ form[v] \in Forms
      /\ \A p \in Paths : file[p] # Absent => file'[p] # Absent
  BY JobFields, FilesStay
<1>1. ASSUME NEW j \in JobsOf[v], Begin(v, j) PROVE Execution(v)' /\ ShapeAt(v)'
  <2>1. j = [task |-> j.task, form |-> j.form]
    BY ExecutorsAssumption
  <2> QED
    BY <1>1, <2>1 DEF Begin
<1>2. CASE Expire(v) \/ Stop(v)
  BY <1>2 DEF Expire, Stop, execution
<1>3. CASE HTTPCheck(v) \/ Refuse(v) \/ TCPCheck(v) \/ Wait(v) \/ Interrupted(v)
  BY <1>3 DEF HTTPCheck, Refuse, TCPCheck, Wait, Interrupted
<1>4. CASE Submit(v)
  BY <1>4 DEF Submit, NoJob
<1>5. CASE CheckContext(v)
  BY <1>5 DEF CheckContext, WriteNothing
<1>6. CASE OpenSource(v)
  BY <1>6 DEF OpenSource, WriteNothing
<1>7. CASE CreateDestination(v)
  <2>1. phase[v] = "opened" /\ job[v].op = "copy_file"
    BY <1>7 DEF CreateDestination
  <2>2. job[v].source \in Paths /\ job[v].destination \in Paths
    BY <1>0, <2>1, TaskFields
  <2>3. phase'[v] = "copying" => file'[job[v].destination] = << >>
    BY <1>7, <2>2 DEF CreateDestination, Write
  <2> QED
    BY <1>0, <1>7, <2>1, <2>2, <2>3, ContentIsStuff DEF CreateDestination
<1>8. CASE CopyBlock(v)
  <2>1. phase[v] = "copying" /\ job[v].op = "copy_file"
    BY <1>8 DEF CopyBlock
  <2>2. job[v].source \in Paths /\ job[v].destination \in Paths
    BY <1>0, <2>1, TaskFields
  <2> QED
    BY <1>0, <1>8, <2>1, <2>2 DEF CopyBlock
<1>9. CASE EndCopy(v) \/ EndChecksum(v) \/ Stat(v)
  BY <1>9 DEF EndCopy, EndChecksum, Stat
<1>10. CASE TruncateFile(v)
  <2>1. phase[v] = "checked" /\ job[v].op = "write_file"
    BY <1>10 DEF TruncateFile
  <2>2. job[v].destination \in Paths
    BY <1>0, <2>1, TaskFields
  <2>3. phase'[v] = "truncated" => file'[job[v].destination] = << >>
    BY <1>10, <2>2 DEF TruncateFile, Write
  <2> QED
    BY <1>10, <2>1, <2>2, <2>3, ContentIsStuff DEF TruncateFile
<1>11. CASE WriteContent(v)
  BY <1>11 DEF WriteContent
<1>12. CASE ReadBlock(v)
  <2>1. phase[v] = "opened" /\ job[v].op = "checksum" /\ read[v] \in Seq(Stuff)
    BY <1>12 DEF ReadBlock
  <2>2. Len(Append(read[v], file[job[v].source][at[v] + 1])) = Len(read[v]) + 1
    BY <2>1, AppendProperties
  <2> QED
    BY <1>12, <2>1, <2>2 DEF ReadBlock, WriteNothing
<1> QED
  BY <1>1, <1>2, <1>3, <1>4, <1>5, <1>6, <1>7, <1>8, <1>9, <1>10, <1>11, <1>12
     DEF StepOf, Progress, FileStep

(* A step of another leaves all that as it is.                             *)
LEMMA AsideShape ==
    ASSUME Typed, Shape, NEW w \in Workers, Aside(w),
           \A p \in Paths : file[p] # Absent => file'[p] # Absent
    PROVE  Execution(w)' /\ ShapeAt(w)'
<1>1. ShapeAt(w)'
  BY DEF Aside, Shape, ShapeAt
<1>2. phase[w] \in {"opened", "copying"} => job[w].source \in Paths
  BY JobFields, TaskFields DEF Typed, Shape, ShapeAt
<1>3. phase[w] \in {"copying", "truncated"} => job[w].destination \in Paths
  BY JobFields, TaskFields DEF Typed, Shape, ShapeAt
<1> QED
  BY <1>1, <1>2, <1>3 DEF Aside, Typed, TypeOK, Execution

(* Next takes a step of some agent.                                        *)
LEMMA NextIsStepOf == Next => \E v \in Workers : StepOf(v)
BY DEF Next, StepOf

LEMMA StepTyped == Typed /\ Shape /\ [Next]_vars => Typed' /\ Shape'
<1> SUFFICES ASSUME Typed, Shape, [Next]_vars PROVE Typed' /\ Shape'
  OBVIOUS
<1>1. CASE Next
  <2> PICK v \in Workers : StepOf(v)
    BY <1>1, NextIsStepOf
  <2>1. Writes(v)
    BY StepWrites
  <2>2. ASSUME NEW w \in Workers PROVE Execution(w)' /\ ShapeAt(w)'
    <3>1. CASE w = v
      BY <2>1, <3>1, OwnShape
    <3>2. CASE w # v
      BY <2>1, <3>2, StepAside, FilesStay, AsideShape
    <3> QED
      BY <3>1, <3>2
  <2>3. Ranges'
    BY StepRanges
  <2>4. file' \in [Paths -> Seq(Stuff) \cup {Absent}] /\ DOMAIN file' = Paths
        /\ clean' \in [Workers -> BOOLEAN]
    BY <2>1, FilesStay
  <2>5. TypeOK'
    BY <2>2, <2>3, <2>4 DEF TypeOK, Execution, Ranges
  <2> QED
    BY <2>2, <2>3, <2>4, <2>5 DEF Typed, Shape, Ranges
<1>2. CASE UNCHANGED vars
  BY <1>2 DEF vars, execution, Typed, TypeOK, Shape, ShapeAt
<1> QED
  BY <1>1, <1>2

(* TypeOK, that a file being read or written exists included.              *)
THEOREM TypeCorrect == Spec => [](TypeOK /\ Typed /\ Shape)
<1>1. Typed => TypeOK
  BY DEF Typed
<1> QED
  BY <1>1, InitTyped, StepTyped, PTL DEF Spec

-------------------------------------------------------------------------------
(* What an execution that is clean knows of its files.                     *)
TruthAt(w) ==
    LET t == job[w] IN
    clean[w] =>
        /\ phase[w] \in {"started", "checked", "opened"} =>
               \A p \in PathsOf(t) : file[p] = before[w][p]
        /\ phase[w] = "copying" => before[w][t.source] # Absent
        /\ phase[w] = "copying" /\ t.source # t.destination =>
               /\ file[t.source] = before[w][t.source]
               /\ Len(file[t.destination]) = at[w] /\ at[w] <= Len(file[t.source])
               /\ \A i \in 1 .. at[w] : file[t.destination][i] = file[t.source][i]
        /\ phase[w] = "truncated" => file[t.destination] = << >>
        /\ phase[w] = "opened" /\ t.op = "checksum" =>
               /\ at[w] <= Len(file[t.source])
               /\ \A i \in 1 .. at[w] : read[w][i] = file[t.source][i]
        /\ Finished(w, "SUCCESS") =>
               /\ t.op = "copy_file" /\ t.source # t.destination =>
                      /\ file[t.destination] = before[w][t.source]
                      /\ file[t.source] = before[w][t.source]
               /\ t.op = "write_file" => file[t.destination] = t.content
               /\ t.op = "checksum" => read[w] = file[t.source] /\ t.expected \in {Absent, read[w]}
               /\ t.op = "file_exists" => file[t.source] # Absent
               /\ t.op = "http_check" /\ "expected_status" \notin form[w].missing \cup form[w].mistyped =>
                      answer[w] = t.status
        /\ Finished(w, "FAILED") /\ t.op = "copy_file" /\ before[w][t.source] = Absent =>
               file[t.destination] = before[w][t.destination]

Truth == \A w \in Workers : TruthAt(w)

(* As long as an execution is clean, nobody else's step makes a difference.*)
LEMMA AsideTruth ==
    ASSUME Typed, Shape, NEW w \in Workers, TruthAt(w), Aside(w)
    PROVE  TruthAt(w)'
<1> SUFFICES ASSUME clean'[w] PROVE TruthAt(w)'
  BY DEF TruthAt
<1>1. clean[w]
  BY DEF Aside
<1>2. CASE phase[w] = "idle"
  BY <1>2 DEF Aside, TruthAt, Finished
<1>3. CASE phase[w] # "idle"
  <2>1. job[w] \in Tasks(Paths, Contents)
    BY <1>3, JobFields DEF Typed
  <2>2. \A p \in PathsOf(job[w]) : file'[p] = file[p]
    BY <1>3 DEF Aside
  <2>3. /\ job[w].op = "copy_file" => /\ file'[job[w].source] = file[job[w].source]
                                      /\ file'[job[w].destination] = file[job[w].destination]
        /\ job[w].op = "write_file" => file'[job[w].destination] = file[job[w].destination]
        /\ job[w].op \in {"checksum", "file_exists"} => file'[job[w].source] = file[job[w].source]
    BY <2>1, <2>2, TaskFields
  <2>4. ShapeAt(w)
    BY DEF Shape
  <2> QED
    BY <1>1, <2>2, <2>3, <2>4 DEF Aside, TruthAt, Finished, ShapeAt
<1> QED
  BY <1>2, <1>3

(* A step of v itself keeps the truth of v.                                *)
LEMMA OwnTruth ==
    ASSUME Typed, Shape, NEW v \in Workers, TruthAt(v), StepOf(v), Ranges'
    PROVE  TruthAt(v)'
<1> USE DEF Typed, TypeOK, Ranges, Step, Return, GoOn, Finished, WriteNothing
<1>0. /\ ShapeAt(v)
      /\ phase[v] # "idle" => job[v] \in Tasks(Paths, Contents)
  BY JobFields DEF Shape
<1>1. ASSUME NEW j \in JobsOf[v], Begin(v, j) PROVE TruthAt(v)'
  <2>1. phase'[v] = "started" /\ job'[v] = j.task /\ file' = file
        /\ before'[v] = [p \in PathsOf(j.task) |-> file[p]]
    BY <1>1 DEF Begin
  <2> QED
    BY <2>1 DEF TruthAt
<1>2. CASE Expire(v) \/ Stop(v)
  BY <1>2 DEF Expire, Stop, execution, TruthAt
<1>3. CASE Submit(v)
  <2>1. phase'[v] = "idle"
    BY <1>3 DEF Submit
  <2> QED
    BY <2>1 DEF TruthAt
(* The steps that return from a file job before it has written, and those  *)
(* of the other executors.                                                 *)
<1>4. ASSUME phase[v] \in {"started", "checked", "opened"},
             phase'[v] = "returned", UNCHANGED <<file, clean, job, before>>,
             \/ result'[v] = "FAILED"
             \/ job[v].op \in {"tcp_check", "wait"}
      PROVE  TruthAt(v)'
  <2>1. job[v].op = "copy_file" => job[v].destination \in PathsOf(job[v])
    BY <1>0, <1>4, TaskFields
  <2> QED
    BY <1>4, <2>1 DEF TruthAt
<1>5. CASE Refuse(v) \/ TCPCheck(v) \/ Wait(v) \/ Interrupted(v)
  BY <1>4, <1>5 DEF Refuse, TCPCheck, Wait, Interrupted
<1>16. CASE HTTPCheck(v)
  <2>1. CASE result'[v] = "FAILED"
    BY <1>4, <1>16, <2>1 DEF HTTPCheck
  <2>2. CASE result'[v] # "FAILED"
    <3>1. /\ job[v].op = "http_check" /\ phase'[v] = "returned" /\ result'[v] = "SUCCESS"
          /\ answer'[v] = ExpectedStatus(job[v], form[v])
          /\ UNCHANGED <<file, clean, job, form, before>>
      BY <1>16, <2>2 DEF HTTPCheck
    <3> QED
      BY <3>1 DEF TruthAt, ExpectedStatus
  <2> QED
    BY <2>1, <2>2
<1>6. CASE CheckContext(v)
  <2>1. CASE phase'[v] = "checked"
    BY <1>6, <2>1 DEF CheckContext, TruthAt
  <2>2. CASE phase'[v] # "checked"
    BY <1>4, <1>6, <2>2 DEF CheckContext
  <2> QED
    BY <2>1, <2>2
<1>7. CASE OpenSource(v)
  <2>1. CASE phase'[v] = "opened"
    <3>1. phase[v] = "checked" /\ at'[v] = 0 /\ UNCHANGED <<file, clean, job, before, at, read>>
      BY <1>0, <1>7, <2>1 DEF OpenSource, ShapeAt
    <3>2. job[v].op = "checksum" => file[job[v].source] \in Seq(Stuff)
      BY <1>0, <1>7, <2>1, <3>1, TaskFields DEF OpenSource
    <3>3. job[v].op = "checksum" => 0 <= Len(file[job[v].source])
      BY <3>2, LenProperties
    <3> QED
      BY <2>1, <3>1, <3>3 DEF TruthAt
  <2>2. CASE phase'[v] # "opened"
    BY <1>4, <1>7, <2>2 DEF OpenSource
  <2> QED
    BY <2>1, <2>2
<1>8. CASE CreateDestination(v)
  <2>1. CASE phase'[v] = "copying"
    <3>1. /\ phase[v] = "opened" /\ job[v].op = "copy_file" /\ UNCHANGED <<job, before, at>>
          /\ Write(v, job[v].destination, << >>) /\ at[v] = 0
      BY <1>0, <1>8, <2>1 DEF CreateDestination, ShapeAt
    <3>2. job[v].source \in Paths /\ job[v].destination \in Paths
          /\ PathsOf(job[v]) = {job[v].source, job[v].destination}
      BY <1>0, <3>1, TaskFields
    <3>3. clean'[v] => clean[v]
      BY <3>1 DEF Write
    <3>4. file'[job[v].destination] = << >>
          /\ (job[v].source # job[v].destination => file'[job[v].source] = file[job[v].source])
      BY <3>1, <3>2 DEF Write
    <3>5. file[job[v].source] # Absent /\ file[job[v].source] \in Seq(Stuff)
      BY <3>1, <3>2
    <3>6. Len(<< >>) = 0 /\ Len(file[job[v].source]) \in Nat
      BY <3>5, LenProperties, EmptySeq
    <3>7. clean'[v] => file[job[v].source] = before[v][job[v].source]
      BY <3>1, <3>2, <3>3 DEF TruthAt
    <3> QED
      BY <2>1, <3>1, <3>4, <3>5, <3>6, <3>7 DEF TruthAt
  <2>2. CASE phase'[v] # "copying"
    BY <1>4, <1>8, <2>2 DEF CreateDestination
  <2> QED
    BY <2>1, <2>2
<1>9. CASE CopyBlock(v)
  <2>0. /\ phase[v] = "copying" /\ job[v].op = "copy_file" /\ ~ AtEnd(v)
        /\ UNCHANGED <<job, before>>
    BY <1>0, <1>9 DEF CopyBlock, ShapeAt
  <2>1. job[v].source \in Paths /\ job[v].destination \in Paths
        /\ file[job[v].source] \in Seq(Stuff) /\ file[job[v].destination] \in Seq(Stuff)
    BY <1>0, <2>0, TaskFields
  <2>2. CASE phase'[v] = "returned"
    BY <1>9, <2>0, <2>2 DEF CopyBlock, TruthAt
  <2>3. CASE phase'[v] = "copying"
    <3> DEFINE src == file[job[v].source]
               dst == file[job[v].destination]
               n   == at[v] + 1
               new == WithBlock(dst, n, src[n])
    <3>1. Write(v, job[v].destination, new) /\ at'[v] = n
      BY <1>9, <2>0, <2>3 DEF CopyBlock
    <3>2. n \in 1 .. Len(src) /\ n \in Nat \ {0}
      BY <2>0, <2>1, LenProperties DEF AtEnd
    <3>3. src[n] \in Stuff
      BY <2>1, <3>2, ElementOfSeq
    <3>4. /\ n >= Len(dst) => Len(new) = n
          /\ n = Len(dst) + 1 => new[n] = src[n] /\ \A i \in 1 .. Len(dst) : new[i] = dst[i]
      <4>1. dst \in Seq(Stuff) /\ n \in Nat \ {0}
        BY <2>1, <3>2
      <4>2. \A b \in Stuff :
               /\ n >= Len(dst) => Len(WithBlock(dst, n, b)) = n
               /\ n = Len(dst) + 1 => /\ WithBlock(dst, n, b)[n] = b
                                      /\ \A i \in 1 .. Len(dst) : WithBlock(dst, n, b)[i] = dst[i]
        <5> HIDE DEF dst, n
        <5> QED
          BY <4>1, BlockIsStuff
      <4> HIDE DEF dst, n, src
      <4> QED
        BY <3>3, <4>2
    <3>5. clean'[v] => clean[v]
      BY <3>1 DEF Write
    <3>6. /\ file'[job[v].destination] = new
          /\ job[v].source # job[v].destination => file'[job[v].source] = src
      BY <2>1, <3>1 DEF Write
    <3>7. ASSUME clean[v], job[v].source # job[v].destination
          PROVE  /\ src = before[v][job[v].source]
                 /\ Len(new) = n /\ \A i \in 1 .. n : new[i] = src[i]
      <4>1. /\ src = before[v][job[v].source] /\ Len(dst) = at[v]
            /\ \A i \in 1 .. at[v] : dst[i] = src[i]
        BY <2>0, <3>7 DEF TruthAt
      <4>2. \A i \in 1 .. n : i = n \/ i \in 1 .. at[v]
        OBVIOUS
      <4>3. n >= Len(dst) /\ n = Len(dst) + 1
        BY <4>1
      <4> HIDE DEF new, src
      <4> QED
        BY <3>4, <4>1, <4>2, <4>3
    <3>8. clean[v] => before[v][job[v].source] # Absent
      BY <2>0 DEF TruthAt
    <3> HIDE DEF src, dst, n, new
    <3> QED
      BY <2>0, <2>3, <3>1, <3>2, <3>5, <3>6, <3>7, <3>8 DEF TruthAt
  <2> QED
    BY <1>9, <2>2, <2>3 DEF CopyBlock
<1>10. CASE EndCopy(v)
  <2>0. /\ phase[v] = "copying" /\ job[v].op = "copy_file" /\ AtEnd(v) /\ phase'[v] = "returned"
        /\ result'[v] = "SUCCESS" /\ UNCHANGED <<file, clean, job, before>>
    BY <1>0, <1>10 DEF EndCopy, ShapeAt
  <2>1. file[job[v].source] \in Seq(Stuff) /\ file[job[v].destination] \in Seq(Stuff)
    BY <1>0, <2>0, TaskFields
  <2>2. ASSUME clean[v], job[v].source # job[v].destination
        PROVE  /\ file[job[v].destination] = before[v][job[v].source]
               /\ file[job[v].source] = before[v][job[v].source]
    <3>1. /\ file[job[v].source] = before[v][job[v].source]
          /\ Len(file[job[v].destination]) = at[v] /\ at[v] <= Len(file[job[v].source])
          /\ \A i \in 1 .. at[v] : file[job[v].destination][i] = file[job[v].source][i]
      BY <2>0, <2>2 DEF TruthAt
    <3>2. at[v] = Len(file[job[v].source])
      BY <2>0, <2>1, <3>1, LenProperties DEF AtEnd
    <3>3. file[job[v].destination] = file[job[v].source]
      <4> DEFINE s == file[job[v].destination]
                 t == file[job[v].source]
      <4>1. s \in Seq(Stuff) /\ t \in Seq(Stuff) /\ Len(s) = Len(t)
        BY <2>1, <3>1, <3>2
      <4>2. \A i \in 1 .. Len(s) : s[i] = t[i]
        BY <3>1
      <4> HIDE DEF s, t
      <4>3. s = t
        BY <4>1, <4>2, SeqEqual
      <4> QED
        BY <4>3 DEF s, t
    <3> QED
      BY <3>1, <3>3
  <2> QED
    BY <2>0, <2>2 DEF TruthAt
<1>11. CASE TruncateFile(v)
  <2>1. CASE phase'[v] = "truncated"
    <3>1. phase[v] = "checked" /\ job[v].op = "write_file" /\ UNCHANGED <<job, before>>
          /\ Write(v, job[v].destination, << >>)
      BY <1>11, <2>1 DEF TruncateFile
    <3>2. file'[job[v].destination] = << >>
      BY <1>0, <3>1, TaskFields DEF Write
    <3> QED
      BY <2>1, <3>1, <3>2 DEF TruthAt
  <2>2. CASE phase'[v] # "truncated"
    BY <1>4, <1>11, <2>2 DEF TruncateFile
  <2> QED
    BY <2>1, <2>2
<1>12. CASE WriteContent(v)
  <2>0. phase[v] = "truncated" /\ job[v].op = "write_file" /\ phase'[v] = "returned"
        /\ UNCHANGED <<job, before>>
    BY <1>0, <1>12 DEF WriteContent, ShapeAt
  <2>1. job[v].destination \in Paths /\ job[v].content \in Seq(Stuff)
    BY <1>0, <2>0, TaskFields, ContentIsStuff
  <2>2. CASE result'[v] = "FAILED"
    BY <2>0, <2>2 DEF TruthAt
  <2>3. CASE result'[v] # "FAILED"
    <3>1. Write(v, job[v].destination, WithPrefix(file[job[v].destination], job[v].content))
      BY <1>12, <2>3 DEF WriteContent
    <3>2. clean'[v] => clean[v]
      BY <3>1 DEF Write
    <3>3. clean[v] => file[job[v].destination] = << >>
      BY <2>0 DEF TruthAt
    <3>4. clean[v] => WithPrefix(file[job[v].destination], job[v].content) = job[v].content
      BY <2>1, <3>3, PrefixIsStuff, ContentIsStuff
    <3>5. file'[job[v].destination] = WithPrefix(file[job[v].destination], job[v].content)
      BY <2>1, <3>1 DEF Write
    <3> QED
      BY <2>0, <3>2, <3>4, <3>5 DEF TruthAt
  <2> QED
    BY <2>2, <2>3
<1>13. CASE ReadBlock(v)
  <2>0. /\ phase[v] = "opened" /\ job[v].op = "checksum" /\ ~ AtEnd(v)
        /\ UNCHANGED <<file, clean, job, before>>
    BY <1>13 DEF ReadBlock
  <2>1. CASE phase'[v] = "returned"
    BY <1>4, <1>13, <2>0, <2>1 DEF ReadBlock
  <2>2. CASE phase'[v] = "opened"
    <3> DEFINE src == file[job[v].source]
               n   == at[v] + 1
               new == Append(read[v], src[n])
    <3>1. read'[v] = new /\ at'[v] = n
      BY <1>13, <2>0, <2>2 DEF ReadBlock
    <3>2. src \in Seq(Stuff)
      BY <1>0, <2>0, TaskFields
    <3>3. n \in 1 .. Len(src)
      BY <2>0, <3>2, LenProperties DEF AtEnd
    <3>4. Len(read[v]) = at[v] /\ read[v] \in Seq(Stuff)
      BY <2>0
    <3>5. new[n] = src[n] /\ \A i \in 1 .. at[v] : new[i] = read[v][i]
      BY <3>4, AppendProperties
    <3>6. \A i \in 1 .. n : i = n \/ i \in 1 .. at[v]
      OBVIOUS
    <3>7. clean[v] => \A i \in 1 .. n : new[i] = src[i]
      BY <2>0, <3>5, <3>6 DEF TruthAt
    <3>8. n <= Len(src)
      BY <3>2, <3>3, LenProperties
    <3> HIDE DEF src, n, new
    <3>9. /\ clean[v] => \A i \in 1 .. at'[v] : read'[v][i] = file'[job'[v].source][i]
          /\ at'[v] <= Len(file'[job'[v].source])
      BY <2>0, <3>1, <3>7, <3>8 DEF src
    <3>10. clean[v] => \A p \in PathsOf(job[v]) : file[p] = before[v][p]
      BY <2>0 DEF TruthAt
    <3> QED
      BY <2>0, <2>2, <3>9, <3>10 DEF TruthAt
  <2> QED
    BY <1>13, <2>1, <2>2 DEF ReadBlock
<1>14. CASE EndChecksum(v)
  <2>0. /\ phase[v] = "opened" /\ job[v].op = "checksum" /\ AtEnd(v) /\ phase'[v] = "returned"
        /\ UNCHANGED <<file, clean, job, before, read>>
        /\ result'[v] = IF job[v].expected \in {Absent, read[v]} THEN "SUCCESS" ELSE "FAILED"
    BY <1>14 DEF EndChecksum
  <2>1. file[job[v].source] \in Seq(Stuff) /\ read[v] \in Seq(Stuff) /\ Len(read[v]) = at[v]
    BY <1>0, <2>0, TaskFields
  <2>2. ASSUME clean[v] PROVE read[v] = file[job[v].source]
    <3>1. /\ at[v] <= Len(file[job[v].source])
          /\ \A i \in 1 .. at[v] : read[v][i] = file[job[v].source][i]
      BY <2>0, <2>2 DEF TruthAt
    <3>2. at[v] = Len(file[job[v].source])
      BY <2>0, <2>1, <3>1, LenProperties DEF AtEnd
    <3> DEFINE s == read[v]
               t == file[job[v].source]
    <3>3. s \in Seq(Stuff) /\ t \in Seq(Stuff) /\ Len(s) = Len(t)
      BY <2>1, <3>2
    <3>4. \A i \in 1 .. Len(s) : s[i] = t[i]
      BY <2>1, <3>1
    <3> HIDE DEF s, t
    <3>5. s = t
      BY <3>3, <3>4, SeqEqual
    <3> QED
      BY <3>5 DEF s, t
  <2> QED
    BY <2>0, <2>2 DEF TruthAt
<1>15. CASE Stat(v)
  <2>1. /\ phase[v] = "checked" /\ phase'[v] = "returned" /\ job[v].op = "file_exists"
        /\ UNCHANGED <<file, clean, job, before>>
        /\ result'[v] = "FAILED" \/ file[job[v].source] # Absent
    BY <1>15 DEF Stat
  <2> QED
    BY <2>1 DEF TruthAt
<1> QED
  BY <1>1, <1>2, <1>3, <1>5, <1>6, <1>7, <1>8, <1>9, <1>10, <1>11, <1>12, <1>13, <1>14, <1>15, <1>16
     DEF StepOf, Progress, FileStep

LEMMA StepTruth == Typed /\ Shape /\ Truth /\ [Next]_vars => Truth'
<1> SUFFICES ASSUME Typed, Shape, Truth, [Next]_vars PROVE Truth'
  OBVIOUS
<1>1. CASE Next
  <2> PICK v \in Workers : StepOf(v)
    BY <1>1, NextIsStepOf
  <2>1. ASSUME NEW w \in Workers PROVE TruthAt(w)'
    <3>1. CASE w = v
      BY <3>1, StepRanges, OwnTruth DEF Truth
    <3>2. CASE w # v
      BY <3>2, StepWrites, StepAside, AsideTruth DEF Truth
    <3> QED
      BY <3>1, <3>2
  <2> QED
    BY <2>1 DEF Truth
<1>2. CASE UNCHANGED vars
  BY <1>2 DEF vars, execution, Truth, TruthAt, Finished
<1> QED
  BY <1>1, <1>2

(* SuccessIsFaithful, for any files, blocks, status codes and number of    *)
(* agents: the copy is taken block by block and stays equal as long as     *)
(* nobody writes either file.  Nothing is said of a copy of a file onto    *)
(* itself, which is a SUCCESS and empties the file.                        *)
THEOREM SuccessCorrect == Spec => []SuccessIsFaithful
<1>1. Init => Truth
  BY DEF Init, Truth, TruthAt, Finished
<1>2. Truth => SuccessIsFaithful
  BY DEF Truth, TruthAt, SuccessIsFaithful, Faithful
<1> QED
  BY <1>1, <1>2, TypeCorrect, StepTruth, PTL DEF Spec

(* What SuccessIsFaithful leaves to those who submit jobs: no agent of the *)
(* host is given a job that writes a file which a job of another names.    *)
Isolated ==
    \A v, w \in Workers : v # w =>
        \A i \in JobsOf[v], j \in JobsOf[w] :
            Writer(i.task) => i.task.destination \notin PathsOf(j.task)

(* Then no execution is disturbed.                                         *)
LEMMA StepUndisturbed ==
    ASSUME Isolated
    PROVE  Typed /\ Shape /\ (\A w \in Workers : clean[w]) /\ [Next]_vars
               => \A w \in Workers : clean'[w]
<1> SUFFICES ASSUME Typed, Shape, \A w \in Workers : clean[w], [Next]_vars,
                    NEW w \in Workers
             PROVE  clean'[w]
  OBVIOUS
<1>1. CASE UNCHANGED vars
  BY <1>1 DEF vars
<1>2. CASE Next
  <2> PICK v \in Workers : StepOf(v)
    BY <1>2, NextIsStepOf
  <2>1. Writes(v)
    BY StepWrites
  <2>2. CASE UNCHANGED <<file, clean>>
    BY <2>2
  <2>3. CASE clean' = [clean EXCEPT ![v] = TRUE]
    BY <2>3 DEF Typed, TypeOK
  <2>4. ASSUME phase[v] # "idle", Writer(job[v]),
               NEW c \in Seq(Stuff), Write(v, job[v].destination, c)
        PROVE  clean'[w]
    <3>1. clean'[w] = (clean[w] /\ \/ w = v \/ phase[w] = "idle"
                                   \/ job[v].destination \notin PathsOf(job[w]))
      BY <2>4 DEF Write
    <3>2. CASE w # v /\ phase[w] # "idle"
      <4> DEFINE i == [task |-> job[v], form |-> form[v]]
                 j == [task |-> job[w], form |-> form[w]]
      <4>1. i \in JobsOf[v] /\ j \in JobsOf[w]
        BY <2>4, <3>2 DEF Typed, TypeOK
      <4>2. i.task = job[v] /\ j.task = job[w]
        OBVIOUS
      <4> HIDE DEF i, j
      <4>3. job[v].destination \notin PathsOf(job[w])
        BY <2>4, <3>2, <4>1, <4>2 DEF Isolated
      <4> QED
        BY <3>1, <4>3
    <3> QED
      BY <3>1, <3>2
  <2> QED
    BY <2>1, <2>2, <2>3, <2>4 DEF Writes
<1> QED
  BY <1>1, <1>2

(* With jobs that are isolated in this sense, every SUCCESS an agent of    *)
(* the host reports is true, except of a copy of a file onto itself,       *)
(* however the executions interleave and whatever fails: nothing but the   *)
(* files connects them.                                                    *)
THEOREM IsolatedSuccessCorrect ==
    ASSUME Isolated
    PROVE  Spec => [](\A w \in Workers : Finished(w, "SUCCESS") => Faithful(w))
<1> DEFINE Undisturbed == \A w \in Workers : clean[w]
           Told == \A w \in Workers : Finished(w, "SUCCESS") => Faithful(w)
<1>1. Init => Undisturbed
  BY DEF Init
<1>2. Typed /\ Shape /\ Undisturbed /\ [Next]_vars => Undisturbed'
  BY StepUndisturbed
<1>3. Undisturbed /\ SuccessIsFaithful => Told
  BY DEF SuccessIsFaithful
<1> HIDE DEF Undisturbed, Told
<1>4. Spec => []Told
  BY <1>1, <1>2, <1>3, TypeCorrect, SuccessCorrect, PTL DEF Spec
<1> QED
  BY <1>4 DEF Told

(* MissingSourceHarmless: the source is opened before the destination is   *)
(* created, so a copy that finds no source has written nothing.            *)
THEOREM HarmlessCorrect == Spec => []MissingSourceHarmless
<1>1. Init => Truth
  BY DEF Init, Truth, TruthAt, Finished
<1>2. Truth => MissingSourceHarmless
  BY DEF Truth, TruthAt, MissingSourceHarmless
<1> QED
  BY <1>1, <1>2, TypeCorrect, StepTruth, PTL DEF Spec

-------------------------------------------------------------------------------
(* What is accepted, and how a wait ends.                                  *)
ClockAt(w) ==
    /\ phase[w] # "idle" => Accepted([task |-> job[w], form |-> form[w]])
    /\ phase[w] \in {"checked", "opened", "copying", "truncated"} => job[w].op # "wait"
    /\ job[w].op = "wait" /\ Usable(job[w], form[w]) =>
          /\ phase[w] # "idle" /\ ctx[w] = "expired" => \E t \in Timers(job[w]) : Limit(form[w]) <= t
          /\ Finished(w, "SUCCESS") => \E t \in Timers(job[w]) : t <= Limit(form[w])
          /\ Finished(w, "FAILED") => ctx[w] # "live"

Clock == \A w \in Workers : ClockAt(w)

(* phase[w] = "idle" or started goes with a context that is live, unless   *)
(* it was cancelled since.                                                 *)
IdleLive == \A w \in Workers : phase[w] = "idle" => ctx[w] = "live"

(* A step of v, for v itself.                                              *)
LEMMA OwnClock ==
    ASSUME Typed, Shape, NEW v \in Workers, ClockAt(v), phase[v] = "idle" => ctx[v] = "live",
           StepOf(v), Ranges'
    PROVE  ClockAt(v)' /\ (phase'[v] = "idle" => ctx'[v] = "live")
<1> USE DEF Typed, TypeOK, Ranges, Step, Return, GoOn, Finished, IdleLive
<1>1. ASSUME NEW j \in JobsOf[v], Begin(v, j)
      PROVE  ClockAt(v)' /\ (phase'[v] = "idle" => ctx'[v] = "live")
  <2>1. j = [task |-> j.task, form |-> j.form]
    BY ExecutorsAssumption
  <2>2. /\ phase[v] = "idle" /\ phase'[v] = "started" /\ ctx'[v] = "live"
        /\ job'[v] = j.task /\ form'[v] = j.form /\ Accepted(j)
    BY <1>1 DEF Begin
  <2> QED
    BY <2>1, <2>2 DEF ClockAt
<1>2. CASE Expire(v)
  <2>1. /\ phase[v] \notin {"idle", "returned"} /\ ctx'[v] = "expired"
        /\ UNCHANGED <<phase, job, form, result>>
        /\ job[v].op = "wait" /\ phase[v] = "started" /\ Usable(job[v], form[v]) =>
               \E t \in Timers(job[v]) : Limit(form[v]) <= t
    BY <1>2 DEF Expire, execution
  <2>2. job[v].op = "wait" => phase[v] = "started"
    BY <2>1 DEF ClockAt, Phases
  <2> QED
    BY <2>1, <2>2 DEF ClockAt
<1>3. CASE Stop(v)
  <2>1. phase[v] = "started" /\ ctx'[v] = "stopped" /\ UNCHANGED <<phase, job, form, result>>
    BY <1>3 DEF Stop, execution
  <2> QED
    BY <2>1 DEF ClockAt
<1>4. CASE Wait(v)
  <2>1. /\ phase[v] = "started" /\ phase'[v] = "returned" /\ result'[v] = "SUCCESS"
        /\ UNCHANGED <<job, form, ctx>>
        /\ \E t \in Timers(job[v]) : t <= Limit(form[v])
    BY <1>4 DEF Wait
  <2> QED
    BY <2>1 DEF ClockAt
<1>5. CASE Interrupted(v)
  <2>1. /\ phase[v] = "started" /\ phase'[v] = "returned" /\ result'[v] = "FAILED"
        /\ UNCHANGED <<job, form, ctx>> /\ ctx[v] # "live"
    BY <1>5 DEF Interrupted
  <2> QED
    BY <2>1 DEF ClockAt
<1>6. CASE Submit(v)
  <2>1. phase'[v] = "idle" /\ job'[v] = NoJob /\ ctx'[v] = "live"
    BY <1>6 DEF Submit
  <2> QED
    BY <2>1 DEF ClockAt, NoJob
<1>7. CASE Refuse(v)
  <2>1. phase[v] = "started" /\ phase'[v] = "returned" /\ UNCHANGED <<job, form, ctx>>
        /\ ~ Usable(job[v], form[v])
    BY <1>7 DEF Refuse
  <2> QED
    BY <2>1 DEF ClockAt
(* Every other step is one of an executor other than wait.                 *)
<1>8. ASSUME phase[v] # "idle", phase'[v] # "idle", job[v].op # "wait", UNCHANGED <<job, form>>
      PROVE  ClockAt(v)' /\ (phase'[v] = "idle" => ctx'[v] = "live")
  BY <1>8 DEF ClockAt
<1>9. CASE HTTPCheck(v) \/ TCPCheck(v)
  BY <1>8, <1>9 DEF HTTPCheck, TCPCheck
<1>10. CASE CheckContext(v) \/ OpenSource(v) \/ CreateDestination(v)
  BY <1>8, <1>10 DEF CheckContext, OpenSource, CreateDestination, FileJob
<1>11. CASE CopyBlock(v) \/ EndCopy(v) \/ TruncateFile(v) \/ WriteContent(v)
  <2>1. job[v].op # "wait"
    BY <1>11 DEF CopyBlock, EndCopy, TruncateFile, WriteContent, ClockAt
  <2> QED
    BY <1>8, <1>11, <2>1 DEF CopyBlock, EndCopy, TruncateFile, WriteContent
<1>12. CASE ReadBlock(v) \/ EndChecksum(v) \/ Stat(v)
  BY <1>8, <1>12 DEF ReadBlock, EndChecksum, Stat
<1> QED
  BY <1>1, <1>2, <1>3, <1>4, <1>5, <1>6, <1>7, <1>9, <1>10, <1>11, <1>12
     DEF StepOf, Progress, FileStep

LEMMA StepClock ==
    Typed /\ Shape /\ Clock /\ IdleLive /\ [Next]_vars => Clock' /\ IdleLive'
<1> SUFFICES ASSUME Typed, Shape, Clock, IdleLive, [Next]_vars PROVE Clock' /\ IdleLive'
  OBVIOUS
<1>1. CASE Next
  <2> PICK v \in Workers : StepOf(v)
    BY <1>1, NextIsStepOf
  <2>1. ASSUME NEW w \in Workers PROVE ClockAt(w)' /\ (phase'[w] = "idle" => ctx'[w] = "live")
    <3>0. ClockAt(w) /\ (phase[w] = "idle" => ctx[w] = "live")
      BY DEF Clock, IdleLive
    <3>1. CASE w = v
      BY <3>0, <3>1, StepRanges, OwnClock
    <3>2. CASE w # v
      <4>1. Aside(w)
        BY <3>2, StepWrites, StepAside
      <4> QED
        BY <3>0, <4>1 DEF ClockAt, Aside, Finished
    <3> QED
      BY <3>1, <3>2
  <2> QED
    BY <2>1 DEF Clock, IdleLive
<1>2. CASE UNCHANGED vars
  BY <1>2 DEF vars, execution, Clock, ClockAt, IdleLive, Finished
<1> QED
  BY <1>1, <1>2

LEMMA ClockHolds == Spec => [](Typed /\ Clock)
<1>1. Init => Clock /\ IdleLive
  BY DEF Init, Clock, ClockAt, IdleLive, Finished, NoJob
<1> QED
  BY <1>1, TypeCorrect, StepClock, PTL DEF Spec

(* AcceptedIsUsable, for any requests: of the keys documented as required, *)
(* Validate lets none be missing but expected_status, and what it accepts  *)
(* is of use to the executor unless such a key is mistyped, or a duration  *)
(* not positive.                                                           *)
THEOREM AcceptedCorrect == Spec => []AcceptedIsUsable
<1> DEFINE Good(t, f) ==
        /\ Documented(t.op) \cap f.missing \subseteq {"expected_status"}
        /\ \/ Usable(t, f)
           \/ Documented(t.op) \cap f.mistyped # {}
           \/ t.op = "wait" /\ t.duration <= 0
<1>1. ASSUME NEW t \in Tasks(Paths, Contents), NEW f,
             RequiredKeys(t.op) \cap f.missing = {}
      PROVE  Good(t, f)
  <2>1. CASE t.op \in {"copy_file", "write_file"}
    BY <1>1, <2>1 DEF RequiredKeys, Documented, Usable
  <2>2. CASE t.op \in {"checksum", "file_exists"}
    BY <1>1, <2>2 DEF RequiredKeys, Documented, Usable
  <2>3. CASE t.op \in {"tcp_check", "http_check"}
    BY <1>1, <2>3 DEF RequiredKeys, Documented, Usable
  <2>4. CASE t.op = "wait"
    <3>1. t.duration \in Int
      BY <2>4, TaskFields
    <3> QED
      BY <1>1, <2>4, <3>1 DEF RequiredKeys, Documented, Usable
  <2> QED
    BY <2>1, <2>2, <2>3, <2>4, TaskFields
<1>2. ASSUME Typed, Clock, NEW w \in Workers, phase[w] # "idle"
      PROVE  Good(job[w], form[w])
  <2>1. job[w] \in Tasks(Paths, Contents)
    BY <1>2, JobFields DEF Typed
  <2>2. RequiredKeys(job[w].op) \cap form[w].missing = {}
    BY <1>2 DEF Clock, ClockAt, Accepted
  <2> HIDE DEF Good
  <2> QED
    BY <1>1, <2>1, <2>2
<1>3. Typed /\ Clock => AcceptedIsUsable
  BY <1>2 DEF AcceptedIsUsable
<1> QED
  BY <1>3, ClockHolds, PTL

(* A number that fits is not changed by the conversion.                    *)
LEMMA WrappedFits ==
    ASSUME NEW n \in Nat, 2 * n < Word
    PROVE  Wrapped(n) = n
<1>1. Word \in Nat \ {0} /\ 0 <= n /\ n < Word
  BY ExecutorsAssumption
<1>2. n % Word = n
  BY <1>1
<1> QED
  BY <1>2 DEF Wrapped

(* WaitVerdict, for any durations, timeouts and width of a time.Duration:  *)
(* whatever fits is compared as it was asked for.                          *)
THEOREM WaitCorrect == Spec => []WaitVerdict
<1>1. ASSUME Typed, Clock, NEW w \in Workers, job[w].op = "wait", Usable(job[w], form[w]),
             Fits(job[w].duration), Fits(form[w].timeout)
      PROVE  /\ Finished(w, "SUCCESS") => job[w].duration * Second <= Asked(form[w])
             /\ Finished(w, "FAILED") /\ ctx[w] # "stopped" =>
                    job[w].duration * Second >= Asked(form[w])
  <2>1. SUFFICES ASSUME phase[w] = "returned"
                 PROVE  Timers(job[w]) = {job[w].duration * Second} /\ Limit(form[w]) = Asked(form[w])
    BY <1>1 DEF Clock, ClockAt, Finished, Typed, TypeOK
  <2>2. job[w] \in Tasks(Paths, Contents) /\ form[w] \in Forms
    BY <2>1, <1>1, JobFields DEF Typed
  <2>3. job[w].duration \in Nat \ {0}
    BY <1>1, <2>2, TaskFields DEF Usable
  <2>4. form[w].timeout \in Nat
    BY <1>1, <2>1, <2>2 DEF Clock, ClockAt, Accepted, Forms
  <2>5. Second \in Nat \ {0} /\ Default \in Nat \ {0}
    BY ExecutorsAssumption
  <2>6. Timers(job[w]) = {job[w].duration * Second}
    BY <1>1 DEF Timers, Fits
  <2> DEFINE n == form[w].timeout * Second
  <2>7. n \in Nat /\ (form[w].timeout = 0 => n = 0) /\ (form[w].timeout > 0 => n > 0)
    BY <2>4, <2>5
  <2>8. 2 * n < Word
    BY <1>1 DEF Fits
  <2>9. Limit(form[w]) = IF n > 0 THEN n ELSE Default
    BY <2>7, <2>8, WrappedFits DEF Limit
  <2>10. Limit(form[w]) = Asked(form[w])
    BY <2>4, <2>7, <2>9 DEF Asked
  <2> QED
    BY <2>6, <2>10
<1>2. Typed /\ Clock => WaitVerdict
  BY <1>1 DEF WaitVerdict
<1> QED
  BY <1>2, ClockHolds, PTL

================================================================================
