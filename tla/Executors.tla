------------------------------- MODULE Executors -------------------------------
(***************************************************************************)
(* What happens to a job between its arrival at an agent and its result:   *)
(* pollAndExecute with its timeout, and the seven executors of             *)
(* src/internal/executor.  Agents that run on one host share its files,    *)
(* and nothing keeps two executions off the same path.  The jobs are those *)
(* that Validate (internal/model) has accepted.                            *)
(*                                                                         *)
(* A file is a sequence of blocks; io.Copy moves one block at a time.  A   *)
(* checksum is as good as the sequence of blocks it was computed from.     *)
(* Files are truncated and written in place, never removed.                *)
(***************************************************************************)
EXTENDS Integers, Sequences

CONSTANTS
    Workers,   \* agent processes on one host
    Paths,     \* the files jobs name
    Blocks,    \* what files are made of
    Contents,  \* what files hold at first, and what write_file jobs write
    Hole,      \* a block never written, below the end of a file
    Absent,    \* the content of a file that does not exist
    Statuses,  \* status codes of HTTP responses
    JobsOf,    \* JobsOf[w]: the requests for jobs w is able to run
    Second,    \* time.Second
    Default,   \* the 30 s of a job without a timeout
    Word       \* a time.Duration is a signed integer of this many values

VARIABLES
    file,    \* file[p]: the content of p
    phase,   \* phase[w]: how far the execution of w is
    job,     \* job[w]: what w executes
    form,    \* form[w]: the form of its request
    ctx,     \* ctx[w]: the context of the execution: live, expired or stopped
    at,      \* at[w]: the blocks copied or read so far
    read,    \* read[w]: those blocks, for a checksum
    answer,  \* answer[w]: the status code an http_check was answered with, 0: none
    result,  \* result[w]: Result.Status
    clean,   \* clean[w]: no other execution has written a file of job[w]
    before   \* before[w]: the files of job[w] when its execution began

execution == <<phase, job, form, at, read, answer, result, before>>
vars == <<file, execution, ctx, clean>>

-------------------------------------------------------------------------------
(* The jobs over some paths and contents.  A job without an expected       *)
(* checksum expects Absent; content that is no string is read as empty.    *)
Tasks(paths, contents) ==
         [op : {"copy_file"}, source : paths, destination : paths]
    \cup [op : {"write_file"}, destination : paths, content : contents \cup {<< >>}]
    \cup [op : {"checksum"}, source : paths, expected : contents \cup {Absent}]
    \cup [op : {"file_exists"}, source : paths]
    \cup [op : {"wait"}, duration : Int]
    \cup [op : {"tcp_check"}]
    \cup [op : {"http_check"}, status : Statuses]

(* The keys Validate asks for, and the one that only an executor reads.    *)
Keys == {"url", "expected_status", "address", "path", "source", "destination", "content",
         "duration_seconds"}

(* What else a request says: the keys its payload lacks, those whose value *)
(* has the wrong type or is empty, and timeout_seconds.                    *)
Forms == [missing : SUBSET Keys, mistyped : SUBSET Keys, timeout : Int]

Plain == [missing |-> {}, mistyped |-> {}, timeout |-> 0]

(* A slip: validation forgets the second key of a copy.                    *)
RequiredKeysButOne(op) ==
    [http_check |-> {"url"}, tcp_check |-> {"address"}, file_exists |-> {"path"},
     checksum |-> {"path"}, copy_file |-> {"source"}, write_file |-> {"path", "content"},
     wait |-> {"duration_seconds"}][op]

(* The keys CreateJobRequest.Validate asks for.                            *)
RequiredKeys(op) ==
    [http_check |-> {"url"}, tcp_check |-> {"address"}, file_exists |-> {"path"},
     checksum |-> {"path"}, copy_file |-> {"source", "destination"},
     write_file |-> {"path", "content"}, wait |-> {"duration_seconds"}][op]

(* The request passes Validate.                                            *)
Accepted(j) ==
    /\ RequiredKeys(j.task.op) \cap j.form.missing = {}
    /\ j.form.timeout >= 0

(* The keys without whose value an executor returns at once; write_file    *)
(* asks only that there is some content.                                   *)
Usable(t, f) ==
    LET bad == f.missing \cup f.mistyped IN
    /\ t.op = "http_check" => "url" \notin bad
    /\ t.op = "tcp_check" => "address" \notin bad
    /\ t.op \in {"file_exists", "checksum", "write_file"} => "path" \notin bad
    /\ t.op = "write_file" => "content" \notin f.missing
    /\ t.op = "copy_file" => {"source", "destination"} \cap bad = {}
    /\ t.op = "wait" => "duration_seconds" \notin bad /\ t.duration > 0

(* The status an http_check compares the answer with; 200 stands for a     *)
(* number that is missing or cannot be read.                               *)
ExpectedStatus(t, f) ==
    IF "expected_status" \in f.missing \cup f.mistyped THEN 200 ELSE t.status

FileJob(w) == job[w].op \in {"copy_file", "write_file", "checksum", "file_exists"}

(* The paths a job names.                                                  *)
PathsOf(j) ==
    {j[k] : k \in DOMAIN j \cap {"source", "destination"}}

ASSUME ExecutorsAssumption ==
    /\ JobsOf \in [Workers -> SUBSET [task : Tasks(Paths, Contents), form : Forms]]
    /\ Contents \subseteq Seq(Blocks)
    /\ Absent \notin Seq(Blocks \cup {Hole})
    /\ Statuses \subseteq Nat
    /\ Second \in Nat \ {0} /\ Default \in Nat \ {0} /\ Word \in Nat \ {0}

NoJob == [op |-> "none"]

NoFiles == [p \in {} |-> Absent]

Init ==
    /\ file \in [Paths -> Contents \cup {Absent}]
    /\ phase = [w \in Workers |-> "idle"]
    /\ job = [w \in Workers |-> NoJob]
    /\ form = [w \in Workers |-> Plain]
    /\ ctx = [w \in Workers |-> "live"]
    /\ at = [w \in Workers |-> 0]
    /\ read = [w \in Workers |-> << >>]
    /\ answer = [w \in Workers |-> 0]
    /\ result = [w \in Workers |-> "none"]
    /\ clean = [w \in Workers |-> TRUE]
    /\ before = [w \in Workers |-> NoFiles]

-------------------------------------------------------------------------------
(* w takes a step of its executor.                                         *)
Step(w, from, to) == phase[w] = from /\ phase' = [phase EXCEPT ![w] = to]

(* The executor returns.                                                   *)
Return(w, from, status) ==
    /\ Step(w, from, "returned")
    /\ result' = [result EXCEPT ![w] = status]
    /\ UNCHANGED <<job, form, at, read, answer, before>>

GoOn(w, from, to) ==
    Step(w, from, to) /\ UNCHANGED <<job, form, at, read, answer, result, before>>

(* w writes p; executions of others that use p are not clean any more.     *)
Write(w, p, content) ==
    /\ file' = [file EXCEPT ![p] = content]
    /\ clean' = [v \in Workers |->
                    clean[v] /\ (v = w \/ phase[v] = "idle" \/ p \notin PathsOf(job[v]))]

WriteNothing == UNCHANGED <<file, clean>>

(* The content after a write of b as block n.                              *)
WithBlock(content, n, b) ==
    [i \in 1 .. (IF n > Len(content) THEN n ELSE Len(content)) |->
        IF i = n THEN b ELSE IF i <= Len(content) THEN content[i] ELSE Hole]

(* The content after a write of new from the start.                        *)
WithPrefix(content, new) ==
    [i \in 1 .. (IF Len(new) > Len(content) THEN Len(new) ELSE Len(content)) |->
        IF i <= Len(new) THEN new[i] ELSE content[i]]

-------------------------------------------------------------------------------
(* pollAndExecute.                                                         *)

Begin(w, j) ==
    /\ Accepted(j)
    /\ Step(w, "idle", "started")
    /\ job' = [job EXCEPT ![w] = j.task]
    /\ form' = [form EXCEPT ![w] = j.form]
    /\ before' = [before EXCEPT ![w] = [p \in PathsOf(j.task) |-> file[p]]]
    /\ UNCHANGED <<file, ctx, at, read, answer, result, clean>>

(* The signed integer of Word values that n wraps to.                      *)
Wrapped(n) ==
    LET m == n % Word IN IF 2 * m < Word THEN m ELSE m - Word

(* A slip: a job without a timeout is given none.                          *)
LimitWithoutDefault(f) == Wrapped(f.timeout * Second)

(* The timeout of the execution.                                           *)
Limit(f) ==
    LET t == Wrapped(f.timeout * Second) IN IF t > 0 THEN t ELSE Default

(* The duration of a wait, converted from floating point: what becomes of  *)
(* one that does not fit depends on the processor.                         *)
Timers(t) ==
    LET d == t.duration * Second
        most == Wrapped(Word \div 2 - 1)
    IN  IF 2 * d < Word THEN {d} ELSE {most, - most - 1}

(* A slip: the executor is given a context without the timeout.            *)
NoDeadline(w) == FALSE /\ UNCHANGED vars

(* The timeout is over; a wait whose timer is earlier has ended by then.   *)
Expire(w) ==
    /\ phase[w] \notin {"idle", "returned"}
    /\ ctx[w] = "live"
    /\ job[w].op = "wait" /\ phase[w] = "started" /\ Usable(job[w], form[w]) =>
           \E t \in Timers(job[w]) : Limit(form[w]) <= t
    /\ ctx' = [ctx EXCEPT ![w] = "expired"]
    /\ UNCHANGED <<file, execution, clean>>

(* The agent is stopped; for a job that is no wait, whose timeout may be   *)
(* over at any moment, that makes no difference.                           *)
Stop(w) ==
    /\ phase[w] = "started" /\ job[w].op = "wait"
    /\ ctx[w] = "live"
    /\ ctx' = [ctx EXCEPT ![w] = "stopped"]
    /\ UNCHANGED <<file, execution, clean>>

(* The executor cannot use the payload.                                    *)
Refuse(w) ==
    /\ ~ Usable(job[w], form[w])
    /\ Return(w, "started", "FAILED")
    /\ WriteNothing /\ UNCHANGED ctx

(* SubmitResult; the locals of the execution are gone.                     *)
Submit(w) ==
    /\ Step(w, "returned", "idle")
    /\ job' = [job EXCEPT ![w] = NoJob]
    /\ form' = [form EXCEPT ![w] = Plain]
    /\ ctx' = [ctx EXCEPT ![w] = "live"]
    /\ at' = [at EXCEPT ![w] = 0]
    /\ read' = [read EXCEPT ![w] = << >>]
    /\ answer' = [answer EXCEPT ![w] = 0]
    /\ result' = [result EXCEPT ![w] = "none"]
    /\ clean' = [clean EXCEPT ![w] = TRUE]
    /\ before' = [before EXCEPT ![w] = NoFiles]
    /\ UNCHANGED file

-------------------------------------------------------------------------------
(* The one look at the context that an executor of a file job takes.       *)
CheckContext(w) ==
    /\ FileJob(w) /\ Usable(job[w], form[w])
    /\ \/ ctx[w] = "live" /\ GoOn(w, "started", "checked")
       \/ ctx[w] # "live" /\ Return(w, "started", "FAILED")
    /\ WriteNothing /\ UNCHANGED ctx

(* A slip: the error is ignored.                                           *)
OpenSourceUnchecked(w) ==
    /\ job[w].op \in {"copy_file", "checksum"}
    /\ GoOn(w, "checked", "opened")
    /\ WriteNothing /\ UNCHANGED ctx

(* os.Open, which may fail for other reasons than a file that is missing.  *)
OpenSource(w) ==
    /\ job[w].op \in {"copy_file", "checksum"}
    /\ \/ file[job[w].source] # Absent /\ GoOn(w, "checked", "opened")
       \/ Return(w, "checked", "FAILED")
    /\ WriteNothing /\ UNCHANGED ctx

(* A slip: the destination is created before the source is opened.         *)
CreateDestinationFirst(w) ==
    /\ job[w].op = "copy_file"
    /\ \/ GoOn(w, "opened", "copying")
       \/ file[job[w].source] = Absent /\ Return(w, "checked", "FAILED")
    /\ Write(w, job[w].destination, << >>)
    /\ UNCHANGED ctx

(* os.Create: the file is empty from now on.                               *)
CreateDestination(w) ==
    /\ job[w].op = "copy_file"
    /\ \/ GoOn(w, "opened", "copying") /\ Write(w, job[w].destination, << >>)
       \/ Return(w, "opened", "FAILED") /\ WriteNothing
    /\ UNCHANGED ctx

AtEnd(w) == at[w] >= Len(file[job[w].source])

(* One round of io.Copy, or an I/O error.                                  *)
CopyBlock(w) ==
    /\ phase[w] = "copying" /\ ~ AtEnd(w)
    /\ LET n == at[w] + 1
           d == job[w].destination
       IN  \/ /\ Step(w, "copying", "copying")
              /\ Write(w, d, WithBlock(file[d], n, file[job[w].source][n]))
              /\ at' = [at EXCEPT ![w] = n]
              /\ UNCHANGED <<job, form, read, answer, result, before>>
           \/ Return(w, "copying", "FAILED") /\ WriteNothing
    /\ UNCHANGED ctx

(* A slip: a short copy is taken for a complete one.                       *)
EndCopyShort(w) ==
    /\ phase[w] = "copying"
    /\ Return(w, "copying", "SUCCESS")
    /\ WriteNothing /\ UNCHANGED ctx

EndCopy(w) ==
    /\ phase[w] = "copying" /\ AtEnd(w)
    /\ Return(w, "copying", "SUCCESS")
    /\ WriteNothing /\ UNCHANGED ctx

(* os.WriteFile opens and truncates, then writes.                          *)
TruncateFile(w) ==
    /\ job[w].op = "write_file"
    /\ \/ GoOn(w, "checked", "truncated") /\ Write(w, job[w].destination, << >>)
       \/ Return(w, "checked", "FAILED") /\ WriteNothing
    /\ UNCHANGED ctx

(* All blocks are written, or some and then there is an I/O error.         *)
WriteContent(w) ==
    /\ phase[w] = "truncated"
    /\ LET d == job[w].destination
           content == job[w].content
       IN  \/ /\ Return(w, "truncated", "SUCCESS")
              /\ Write(w, d, WithPrefix(file[d], content))
           \/ /\ Return(w, "truncated", "FAILED")
              /\ \E n \in 0 .. Len(content) :
                     Write(w, d, WithPrefix(file[d], SubSeq(content, 1, n)))
    /\ UNCHANGED ctx

(* One round of the io.Copy into the hash, or an I/O error.                *)
ReadBlock(w) ==
    /\ phase[w] = "opened" /\ job[w].op = "checksum"
    /\ ~ AtEnd(w)
    /\ LET n == at[w] + 1 IN
           \/ /\ Step(w, "opened", "opened")
              /\ read' = [read EXCEPT ![w] = Append(@, file[job[w].source][n])]
              /\ at' = [at EXCEPT ![w] = n]
              /\ UNCHANGED <<job, form, answer, result, before>>
           \/ Return(w, "opened", "FAILED")
    /\ WriteNothing /\ UNCHANGED ctx

(* The checksum is compared with the one expected, if any.                 *)
EndChecksum(w) ==
    /\ phase[w] = "opened" /\ job[w].op = "checksum"
    /\ AtEnd(w)
    /\ Return(w, "opened",
              IF job[w].expected \in {Absent, read[w]} THEN "SUCCESS" ELSE "FAILED")
    /\ WriteNothing /\ UNCHANGED ctx

(* os.Stat, which may fail for a file that is there.                       *)
Stat(w) ==
    /\ job[w].op = "file_exists"
    /\ \/ file[job[w].source] # Absent /\ Return(w, "checked", "SUCCESS")
       \/ Return(w, "checked", "FAILED")
    /\ WriteNothing /\ UNCHANGED ctx

-------------------------------------------------------------------------------
(* The executors that select on the context, or hand it on, all the time.  *)

(* Client.Do returns an answer, of the expected status or not, or an error.*)
HTTPCheck(w) ==
    /\ job[w].op = "http_check" /\ Usable(job[w], form[w])
    /\ \/ \E s \in Statuses :
              /\ Step(w, "started", "returned")
              /\ answer' = [answer EXCEPT ![w] = s]
              /\ result' = [result EXCEPT ![w] =
                      IF s = ExpectedStatus(job[w], form[w]) THEN "SUCCESS" ELSE "FAILED"]
              /\ UNCHANGED <<job, form, at, read, before>>
       \/ Return(w, "started", "FAILED")
    /\ WriteNothing /\ UNCHANGED ctx

(* The dialer connects or fails, by its own timeout at the latest.         *)
TCPCheck(w) ==
    /\ job[w].op = "tcp_check" /\ Usable(job[w], form[w])
    /\ \E status \in {"SUCCESS", "FAILED"} : Return(w, "started", status)
    /\ WriteNothing /\ UNCHANGED ctx

(* The timer fires; if the context is done too, select may choose either.  *)
Wait(w) ==
    /\ job[w].op = "wait" /\ Usable(job[w], form[w])
    /\ \E t \in Timers(job[w]) : t <= Limit(form[w])
    /\ Return(w, "started", "SUCCESS")
    /\ WriteNothing /\ UNCHANGED ctx

Interrupted(w) ==
    /\ ~ FileJob(w) /\ Usable(job[w], form[w]) /\ ctx[w] # "live"
    /\ Return(w, "started", "FAILED")
    /\ WriteNothing /\ UNCHANGED ctx

-------------------------------------------------------------------------------
FileStep(w) ==
    \/ CheckContext(w) \/ OpenSource(w) \/ CreateDestination(w)
    \/ CopyBlock(w) \/ EndCopy(w) \/ TruncateFile(w) \/ WriteContent(w)
    \/ ReadBlock(w) \/ EndChecksum(w) \/ Stat(w)

(* What goes on by itself; an answer to http_check may never come.         *)
Progress(w) ==
    Refuse(w) \/ FileStep(w) \/ TCPCheck(w) \/ Wait(w) \/ Interrupted(w) \/ Submit(w)

Next ==
    \E w \in Workers :
        \/ \E j \in JobsOf[w] : Begin(w, j)
        \/ Expire(w) \/ Stop(w)
        \/ HTTPCheck(w)
        \/ Progress(w)

Spec == Init /\ [][Next]_vars

(* Calls on files return, and time passes.                                 *)
Fairness == \A w \in Workers : WF_vars(Progress(w)) /\ WF_vars(Expire(w))

FairSpec == Spec /\ Fairness

-------------------------------------------------------------------------------
Phases ==
    {"idle", "started", "checked", "opened", "copying", "truncated", "returned"}

(* Types; a file an execution is reading or writing exists.                *)
TypeOK ==
    /\ DOMAIN file = Paths
    /\ phase \in [Workers -> Phases]
    /\ \A w \in Workers :
           IF phase[w] = "idle" THEN job[w] = NoJob /\ form[w] = Plain
           ELSE [task |-> job[w], form |-> form[w]] \in JobsOf[w]
    /\ ctx \in [Workers -> {"live", "expired", "stopped"}]
    /\ at \in [Workers -> Nat]
    /\ \A w \in Workers : job[w].op = "checksum" => Len(read[w]) = at[w]
    /\ answer \in [Workers -> Statuses \cup {0}]
    /\ result \in [Workers -> {"none", "SUCCESS", "FAILED"}]
    /\ clean \in [Workers -> BOOLEAN]
    /\ \A w \in Workers :
           /\ phase[w] \in {"opened", "copying"} => file[job[w].source] # Absent
           /\ phase[w] \in {"copying", "truncated"} => file[job[w].destination] # Absent

Finished(w, status) == phase[w] = "returned" /\ result[w] = status

(* What the SUCCESS of an execution tells: the copy holds what the source  *)
(* held when the job began, except that nothing is said of a file that is  *)
(* copied onto itself (CopyIsFaithful, below, shows what happens to it);   *)
(* the file holds what was to be written; the checksum is the file's and   *)
(* as expected; the file exists; the endpoint answered with the status     *)
(* asked for, if one was given that can be read.                           *)
Faithful(w) ==
    LET j == job[w] IN
    /\ j.op = "copy_file" /\ j.source # j.destination =>
           /\ file[j.destination] = before[w][j.source]
           /\ file[j.source] = before[w][j.source]
    /\ j.op = "write_file" => file[j.destination] = j.content
    /\ j.op = "checksum" =>
           read[w] = file[j.source] /\ j.expected \in {Absent, read[w]}
    /\ j.op = "file_exists" => file[j.source] # Absent
    /\ j.op = "http_check" /\ "expected_status" \notin form[w].missing \cup form[w].mistyped =>
           answer[w] = j.status

(* An execution whose files nobody else wrote meanwhile tells the truth    *)
(* when it reports SUCCESS, unless it copies a file onto itself.           *)
SuccessIsFaithful ==
    \A w \in Workers : Finished(w, "SUCCESS") /\ clean[w] => Faithful(w)

(* A job that fails because its source is missing has changed nothing.     *)
MissingSourceHarmless ==
    \A w \in Workers : Finished(w, "FAILED") /\ clean[w] =>
        LET j == job[w] IN
        j.op = "copy_file" /\ before[w][j.source] = Absent =>
            file[j.destination] = before[w][j.destination]

(* The keys that the doc comments of the executors list as required.       *)
Documented(op) ==
    [http_check |-> {"url", "expected_status"}, tcp_check |-> {"address"},
     file_exists |-> {"path"}, checksum |-> {"path"}, copy_file |-> {"source", "destination"},
     write_file |-> {"path", "content"}, wait |-> {"duration_seconds"}][op]

(* No agent is given a job that lacks a key documented as required, but    *)
(* for one: http_check.go:15-17 requires expected_status, and neither      *)
(* Validate nor the executor does.  And what Validate accepts an executor  *)
(* can use, unless the value of such a key has the wrong type or is empty, *)
(* or is the duration of a wait and not positive.                          *)
AcceptedIsUsable ==
    \A w \in Workers : phase[w] # "idle" =>
        LET t == job[w]  f == form[w]  keys == Documented(t.op) IN
        /\ keys \cap f.missing \subseteq {"expected_status"}
        /\ \/ Usable(t, f)
           \/ keys \cap f.mistyped # {}
           \/ t.op = "wait" /\ t.duration <= 0

(* The timeout a request asks for, and whether it fits a time.Duration.    *)
Asked(f) == IF f.timeout = 0 THEN Default ELSE f.timeout * Second

Fits(seconds) == 2 * (seconds * Second) < Word

(* A wait ends by its timer or by its timeout, whichever is earlier: it    *)
(* succeeds only within the timeout asked for, and it fails only when that *)
(* is over, as long as no number overflows.                                *)
WaitVerdict ==
    \A w \in Workers :
        LET t == job[w]  f == form[w] IN
        t.op = "wait" /\ Usable(t, f) /\ Fits(t.duration) /\ Fits(f.timeout) =>
            /\ Finished(w, "SUCCESS") => t.duration * Second <= Asked(f)
            /\ Finished(w, "FAILED") /\ ctx[w] # "stopped" => t.duration * Second >= Asked(f)

(* Every execution ends, whether or not the other side ever answers.       *)
ExecutionEnds == \A w \in Workers : phase[w] = "started" ~> phase[w] = "idle"

-------------------------------------------------------------------------------
(* What the documentation says and the code does not do.                   *)

(* copy_file.go: the executor copies a file from source to destination;    *)
(* here, for any source and destination.                                   *)
CopyIsFaithful ==
    \A w \in Workers : Finished(w, "SUCCESS") /\ clean[w] /\ job[w].op = "copy_file" =>
        file[job[w].destination] = before[w][job[w].source]

(* README: the context is propagated through executors for timeout and     *)
(* cancellation; so a copy makes no progress once it is done.              *)
TimeoutStops ==
    [][\A w \in Workers :
           ctx[w] # "live" /\ phase[w] = "copying" => at'[w] = at[w]]_vars

===============================================================================
