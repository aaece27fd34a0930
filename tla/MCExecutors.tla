----------------------------- MODULE MCExecutors ------------------------------
(* Instances of Executors for TLC.                                         *)
EXTENDS Executors, TLC

CONSTANTS w1, w2, p, q, a, b

TwoContents == {<<a, a>>, <<b>>}

Copy(from, to) == [op |-> "copy_file", source |-> from, destination |-> to]
Put(to, new) == [op |-> "write_file", destination |-> to, content |-> new]
Check(path) == [op |-> "checksum", source |-> path, expected |-> <<a, a>>]
Exists(path) == [op |-> "file_exists", source |-> path]
Connect == [op |-> "tcp_check"]
Get(status) == [op |-> "http_check", status |-> status]
Nap(duration) == [op |-> "wait", duration |-> duration]

Request(task) == [task |-> task, form |-> Plain]

Malformed(task, missing, mistyped) ==
    [task |-> task, form |-> [missing |-> missing, mistyped |-> mistyped, timeout |-> 0]]

Sleep(duration, timeout) ==
    [task |-> Nap(duration), form |-> [Plain EXCEPT !.timeout = timeout]]

(* Waits that end before the timeout, after it, and at the same moment;    *)
(* timeouts that wrap to a negative number and to a small one; a duration  *)
(* that does not fit; a timeout that is not accepted.                      *)
Sleeps == {Sleep(1, 0), Sleep(3, 0), Sleep(1, 1), Sleep(2, 5), Sleep(2, 9), Sleep(5, 3),
           Sleep(1, -1)}

(* Requests that lack a key documented as required, for each type and key; *)
(* Validate accepts the last one only.                                     *)
Lacking ==
    { Malformed(Copy(p, q), {"source"}, {}), Malformed(Copy(p, q), {"destination"}, {}),
      Malformed(Put(q, <<b>>), {"path"}, {}), Malformed(Put(q, << >>), {"content"}, {}),
      Malformed(Check(q), {"path"}, {}), Malformed(Exists(p), {"path"}, {}),
      Malformed(Connect, {"address"}, {}), Malformed(Get(200), {"url"}, {}),
      Malformed(Nap(1), {"duration_seconds"}, {}),
      Malformed(Get(204), {"expected_status"}, {}) }

(* Requests with a value that has the wrong type, all of them accepted.    *)
Mistyped ==
    { Malformed(Copy(p, q), {}, {"source"}), Malformed(Put(q, << >>), {}, {"content"}),
      Malformed(Get(204), {}, {"expected_status"}), Malformed(Get(200), {}, {"url"}),
      Malformed(Connect, {}, {"address"}), Malformed(Nap(1), {}, {"duration_seconds"}) }

(* The first agent runs every type of job; the second copies between the   *)
(* same two files.                                                         *)
AllAndCopy ==
    w1 :> ( {Request(t) : t \in
               {Copy(p, q), Put(q, <<b>>), Check(q), Exists(p), Connect, Get(200), Get(204)}}
            \cup Sleeps \cup Lacking \cup Mistyped )
 @@ w2 :> {Request(Copy(q, p))}

OneCopy == w1 :> {Request(Copy(p, q))}

CopyOntoItself == w1 :> {Request(Copy(p, p))}

===============================================================================
