------------------------------ MODULE RequestLog ------------------------------
(***************************************************************************)
(* How the failure of a request is reported: the metrics collector and the *)
(* TCP server's log filter inside MosDNS, and the writers through which    *)
(* cmd/veladns/process.go passes the output of the MosDNS process, which   *)
(* leave out an internal deadline warning when the same query was already  *)
(* reported at the request boundary.                                       *)
(*                                                                         *)
(* Requests log their lines in any order; the two pipes of the process are *)
(* read by one writer each, and the writers share one deduper.  A writer   *)
(* judges a line and prints it in two steps.  MosDNS numbers its requests  *)
(* from one again after every restart.                                     *)
(***************************************************************************)
EXTENDS Integers, Sequences, SequencesExt

CONSTANTS
    MaxRequests,    \* bound: how many requests come in, over all processes
    Listeners,      \* the listeners requests come in by
    Window,         \* childLogDedupeWindow, in time units
    MaxGen          \* bound: how many MosDNS processes are started

ASSUME LogAssumption ==
    /\ Listeners \subseteq {"main_udp", "main_tcp", "secure_udp", "secure_tcp"}
    /\ {Window, MaxGen, MaxRequests} \subseteq Nat \ {0}

(* The query ids (uqid) that a MosDNS process gives out, in order. *)
Ids == 1 .. MaxRequests

Stream == {"stdout", "stderr"}

(* How a request ends: with an answer, at its deadline, because its client *)
(* went away, or with some other error.                                    *)
End == {"answer", "deadline", "canceled", "other"}

(* A log line: the boundary report of a listener, or an internal warning   *)
(* (of classify_lookup, forward_unbound or recursive_unbound).  Of its     *)
(* text only the words "context deadline exceeded" matter, unless it was   *)
(* cut off before its end.                                                 *)
Line == [tag : Listeners \cup {"internal"}, text : {"deadline", "other", "cut"},
         id : Ids, gen : 1 .. MaxGen]

VARIABLES
    begun,          \* how many requests have come in so far
    gen,            \* which MosDNS process this is
    up,             \* whether it is running
    request,        \* per id: "new", "running" or "done"
    thread,         \* the collector's gauge of requests in work
    counter,        \* per id: the collector's counter the request went to
    todo,           \* lines that requests are about to log
    pipe, hand,     \* per stream: lines on their way, and the line to print
    broken,         \* per stream: the writer has met a write error
    boundaries,     \* per id: age of the boundary report; Window + 1 is none
    printed,        \* requests whose boundary report was printed,
    lost,           \* ... could not be written,
    unlogged,       \* ... or died with the process
    suppressed      \* requests of which an internal warning was left out

processVars == <<begun, gen, up, request, thread, counter>>
writerVars == <<pipe, hand, broken, boundaries>>
vars == <<processVars, todo, writerVars, printed, suppressed, lost, unlogged>>

TypeOK ==
    /\ begun \in 0 .. MaxRequests /\ gen \in 1 .. MaxGen /\ up \in BOOLEAN
    /\ request \in [Ids -> {"new", "running", "done"}]
    /\ thread \in 0 .. MaxRequests
    /\ counter \in [Ids -> {"none", "err_total", "canceled_total"}]
    /\ pipe \in [Stream -> Seq(Line)]
    /\ hand \in [Stream -> Seq(Line)]
    /\ broken \in [Stream -> BOOLEAN]
    /\ boundaries \in [Ids -> 0 .. Window + 1]
    /\ todo \subseteq Line
    /\ printed \cup lost \cup unlogged \cup suppressed \subseteq Ids \X (1 .. MaxGen)

(* The requests, over all processes, whose boundary reports are among lines. *)
reports(lines) == {<<l.id, l.gen>> : l \in {x \in lines : x.tag # "internal"}}

(* A process that ends takes its requests and metrics with it. *)
forget ==
    /\ request' = [i \in Ids |-> "new"]
    /\ thread' = 0
    /\ counter' = [i \in Ids |-> "none"]

Init ==
    /\ begun = 0 /\ gen = 1 /\ up = TRUE
    /\ request = [i \in Ids |-> "new"]
    /\ thread = 0
    /\ counter = [i \in Ids |-> "none"]
    /\ todo = {}
    /\ pipe = [s \in Stream |-> <<>>]
    /\ hand = [s \in Stream |-> <<>>]
    /\ broken = [s \in Stream |-> FALSE]
    /\ boundaries = [i \in Ids |-> Window + 1]
    /\ printed = {} /\ suppressed = {} /\ lost = {} /\ unlogged = {}

-----------------------------------------------------------------------------
(* Inside MosDNS.                                                          *)

(* cancelclassify: the error tells that the client went away. *)
Expected(end) == end = "canceled"

(* collector.Exec up to the next plugin. *)
Begin(i) ==
    /\ up /\ request[i] = "new" /\ \A j \in 1 .. i - 1 : request[j] # "new"
    /\ begun < MaxRequests
    /\ begun' = begun + 1
    /\ request' = [request EXCEPT ![i] = "running"]
    /\ thread' = thread + 1
    /\ UNCHANGED <<gen, up, counter, todo, writerVars, printed, suppressed, lost, unlogged>>

(* Mutant: an error is given back before the deferred decrement runs once more. *)
collectTwice(i, end) ==
    /\ thread' = IF end \in {"answer", "canceled"} THEN thread - 1 ELSE thread - 2
    /\ counter' = [counter EXCEPT ![i] =
            CASE end = "answer" -> "none"
              [] Expected(end) -> "canceled_total"
              [] OTHER -> "err_total"]

(* collector.Exec after the next plugin. *)
collect(i, end) ==
    /\ thread' = thread - 1
    /\ counter' = [counter EXCEPT ![i] =
            CASE end = "answer" -> "none"
              [] Expected(end) -> "canceled_total"
              [] OTHER -> "err_total"]

(* cancellationCore: the TCP server's entry errors that only tell of a     *)
(* client that went away are counted and not logged.                       *)
withheld(tag, end) == tag \in {"main_tcp", "secure_tcp"} /\ Expected(end)

(* A request ends.  The handler logs an error at the boundary; branches of *)
(* a fallback log theirs whether or not the request got its answer.        *)
Finish(i, tag, end) ==
    /\ up /\ request[i] = "running"
    /\ request' = [request EXCEPT ![i] = "done"]
    /\ collect(i, end)
    /\ LET line(from, text) == [tag |-> from, text |-> text, id |-> i, gen |-> gen]
           entry == IF end = "answer" \/ withheld(tag, end) THEN {}
                    ELSE {line(tag, IF end = "deadline" THEN "deadline" ELSE "other")}
       IN  \E internal \in SUBSET {line("internal", "deadline")} :
                todo' = todo \cup entry \cup internal
    /\ UNCHANGED <<begun, gen, up, writerVars, printed, suppressed, lost, unlogged>>

(* A line goes into one of the pipes; nobody reads a broken one any more. *)
Log(line, s) ==
    /\ up /\ line \in todo
    /\ todo' = todo \ {line}
    /\ pipe' = IF broken[s] THEN pipe ELSE [pipe EXCEPT ![s] = Append(@, line)]
    /\ lost' = IF broken[s] THEN lost \cup reports({line}) ELSE lost
    /\ UNCHANGED <<processVars, hand, broken, boundaries, printed, suppressed, unlogged>>

(* The process dies, perhaps in the middle of a line. *)
Die ==
    /\ up
    /\ up' = FALSE
    /\ forget
    /\ unlogged' = unlogged \cup reports(todo)
    /\ todo' = {}
    /\ \E cut \in SUBSET {s \in Stream : pipe[s] # <<>>} :
            pipe' = [s \in Stream |->
                IF s \in cut THEN [pipe[s] EXCEPT ![Len(pipe[s])].text = "cut"] ELSE pipe[s]]
    /\ UNCHANGED <<begun, gen, hand, broken, boundaries, printed, suppressed, lost>>

-----------------------------------------------------------------------------
(* The log writers of the parent process.                                  *)

isBoundary(line) == line.text = "deadline" /\ line.tag \in {"main_tcp", "main_udp"}

(* childLogDeduper.suppress, its verdict. *)
suppress(line) ==
    /\ line.tag = "internal" /\ line.text = "deadline"
    /\ boundaries[line.id] <= Window

(* A writer takes the next line out of what it was given and judges it. *)
judge(s) ==
    LET line == Head(pipe[s]) IN
    /\ hand[s] = <<>> /\ pipe[s] # <<>>
    /\ pipe' = [pipe EXCEPT ![s] = Tail(@)]
    /\ IF suppress(line)
       THEN suppressed' = suppressed \cup {<<line.id, line.gen>>} /\ UNCHANGED <<hand, boundaries>>
       ELSE /\ hand' = [hand EXCEPT ![s] = <<line>>]
            /\ boundaries' = IF isBoundary(line) THEN [boundaries EXCEPT ![line.id] = 0]
                             ELSE boundaries
            /\ UNCHANGED suppressed
    /\ UNCHANGED <<processVars, todo, broken, printed, lost, unlogged>>

(* childLogWriter.Write: lines that have their end. *)
Write(s) == pipe[s] # <<>> /\ Head(pipe[s]).text # "cut" /\ judge(s)

(* Mutant: what is left when the process has ended is thrown away. *)
FlushNothing(s) ==
    /\ ~up /\ pipe[s] # <<>> /\ Head(pipe[s]).text = "cut"
    /\ pipe' = [pipe EXCEPT ![s] = <<>>]
    /\ UNCHANGED <<processVars, todo, hand, broken, boundaries, printed, suppressed, lost, unlogged>>

(* childLogWriter.Flush: the rest, once the process has ended. *)
Flush(s) == ~up /\ pipe[s] # <<>> /\ Head(pipe[s]).text = "cut" /\ judge(s)

(* The write to the container's own output. *)
Emit(s) ==
    /\ hand[s] # <<>>
    /\ hand' = [hand EXCEPT ![s] = <<>>]
    /\ printed' = printed \cup reports(ToSet(hand[s]))
    /\ UNCHANGED <<processVars, todo, pipe, broken, boundaries, suppressed, lost, unlogged>>

(* That write fails; the copying of the pipe ends with it.  Lines behind   *)
(* it count as lost, although Flush may try them once more.                *)
SinkFails(s) ==
    /\ hand[s] # <<>>
    /\ broken' = [broken EXCEPT ![s] = TRUE]
    /\ lost' = lost \cup reports(ToSet(hand[s] \o pipe[s]))
    /\ hand' = [hand EXCEPT ![s] = <<>>]
    /\ pipe' = [pipe EXCEPT ![s] = <<>>]
    /\ UNCHANGED <<processVars, todo, boundaries, printed, suppressed, unlogged>>

(* Mutant: the deduper is made once for all processes. *)
newDeduperOnce == UNCHANGED boundaries

newDeduper == boundaries' = [i \in Ids |-> Window + 1]

(* superviseChild: all output has been read; the next process gets writers *)
(* and a deduper of its own.                                               *)
Restart ==
    /\ ~up /\ gen < MaxGen
    /\ \A s \in Stream : pipe[s] = <<>> /\ hand[s] = <<>>
    /\ gen' = gen + 1
    /\ up' = TRUE
    /\ newDeduper
    /\ broken' = [s \in Stream |-> FALSE]
    /\ UNCHANGED <<begun, request, thread, counter, todo, pipe, hand, printed, suppressed, lost, unlogged>>

Tick ==
    /\ \E i \in Ids : boundaries[i] <= Window
    /\ boundaries' = [i \in Ids |-> IF boundaries[i] <= Window THEN boundaries[i] + 1
                                    ELSE boundaries[i]]
    /\ UNCHANGED <<processVars, todo, pipe, hand, broken, printed, suppressed, lost, unlogged>>

Process ==
    \/ \E i \in Ids : Begin(i) \/ \E tag \in Listeners, end \in End : Finish(i, tag, end)
    \/ \E s \in Stream : \E line \in todo : Log(line, s)

Writer(s) == Write(s) \/ Flush(s) \/ Emit(s)

Next == Process \/ Die \/ Restart \/ Tick \/ \E s \in Stream : Writer(s) \/ SinkFails(s)

Spec == Init /\ [][Next]_vars

(* MosDNS and the writers run; nothing makes the process die. *)
FairSpec == Spec /\ WF_vars(Process) /\ \A s \in Stream : WF_vars(Writer(s))

-----------------------------------------------------------------------------
(* Properties.                                                             *)

(* README: "internal deadline warnings are suppressed only after the same  *)
(* query was reported at the request boundary".  A warning is left out     *)
(* only if the boundary report of the same query of the same process is    *)
(* printed, or its writer holds it, or writing it failed.                  *)
SuppressedOnlyIfReported ==
    suppressed \subseteq printed \cup lost \cup reports(UNION {ToSet(hand[s]) : s \in Stream})

(* A failure that err_total counts is also seen in the log: its boundary   *)
(* report is printed in the end, unless the process died before logging it *)
(* or the output could not be written.                                     *)
FailureReported ==
    \A i \in Ids, g \in 1 .. MaxGen :
        (gen = g /\ counter[i] = "err_total") ~>
            <<i, g>> \in printed \cup lost \cup unlogged
=============================================================================
