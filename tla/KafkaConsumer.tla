---------------------------- MODULE KafkaConsumer ----------------------------
(***************************************************************************)
(* The consume loops of Ivy (ivy/pkg/kafka/consumer.go) and Lotus          *)
(* (lotus/pkg/kafka/consumer.go) on the partitions of a topic: fetch,      *)
(* parse, handle, commit.  They differ in what follows a failed handler,   *)
(* Lotus commits, Ivy does not, and in where a reader starts for which     *)
(* the broker has no offset: Lotus at the end of the partition             *)
(* (LastOffset), Ivy at its beginning (FirstOffset).  The reader of        *)
(* segmentio/kafka-go fetches forward from its own position; a commit of   *)
(* an offset covers every earlier one; with CommitInterval set,            *)
(* CommitMessages only marks the offset and a background loop sends the    *)
(* mark each second; a restart (crash, redeploy or rebalance) resumes at   *)
(* the offset the broker has.  The logs begin where the group first joins. *)
(* The handlers are those of the modules that extend this one              *)
(* (LotusPipeline, IvyIngestion): they run between Call and Return.        *)
(***************************************************************************)
EXTENDS Integers, Sequences, FiniteSets

CONSTANTS
    Partitions,        \* each read by a process of its own
    Service,           \* whose loop this is: "lotus" or "ivy"
    Junk,              \* a value that does not parse
    Logs,              \* Logs[c][p]: the messages of partition p, case by case
    MaxRestarts        \* bound: restarts of the consumers together

ASSUME KafkaConsumerAssumptions ==
    /\ Service \in {"lotus", "ivy"}
    /\ IsFiniteSet(Partitions)
    /\ \A c \in DOMAIN Logs : DOMAIN Logs[c] = Partitions
    /\ \A c \in DOMAIN Logs : \A p \in Partitions : Len(Logs[c][p]) \in Nat
    /\ MaxRestarts \in Nat

VARIABLES
    case,       \* which of the Logs this is
    committed,  \* highest offset the broker has for the group, 0 if it has none
    marked,     \* highest offset given to CommitMessages
    position,   \* highest offset the reader has fetched
    step,       \* "fetch", "parse", "call", "handle" or "commit"
    restarts,
    tried,      \* history: offsets the handler was called with
    handled,    \* history: offsets the handler returned no error for
    failed,     \* history: offsets the handler returned an error for
    skipped     \* history: offsets that a reader without a committed offset started behind

consumer == <<case, committed, marked, position, step, restarts, tried, handled, failed, skipped>>

log == Logs[case]
Offsets(p)  == 1..Len(log[p])
Parses(p, o) == log[p][o] # Junk

\* The message partition p is at.
Message(p) == log[p][position[p]]

Everywhere(x) == [p \in Partitions |-> x]

ConsumerInit ==
    /\ case \in DOMAIN Logs
    /\ committed = Everywhere(0)
    /\ marked = Everywhere(0)
    /\ position = Everywhere(0)
    /\ step = Everywhere("fetch")
    /\ restarts = 0
    /\ tried = Everywhere({})
    /\ handled = Everywhere({})
    /\ failed = Everywhere({})
    /\ skipped = Everywhere({})

\* The loop of p is at step `from' and goes on at `to'.
Goes(p, from, to) == step[p] = from /\ step' = [step EXCEPT ![p] = to]

\* reader.FetchMessage blocks until there is a message.
Fetch(p) ==
    /\ Goes(p, "fetch", "parse")
    /\ position[p] < Len(log[p])
    /\ position' = [position EXCEPT ![p] = @ + 1]
    /\ UNCHANGED <<case, committed, marked, restarts, tried, handled, failed, skipped>>

\* Mutant of Parse: the offset is committed as soon as the message is read.
ParseAndCommit(p) ==
    /\ Goes(p, "parse", IF Parses(p, position[p]) THEN "call" ELSE "fetch")
    /\ marked' = [marked EXCEPT ![p] = position[p]]
    /\ UNCHANGED <<case, committed, position, restarts, tried, handled, failed, skipped>>

\* What does not parse is committed, not handled.
Parse(p) ==
    /\ Goes(p, "parse", IF Parses(p, position[p]) THEN "call" ELSE "commit")
    /\ UNCHANGED <<case, committed, marked, position, restarts, tried, handled, failed, skipped>>

\* The handler is called.
Call(p) ==
    /\ Goes(p, "call", "handle")
    /\ tried' = [tried EXCEPT ![p] = @ \union {position[p]}]
    /\ UNCHANGED <<case, committed, marked, position, restarts, handled, failed, skipped>>

\* The handler returns, with or without an error.
Return(p, ok) ==
    /\ Goes(p, "handle", IF ok \/ Service = "lotus" THEN "commit" ELSE "fetch")
    /\ IF ok THEN handled' = [handled EXCEPT ![p] = @ \union {position[p]}] /\ UNCHANGED failed
       ELSE failed' = [failed EXCEPT ![p] = @ \union {position[p]}] /\ UNCHANGED handled
    /\ UNCHANGED <<case, committed, marked, position, restarts, tried, skipped>>

\* reader.CommitMessages; an error is only logged.
Commit(p) ==
    /\ Goes(p, "commit", "fetch")
    /\ \E m \in {marked[p], position[p]} : marked' = [marked EXCEPT ![p] = m]
    /\ UNCHANGED <<case, committed, position, restarts, tried, handled, failed, skipped>>

\* The reader's commit loop sends the highest mark; a failed send is repeated.
Flush(p) ==
    /\ committed[p] < marked[p]
    /\ committed' = [committed EXCEPT ![p] = marked[p]]
    /\ UNCHANGED <<case, marked, position, step, restarts, tried, handled, failed, skipped>>

\* Where the next owner of the partition starts: at the committed offset.  Without one
\* Lotus starts at the end, wherever that is by now.
Starts(p) == IF Service = "lotus" /\ committed[p] = 0 THEN position[p]..Len(log[p]) ELSE {committed[p]}

\* The next owner of the partition starts over.
Resume(p) ==
    /\ \E o \in Starts(p) :
          /\ position' = [position EXCEPT ![p] = o]
          /\ skipped' = [skipped EXCEPT ![p] = @ \union (committed[p] + 1)..o]
    /\ marked' = [marked EXCEPT ![p] = committed[p]]
    /\ step' = [step EXCEPT ![p] = "fetch"]
    /\ UNCHANGED <<case, committed, tried, handled, failed>>

\* The process dies or loses the partition.
Restart(p) ==
    /\ restarts < MaxRestarts
    /\ restarts' = restarts + 1
    /\ Resume(p)

\* The partition is read to its end.
AtEnd(p) == step[p] = "fetch" /\ position[p] = Len(log[p])

\* Every step of the loop but those of a handler.
ConsumerStep(p) == Fetch(p) \/ Parse(p) \/ Commit(p)

\* The loops with any handler at all: what the modules that extend this one
\* implement.  A process that dies of a panic in its handler starts over, too.
ConsumerNext ==
    \E p \in Partitions :
        \/ ConsumerStep(p) \/ Call(p) \/ Flush(p) \/ Restart(p)
        \/ \E ok \in BOOLEAN : Return(p, ok)
        \/ Resume(p) /\ UNCHANGED restarts

ConsumerSpec == ConsumerInit /\ [][ConsumerNext]_consumer

-----------------------------------------------------------------------------
(* Properties *)

ConsumerTypeOK ==
    /\ case \in DOMAIN Logs
    /\ restarts \in 0..MaxRestarts
    /\ \A p \in Partitions :
         /\ committed[p] \in 0..Len(log[p])
         /\ marked[p] \in committed[p]..Len(log[p])
         /\ position[p] \in marked[p]..Len(log[p])
         /\ step[p] \in {"fetch", "parse", "call", "handle", "commit"}
         /\ handled[p] \union failed[p] \subseteq tried[p]
         /\ tried[p] \subseteq {o \in Offsets(p) : Parses(p, o)}
         /\ skipped[p] \subseteq Offsets(p)

\* Whatever the committed offset covers went through the handler to its return, with or
\* without an error, or could not be parsed: a restart of Ivy skips nothing.  A restart of
\* Lotus skips nothing either once an offset has been committed; before, what it has read
\* or finds published by then is behind it for good.
CommitAfterHandler ==
    \A p \in Partitions : \A o \in 1..committed[p] :
        Parses(p, o) => \/ o \in handled[p] \union failed[p]
                        \/ Service = "lotus" /\ o \in skipped[p]

=============================================================================
