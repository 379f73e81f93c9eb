------------------------ MODULE EntityResolutionProofs ------------------------
(***************************************************************************)
(* Proofs about Ivy's entity resolution, for any entities, values, match   *)
(* rules and instances of the merge consumer.                              *)
(***************************************************************************)
EXTENDS EntityResolution, TLAPS, FiniteSetTheorems, SequenceTheorems, WellFoundedInduction

-----------------------------------------------------------------------------
(* Who is together: the inductive invariants *)

\* The entities a job is about, and the merged entities it may write to.
Involved(j) == {j.e} \cup j.ids \cup j.all
Held(j) == ({j.into} \cup j.from) \ {Nowhere}

Fields == {"step", "e", "ids", "all", "into", "from", "then", "todo", "pair"}
JobOK(j) ==
    /\ DOMAIN j = Fields
    /\ j.e \in Entities /\ j.ids \subseteq Entities /\ j.all \subseteq Entities
    /\ j.into \in Merged \cup {Nowhere} /\ j.from \subseteq Merged
    /\ j.step \in {"move", "rewire", "drop"} => j.from # {}
    /\ j.then \in {"finish", "relate"} /\ j.todo \subseteq Relations

Shape ==
    /\ home \in [Entities -> Merged \cup {Nowhere}]
    /\ DOMAIN index = Entities /\ DOMAIN merged = Merged /\ DOMAIN task = Consumers
    /\ \A c \in Consumers : task[c] = Idle \/ JobOK(task[c])

\* Whatever FindMatches may find was recorded when the later of the two was indexed.
Links ==
    \A e, f \in Entities :
        e # f /\ <<index[e], index[f]>> \in Valid => <<e, f>> \in linked \/ <<f, e>> \in linked

\* Nothing belongs to a merged entity before it is created.
Fresh ==
    \A m \in Merged : merged[m] = "none" =>
        Sources(m) = {} /\ \A c \in Consumers : task[c] # Idle => m \notin Held(task[c])

\* The sources of m, and the entities of the jobs that may write to it.
Ties(m) ==
    Sources(m) \cup {x \in Entities : \E c \in Consumers :
                        task[c] # Idle /\ m \in Held(task[c]) /\ x \in Involved(task[c])}

\* S separates no two entities of T.
Whole(T, S) == \A x, y \in T : x \in S <=> y \in S

Apart(S) ==
    /\ \A m \in Merged : Whole(Ties(m), S)
    /\ \A c \in Consumers : task[c] # Idle => Whole(Involved(task[c]), S)
Together == \A S \in SUBSET Entities : Closed(S) => Apart(S)

MInv == Shape /\ Links /\ Fresh /\ Together

-----------------------------------------------------------------------------
(* Lemmas *)

\* The oldest of some merged entities is one of them.
LEMMA OldestOf ==
  ASSUME NEW ms \in SUBSET Merged, ms # {}
  PROVE  Oldest(ms) \in ms
<1>1. ms \in SUBSET Nat
  BY ResolutionAssumption DEF Merged
<1>2. PICK n \in ms : \A m \in ms : ~(<<m, n>> \in OpToRel(<, Nat))
  BY <1>1, NatLessThanWellFounded, WFMin
<1>3. \A m \in ms : ~(m < n)
  BY <1>1, <1>2 DEF OpToRel
<1>4. \A m \in ms : n <= m
  BY <1>1, <1>3
<1> QED BY <1>4 DEF Oldest

LEMMA JobAt ==
  ASSUME Shape, NEW c \in Consumers, task[c] # Idle
  PROVE  JobOK(task[c])
  BY DEF Shape

\* A step of c that gives it job j.
LEMMA JobGoes ==
  ASSUME Shape, NEW c \in Consumers, NEW j, task' = [task EXCEPT ![c] = j]
  PROVE  DOMAIN task' = Consumers /\ task'[c] = j /\ \A d \in Consumers \ {c} : task'[d] = task[d]
  BY DEF Shape

LEMMA ShapeStep ==
  ASSUME Shape, UNCHANGED <<home, index>>, DOMAIN merged' = Merged,
         NEW c \in Consumers, NEW j, task' = [task EXCEPT ![c] = j], j = Idle \/ JobOK(j)
  PROVE  Shape'
  BY JobGoes DEF Shape, JobOK

LEMMA LinksStay ==
  ASSUME Links, UNCHANGED <<index, linked>>
  PROVE  Links'
  BY DEF Links

\* The merged entities that a step leaves uncreated were so before.
NoneBefore == \A m \in Merged : merged'[m] = "none" => merged[m] = "none"

\* The job of c goes on with no more than it has.
Narrows(c) ==
    task'[c] = Idle \/ /\ task[c] # Idle
                       /\ Involved(task'[c]) \subseteq Involved(task[c])
                       /\ Held(task'[c]) \subseteq Held(task[c])

LEMMA ApartStep ==
  ASSUME NEW S, \A m \in Merged : \E T : Whole(T, S) /\ Ties(m)' \subseteq T,
         \A c \in Consumers : task'[c] # Idle => \E T : Whole(T, S) /\ Involved(task'[c]) \subseteq T
  PROVE  Apart(S)'
<1>1. ASSUME NEW m \in Merged PROVE Whole(Ties(m), S)'
  <2>1. PICK T : Whole(T, S) /\ Ties(m)' \subseteq T
    OBVIOUS
  <2> QED BY <2>1 DEF Whole
<1>2. ASSUME NEW c \in Consumers, task'[c] # Idle PROVE Whole(Involved(task[c]), S)'
  <2>1. PICK T : Whole(T, S) /\ Involved(task'[c]) \subseteq T
    BY <1>2
  <2>2. Involved(task[c])' = Involved(task'[c])
    BY DEF Involved
  <2> QED BY <2>1, <2>2 DEF Whole
<1> QED BY <1>1, <1>2 DEF Apart

LEMMA TogetherStep ==
  ASSUME Together, linked \subseteq linked',
         \A S \in SUBSET Entities : Closed(S) /\ Apart(S) => Apart(S)'
  PROVE  Together'
<1>1. ASSUME NEW S, Closed(S)' PROVE Closed(S)
  BY <1>1 DEF Closed
<1> QED BY <1>1 DEF Together

\* A step after which a merged entity has only sources that were tied to it.
LEMMA Narrowed ==
  ASSUME Shape, Fresh, Together, linked \subseteq linked', NoneBefore,
         \A m \in Merged : Sources(m)' \subseteq Ties(m), \A c \in Consumers : Narrows(c)
  PROVE  Fresh' /\ Together'
<1>1. ASSUME NEW m \in Merged PROVE Ties(m)' \subseteq Ties(m)
  <2>1. ASSUME NEW c \in Consumers, NEW x \in Entities, task'[c] # Idle, m \in Held(task'[c]), x \in Involved(task'[c])
        PROVE  x \in Ties(m)
    BY <2>1 DEF Narrows, Ties
  <2>2. \A c \in Consumers : Held(task[c])' = Held(task'[c]) /\ Involved(task[c])' = Involved(task'[c])
    BY DEF Held, Involved
  <2> QED BY <2>1, <2>2 DEF Ties
<1>2. Fresh'
  <2>1. ASSUME NEW m \in Merged, merged'[m] = "none"
        PROVE  Sources(m)' = {} /\ \A c \in Consumers : task'[c] # Idle => m \notin Held(task'[c])
    <3>1. Sources(m) = {} /\ \A c \in Consumers : task[c] # Idle => m \notin Held(task[c])
      BY <2>1 DEF Fresh, NoneBefore
    <3>2. Ties(m) = {}
      BY <3>1 DEF Ties
    <3> QED BY <3>1, <3>2 DEF Narrows
  <2>2. \A c \in Consumers : Held(task[c])' = Held(task'[c])
    BY DEF Held
  <2> QED BY <2>1, <2>2 DEF Fresh
<1>3. ASSUME NEW S, Apart(S) PROVE Apart(S)'
  <2>1. \A m \in Merged : Whole(Ties(m), S)
    BY <1>3 DEF Apart
  <2>2. \A c \in Consumers : task'[c] # Idle => Whole(Involved(task[c]), S)
    BY <1>3 DEF Apart, Narrows
  <2> QED BY <1>1, <2>1, <2>2, ApartStep DEF Narrows
<1>4. Together'
  BY <1>3, TogetherStep
<1> QED BY <1>2, <1>4

\* A step that gives c a job with more to do, in one piece with what it writes to.
LEMMA Widened ==
  ASSUME Shape, Fresh, Together, linked \subseteq linked', NoneBefore,
         \A m \in Merged : Sources(m)' \subseteq Sources(m),
         NEW c \in Consumers, \A d \in Consumers \ {c} : task'[d] = task[d],
         \A m \in Held(task'[c]) : merged'[m] # "none",
         \A S \in SUBSET Entities : Closed(S) /\ Apart(S) =>
             /\ Whole(Involved(task'[c]), S)
             /\ \A m \in Held(task'[c]) : Whole(Ties(m) \cup Involved(task'[c]), S)
  PROVE  Fresh' /\ Together'
<1>0. \A d \in Consumers : Held(task[d])' = Held(task'[d]) /\ Involved(task[d])' = Involved(task'[d])
  BY DEF Held, Involved
<1>1. ASSUME NEW m \in Merged
      PROVE  /\ m \in Held(task'[c]) => Ties(m)' \subseteq Ties(m) \cup Involved(task'[c])
             /\ m \notin Held(task'[c]) => Ties(m)' \subseteq Ties(m)
  BY <1>0 DEF Ties
<1>2. Fresh'
  BY <1>0 DEF Fresh, NoneBefore
<1>3. ASSUME NEW S \in SUBSET Entities, Closed(S), Apart(S) PROVE Apart(S)'
  <2>1. /\ Whole(Involved(task'[c]), S)
        /\ \A m \in Held(task'[c]) : Whole(Ties(m) \cup Involved(task'[c]), S)
    BY <1>3
  <2>2. \A m \in Merged : \E T : Whole(T, S) /\ Ties(m)' \subseteq T
    BY <1>1, <1>3, <2>1 DEF Apart
  <2>3. \A d \in Consumers : task'[d] # Idle => \E T : Whole(T, S) /\ Involved(task'[d]) \subseteq T
    BY <1>3, <2>1 DEF Apart
  <2> QED BY <2>2, <2>3, ApartStep
<1> QED BY <1>2, <1>3, TogetherStep

-----------------------------------------------------------------------------
(* The steps of the instances *)

LEMMA SameMInv ==
  ASSUME MInv, UNCHANGED <<home, removed, index, merged, linked, task>>
  PROVE  MInv'
<1>1. \A m : Sources(m)' = Sources(m) /\ Ties(m)' = Ties(m)
  BY DEF Sources, Members, Ties, Held, Involved
<1>2. Shape' /\ Links' /\ Fresh'
  BY <1>1 DEF MInv, Shape, JobOK, Links, Fresh, Held
<1>3. \A S : (Closed(S)' <=> Closed(S)) /\ (Apart(S)' <=> Apart(S))
  BY <1>1 DEF Closed, Apart, Whole, Involved
<1> QED BY <1>2, <1>3 DEF MInv, Together

\* The job of c goes on with no more than it has, and no cluster changes.
LEMMA NarrowStep ==
  ASSUME MInv, NEW c \in Consumers, task[c] # Idle, NEW j, task' = [task EXCEPT ![c] = j],
         j = Idle \/ (JobOK(j) /\ Involved(j) \subseteq Involved(task[c]) /\ Held(j) \subseteq Held(task[c])),
         UNCHANGED <<home, removed, index, linked>>, DOMAIN merged' = Merged, NoneBefore
  PROVE  MInv'
<1>1. \A m : Sources(m)' = Sources(m)
  BY DEF Sources, Members
<1>2. task'[c] = j /\ \A d \in Consumers \ {c} : task'[d] = task[d]
  BY JobGoes DEF MInv
<1>3. \A d \in Consumers : Narrows(d)
  BY <1>2 DEF Narrows
<1>4. \A m \in Merged : Sources(m)' \subseteq Ties(m)
  BY <1>1 DEF Ties
<1>5. Fresh' /\ Together'
  BY <1>3, <1>4, Narrowed DEF MInv
<1> QED BY <1>5, ShapeStep, LinksStay DEF MInv

LEMMA SameNone ==
  ASSUME Shape, UNCHANGED merged
  PROVE  DOMAIN merged' = Merged /\ NoneBefore
  BY DEF Shape, NoneBefore

LEMMA DeletedNone ==
  ASSUME Shape, NEW m, SoftDelete(m)
  PROVE  DOMAIN merged' = Merged /\ NoneBefore
  BY DEF Shape, NoneBefore, SoftDelete

\* A job that only moves to another step.
LEMMA StepOnly ==
  ASSUME Shape, NEW c \in Consumers, task[c] # Idle, NEW s, Goto(c, s), s \notin {"move", "rewire", "drop"} \/ task[c].from # {}
  PROVE  \E j : /\ task' = [task EXCEPT ![c] = j] /\ JobOK(j)
                /\ Involved(j) \subseteq Involved(task[c]) /\ Held(j) \subseteq Held(task[c])
<1>1. PICK t, j : t = task[c] /\ j = [t EXCEPT !.step = s]
  OBVIOUS
<1>2. JobOK(t)
  BY <1>1, JobAt
<1>3. /\ DOMAIN j = Fields /\ j.step = s /\ j.e = t.e /\ j.ids = t.ids /\ j.all = t.all
      /\ j.into = t.into /\ j.from = t.from /\ j.then = t.then /\ j.todo = t.todo
  BY <1>1, <1>2 DEF JobOK, Fields
<1>4. task' = [task EXCEPT ![c] = j]
  BY <1>1 DEF Goto
<1>5. JobOK(j)
  BY <1>1, <1>2, <1>3 DEF JobOK
<1> QED BY <1>1, <1>3, <1>4, <1>5 DEF Involved, Held

\* Handlers that end, whether their event is committed or not.
Ends(c) ==
    \/ MergeFails(c) \/ Related(c) \/ Cascade(c) \/ Fault(c)
    \/ (Relate(c) \/ CheckMembers(c) \/ Bury(c)) /\ Done(c)

LEMMA EndsKeepMInv ==
  ASSUME MInv, NEW c \in Consumers, Ends(c)
  PROVE  MInv'
<1>1. task[c] # Idle
  BY DEF Ends, MergeFails, Refused, Related, Cascade, Fault, Relate, CheckMembers, Bury, At
<1>2. task' = [task EXCEPT ![c] = Idle]
  BY DEF Ends, MergeFails, Fails, Related, Cascade, Fault, Done
<1>3. UNCHANGED <<home, removed, index, linked>>
  BY DEF Ends, MergeFails, Fails, Related, Cascade, Fault, Relate, CheckMembers, Bury, tables, history
<1>4. UNCHANGED merged \/ \E m : SoftDelete(m)
  BY DEF Ends, MergeFails, Fails, Related, Cascade, Fault, Relate, CheckMembers, Bury, tables
<1>5. DOMAIN merged' = Merged /\ NoneBefore
  BY <1>4, SameNone, DeletedNone DEF MInv
<1> QED BY <1>1, <1>2, <1>3, <1>5, NarrowStep

\* Statements that change no cluster.
GoesOn(c) ==
    \/ UpdateThenAdd(c) \/ Finish(c) \/ Rewire(c)
    \/ (CheckMembers(c) /\ Goto(c, "bury")) \/ (Bury(c) /\ Goto(c, "cascade"))

LEMMA GoesOnKeepsMInv ==
  ASSUME MInv, NEW c \in Consumers, GoesOn(c)
  PROVE  MInv'
<1>1. task[c] # Idle
  BY DEF GoesOn, UpdateThenAdd, Finish, Rewire, CheckMembers, Bury, At
<1>2. PICK s : Goto(c, s) /\ (s \notin {"move", "rewire", "drop"} \/ task[c].from # {})
  <2>1. CASE Rewire(c)
    <3>1. task[c].step = "rewire"
      BY <2>1 DEF Rewire, At
    <3>2. JobOK(task[c])
      BY <1>1, JobAt DEF MInv
    <3> QED BY <2>1, <3>1, <3>2 DEF Rewire, JobOK
  <2> QED BY <2>1 DEF GoesOn, UpdateThenAdd, Finish
<1>3. UNCHANGED <<home, removed, index, linked>>
  BY DEF GoesOn, UpdateThenAdd, Finish, Rewire, CheckMembers, Bury, tables, history
<1>4. UNCHANGED merged \/ \E m : SoftDelete(m)
  BY DEF GoesOn, UpdateThenAdd, Finish, Rewire, CheckMembers, Bury, tables
<1>5. DOMAIN merged' = Merged /\ NoneBefore
  BY <1>4, SameNone, DeletedNone DEF MInv
<1>6. PICK j : /\ task' = [task EXCEPT ![c] = j] /\ JobOK(j)
               /\ Involved(j) \subseteq Involved(task[c]) /\ Held(j) \subseteq Held(task[c])
  BY <1>1, <1>2, StepOnly DEF MInv
<1> QED BY <1>1, <1>3, <1>5, <1>6, NarrowStep

\* The other statements that leave a job with no more than it has.
LEMMA LoadKeepsMInv ==
  ASSUME MInv, NEW c \in Consumers, Load(c)
  PROVE  MInv'
<1>1. task[c] # Idle /\ UNCHANGED <<home, removed, index, merged, linked>>
  BY DEF Load, At, tables, history
<1>2. PICK t, all : t = task[c] /\ all = {t.e} \cup {f \in t.ids : IsLive(f)}
  OBVIOUS
<1>3. PICK s, j : /\ s \in {"single", "find"} /\ j = [t EXCEPT !.step = s, !.all = all]
                  /\ task' = [task EXCEPT ![c] = j]
  BY <1>2 DEF Load, Step
<1>4. JobOK(t)
  BY <1>1, <1>2, JobAt DEF MInv
<1>5. all \subseteq {t.e} \cup t.ids
  BY <1>2
<1>6. /\ DOMAIN j = Fields /\ j.step = s /\ j.e = t.e /\ j.ids = t.ids /\ j.all = all
      /\ j.into = t.into /\ j.from = t.from /\ j.then = t.then /\ j.todo = t.todo
  BY <1>3, <1>4 DEF JobOK, Fields
<1>7. JobOK(j)
  BY <1>3, <1>4, <1>5, <1>6 DEF JobOK
<1>8. Involved(j) \subseteq Involved(t) /\ Held(j) \subseteq Held(t)
  BY <1>5, <1>6 DEF Involved, Held
<1> QED BY <1>1, <1>2, <1>3, <1>7, <1>8, SameNone, NarrowStep DEF MInv

LEMMA DropKeepsMInv ==
  ASSUME MInv, NEW c \in Consumers, Drop(c)
  PROVE  MInv'
<1>1. task[c] # Idle /\ UNCHANGED <<home, removed, index, linked>>
  BY DEF Drop, At, history
<1>2. PICK t, m : t = task[c] /\ m = Oldest(t.from)
  OBVIOUS
<1>3. PICK s, j : /\ j = [t EXCEPT !.from = @ \ {m}, !.step = s] /\ task' = [task EXCEPT ![c] = j]
                  /\ s = IF t.from = {m} THEN "add" ELSE "move"
  BY <1>2 DEF Drop, Step
<1>4. JobOK(t) /\ t.step = "drop"
  BY <1>1, <1>2, JobAt DEF MInv, Drop, At
<1>5. DOMAIN merged' = Merged /\ NoneBefore
  BY <1>2, DeletedNone DEF MInv, Drop
<1>6. /\ DOMAIN j = Fields /\ j.step = s /\ j.e = t.e /\ j.ids = t.ids /\ j.all = t.all
      /\ j.into = t.into /\ j.from = t.from \ {m} /\ j.then = t.then /\ j.todo = t.todo
  BY <1>3, <1>4 DEF JobOK, Fields
<1>7. JobOK(j)
  BY <1>3, <1>4, <1>6 DEF JobOK
<1>8. Involved(j) \subseteq Involved(t) /\ Held(j) \subseteq Held(t)
  BY <1>6 DEF Involved, Held
<1> QED BY <1>1, <1>2, <1>3, <1>5, <1>7, <1>8, NarrowStep

\* The steps of the relationships of a merged entity.
Relating(c) == FindEnd(c) \/ PutEdge(c) \/ (Relate(c) /\ Waiting(task[c].e) # {})

\* A job with relationships todo and a pair to write.
EdgeJob(t, todo, pair) == [t EXCEPT !.step = "edge", !.todo = todo, !.pair = pair]

LEMMA EdgeJobFacts ==
  ASSUME NEW t, JobOK(t), NEW todo, todo \subseteq Relations, NEW pair
  PROVE  /\ JobOK(EdgeJob(t, todo, pair))
         /\ EdgeJob(t, todo, pair).step = "edge" /\ EdgeJob(t, todo, pair).e = t.e
         /\ EdgeJob(t, todo, pair).ids = t.ids /\ EdgeJob(t, todo, pair).all = t.all
         /\ EdgeJob(t, todo, pair).into = t.into /\ EdgeJob(t, todo, pair).from = t.from
         /\ EdgeJob(t, todo, pair).pair = pair
<1>1. PICK j : j = EdgeJob(t, todo, pair)
  OBVIOUS
<1>2. /\ DOMAIN j = Fields /\ j.step = "edge" /\ j.e = t.e /\ j.ids = t.ids /\ j.all = t.all
      /\ j.into = t.into /\ j.from = t.from /\ j.then = t.then /\ j.todo = todo /\ j.pair = pair
  BY <1>1 DEF JobOK, Fields, EdgeJob
<1>3. JobOK(j)
  BY <1>2 DEF JobOK
<1> QED BY <1>1, <1>2, <1>3

\* What they do to a job: it has a pair to write whose ends are its merged entity
\* and that of an entity, or none.
LEMMA RelatingFacts ==
  ASSUME Shape, rules \subseteq Relations, NEW c \in Consumers, Relating(c)
  PROVE  /\ task[c] # Idle /\ task[c].step \in {"edge", "relate"}
         /\ UNCHANGED <<home, removed, index, merged, relationships, linked, trouble>>
         /\ \E j : /\ task' = [task EXCEPT ![c] = j] /\ JobOK(j) /\ j.step = "edge" /\ j.e = task[c].e
                   /\ j.ids = task[c].ids /\ j.all = task[c].all /\ j.into = task[c].into /\ j.from = task[c].from
                   /\ \/ j.pair = task[c].pair /\ task[c].step = "relate"
                      \/ j.pair = <<>>
                      \/ \E e \in Entities : /\ home[e] # Nowhere /\ task[c].into # Nowhere
                                             /\ j.pair \in {<<task[c].into, home[e]>>, <<home[e], task[c].into>>}
<1>1. /\ task[c] # Idle /\ task[c].step \in {"edge", "relate"}
      /\ UNCHANGED <<home, removed, index, merged, relationships, linked, trouble>>
  BY DEF Relating, FindEnd, PutEdge, Relate, At, tables, history
<1>2. PICK t : t = task[c] /\ JobOK(t)
  BY <1>1, JobAt
<1>3. CASE FindEnd(c)
  <2>1. PICK r \in t.todo : \E pair :
            /\ task' = [task EXCEPT ![c] = [t EXCEPT !.todo = @ \ {r}, !.pair = EdgeOf(pair)]]
            /\ pair = IF r[1] = t.e THEN <<t.into, EndOf(r[2])>> ELSE <<EndOf(r[1]), t.into>>
    BY <1>2, <1>3 DEF FindEnd, Step
  <2>2. PICK pair :
            /\ task' = [task EXCEPT ![c] = [t EXCEPT !.todo = @ \ {r}, !.pair = EdgeOf(pair)]]
            /\ pair = IF r[1] = t.e THEN <<t.into, EndOf(r[2])>> ELSE <<EndOf(r[1]), t.into>>
    BY <2>1
  <2>3. t.todo \subseteq Relations /\ t.step = "edge"
    BY <1>2, <1>3 DEF JobOK, FindEnd, At
  <2>4. r[1] \in Entities /\ r[2] \in Entities
    BY <2>1, <2>3, ResolutionAssumption
  <2>5. PICK j : j = EdgeJob(t, t.todo \ {r}, EdgeOf(pair))
    OBVIOUS
  <2>6. [t EXCEPT !.todo = @ \ {r}, !.pair = EdgeOf(pair)] = j
    BY <1>2, <2>3, <2>5 DEF JobOK, Fields, EdgeJob
  <2>7. /\ JobOK(j) /\ j.step = "edge" /\ j.e = t.e /\ j.ids = t.ids /\ j.all = t.all
        /\ j.into = t.into /\ j.from = t.from /\ j.pair = EdgeOf(pair)
    <3>1. t.todo \ {r} \subseteq Relations
      BY <2>3
    <3> QED BY <1>2, <2>5, <3>1, EdgeJobFacts
  <2>8. ASSUME EdgeOf(pair) # <<>>
        PROVE  \E e \in Entities : /\ home[e] # Nowhere /\ t.into # Nowhere
                                   /\ EdgeOf(pair) \in {<<t.into, home[e]>>, <<home[e], t.into>>}
    <3>1. EdgeOf(pair) = pair /\ pair[1] # Nowhere /\ pair[2] # Nowhere
      BY <2>8 DEF EdgeOf
    <3>2. CASE r[1] = t.e
      BY <2>2, <2>4, <3>1, <3>2 DEF EndOf
    <3>3. CASE r[1] # t.e
      BY <2>2, <2>4, <3>1, <3>3 DEF EndOf
    <3> QED BY <3>2, <3>3
  <2>9. task' = [task EXCEPT ![c] = j]
    BY <2>2, <2>6
  <2>10. j.pair = <<>> \/ \E e \in Entities : /\ home[e] # Nowhere /\ t.into # Nowhere
                                             /\ j.pair \in {<<t.into, home[e]>>, <<home[e], t.into>>}
    BY <2>7, <2>8
  <2>11. /\ task' = [task EXCEPT ![c] = j] /\ JobOK(j) /\ j.step = "edge" /\ j.e = t.e
         /\ j.ids = t.ids /\ j.all = t.all /\ j.into = t.into /\ j.from = t.from
    BY <2>7, <2>9
  <2> QED BY <1>1, <1>2, <2>10, <2>11, Zenon
<1>4. CASE PutEdge(c)
  <2>1. task' = [task EXCEPT ![c] = [t EXCEPT !.pair = <<>>]] /\ t.step = "edge" /\ t.todo \in SUBSET Relations
    BY <1>2, <1>4 DEF PutEdge, Step, At, JobOK
  <2>2. PICK j : j = EdgeJob(t, t.todo, <<>>)
    OBVIOUS
  <2>3. [t EXCEPT !.pair = <<>>] = j
    BY <1>2, <2>1, <2>2 DEF JobOK, Fields, EdgeJob
  <2>4. /\ JobOK(j) /\ j.step = "edge" /\ j.e = t.e /\ j.ids = t.ids /\ j.all = t.all
        /\ j.into = t.into /\ j.from = t.from /\ j.pair = <<>>
    BY <1>2, <2>1, <2>2, EdgeJobFacts
  <2>5. task' = [task EXCEPT ![c] = j]
    BY <2>1, <2>3
  <2> QED BY <1>1, <1>2, <2>4, <2>5
<1>5. CASE Relate(c) /\ Waiting(t.e) # {}
  <2>1. /\ task' = [task EXCEPT ![c] = [t EXCEPT !.step = "edge", !.todo = Waiting(t.e)]]
        /\ t.step = "relate" /\ Waiting(t.e) \in SUBSET Relations
    BY <1>2, <1>5 DEF Relate, Step, At, Waiting
  <2>2. PICK j : j = EdgeJob(t, Waiting(t.e), t.pair)
    OBVIOUS
  <2>3. [t EXCEPT !.step = "edge", !.todo = Waiting(t.e)] = j
    BY <1>2, <2>2 DEF JobOK, Fields, EdgeJob
  <2>4. /\ JobOK(j) /\ j.step = "edge" /\ j.e = t.e /\ j.ids = t.ids /\ j.all = t.all
        /\ j.into = t.into /\ j.from = t.from /\ j.pair = t.pair
    BY <1>2, <2>1, <2>2, EdgeJobFacts
  <2>5. task' = [task EXCEPT ![c] = j]
    BY <2>1, <2>3
  <2> QED BY <1>1, <1>2, <2>1, <2>4, <2>5
<1> QED BY <1>2, <1>3, <1>4, <1>5 DEF Relating

LEMMA EdgesKeepMInv ==
  ASSUME MInv, rules \subseteq Relations, NEW c \in Consumers, Relating(c)
  PROVE  MInv'
<1>1. Shape
  BY DEF MInv
<1>2. PICK j : /\ task' = [task EXCEPT ![c] = j] /\ JobOK(j) /\ j.e = task[c].e /\ j.ids = task[c].ids
               /\ j.all = task[c].all /\ j.into = task[c].into /\ j.from = task[c].from
  BY <1>1, RelatingFacts
<1>3. Involved(j) \subseteq Involved(task[c]) /\ Held(j) \subseteq Held(task[c])
  BY <1>2 DEF Involved, Held
<1>4. task[c] # Idle /\ UNCHANGED <<home, removed, index, merged, linked>>
  BY <1>1, RelatingFacts
<1> QED BY <1>1, <1>2, <1>3, <1>4, SameNone, NarrowStep

-----------------------------------------------------------------------------
(* The statements that change clusters *)

\* An entity that is added to a cluster was tied to it by the job.
LEMMA AddKeepsMInv ==
  ASSUME MInv, NEW c \in Consumers, Add(c)
  PROVE  MInv'
<1>0. Shape
  BY DEF MInv
<1>1. task[c] # Idle /\ UNCHANGED <<index, merged, linked>>
  BY DEF Add, At, history
<1>2. PICK t : t = task[c] /\ JobOK(t)
  BY <1>1, JobAt DEF MInv
<1>3. PICK f \in t.all : /\ AddToCluster(t.into, f) /\ CanAdd(t.into, f)
                         /\ \E s : task' = [task EXCEPT ![c] = [t EXCEPT !.all = @ \ {f}, !.step = s]]
                                   /\ s \in {t.then, "add"} /\ (s = "add" \/ t.all = {f})
  BY <1>2 DEF Add, Step
<1>4. PICK s, j : /\ j = [t EXCEPT !.all = @ \ {f}, !.step = s] /\ task' = [task EXCEPT ![c] = j]
                  /\ s \in {t.then, "add"}
  BY <1>3
<1>5. t.then \in {"finish", "relate"}
  BY <1>2 DEF JobOK
<1>6. /\ DOMAIN j = Fields /\ j.step = s /\ j.e = t.e /\ j.ids = t.ids /\ j.all = t.all \ {f}
      /\ j.into = t.into /\ j.from = t.from /\ j.then = t.then /\ j.todo = t.todo
  BY <1>2, <1>4 DEF JobOK, Fields
<1>7. JobOK(j)
  BY <1>2, <1>4, <1>5, <1>6 DEF JobOK
<1>8. Involved(j) \subseteq Involved(t) /\ Held(j) \subseteq Held(t)
  BY <1>6 DEF Involved, Held
<1>9. task'[c] = j /\ DOMAIN task' = Consumers /\ \A d \in Consumers \ {c} : task'[d] = task[d]
  BY <1>0, <1>4, JobGoes
<1>10. \A d \in Consumers : Narrows(d)
  BY <1>1, <1>2, <1>8, <1>9 DEF Narrows
<1>11. f \in Entities /\ t.into \in Merged \cup {Nowhere}
  BY <1>2, <1>3 DEF JobOK
<1>12. home' \in [Entities -> Merged \cup {Nowhere}]
  BY <1>0, <1>3, <1>11 DEF AddToCluster, Shape
<1>13. Shape'
  BY <1>0, <1>1, <1>7, <1>9, <1>12 DEF Shape, JobOK
<1>14. ASSUME NEW m \in Merged, NEW x \in Sources(m)' PROVE x \in Ties(m)
  <2>1. m # Nowhere
    BY ResolutionAssumption DEF Merged, Nowhere
  <2>2. CASE x = f /\ m = t.into
    BY <1>1, <1>2, <1>11, <2>1, <2>2, <1>3 DEF Ties, Held, Involved
  <2>3. CASE x # f \/ m # t.into
    <3>1. x \in Sources(m)
      BY <1>0, <1>3, <1>11, <1>14, <2>1, <2>3 DEF Sources, Members, AddToCluster, Shape
    <3> QED BY <3>1 DEF Ties
  <2> QED BY <2>2, <2>3
<1>15. Fresh' /\ Together'
  BY <1>0, <1>1, <1>10, <1>14, SameNone, Narrowed DEF MInv
<1> QED BY <1>1, <1>13, <1>15, LinksStay DEF MInv

\* The two clusters of a consolidation are tied by its job.
LEMMA MoveKeepsMInv ==
  ASSUME MInv, NEW c \in Consumers, Move(c)
  PROVE  MInv'
<1>0. Shape
  BY DEF MInv
<1>1. task[c] # Idle /\ task[c].step = "move" /\ UNCHANGED <<index, merged, removed, linked>>
  BY DEF Move, At, history
<1>2. PICK t, o, n : t = task[c] /\ o = Oldest(t.from) /\ n = t.into
  OBVIOUS
<1>3. JobOK(t) /\ o \in t.from /\ o \in Merged /\ n \in Merged \cup {Nowhere}
  <2>1. JobOK(t)
    BY <1>0, <1>1, <1>2, JobAt
  <2> QED BY <1>1, <1>2, <2>1, OldestOf DEF JobOK
<1>4. home' = [e \in Entities |-> IF home[e] = o THEN n ELSE home[e]]
  BY <1>2 DEF Move, MoveClusterMembers
<1>5. PICK j : /\ task' = [task EXCEPT ![c] = j] /\ JobOK(j)
               /\ Involved(j) \subseteq Involved(t) /\ Held(j) \subseteq Held(t)
  BY <1>0, <1>1, <1>2, <1>3, StepOnly DEF Move, JobOK
<1>6. task'[c] = j /\ DOMAIN task' = Consumers /\ \A d \in Consumers \ {c} : task'[d] = task[d]
  BY <1>0, <1>5, JobGoes
<1>7. Shape'
  BY <1>0, <1>1, <1>3, <1>4, <1>5, <1>6 DEF Shape, JobOK
<1>8. \A d \in Consumers : Held(task[d])' = Held(task'[d]) /\ Involved(task[d])' = Involved(task'[d])
  BY DEF Held, Involved
<1>9. ASSUME NEW m \in Merged
      PROVE  Sources(m)' \subseteq (IF m = n THEN Sources(n) \cup Sources(o) ELSE Sources(m))
  BY <1>0, <1>1, <1>4 DEF Sources, Members, Shape
<1>10. ASSUME NEW m \in Merged
       PROVE  Ties(m)' \subseteq (IF m = n THEN Ties(n) \cup Ties(o) ELSE Ties(m))
  <2>1. ASSUME NEW x \in Entities, NEW d \in Consumers, task'[d] # Idle, m \in Held(task'[d]), x \in Involved(task'[d])
        PROVE  x \in Ties(m)
    BY <1>1, <1>2, <1>5, <1>6, <2>1 DEF Ties
  <2> QED BY <1>8, <1>9, <2>1 DEF Ties
<1>11. n \in Merged => t.e \in Ties(n) /\ t.e \in Ties(o)
  <2>1. \A m \in Merged : m # Nowhere
    BY ResolutionAssumption DEF Merged, Nowhere
  <2> QED BY <1>1, <1>2, <1>3, <2>1 DEF Ties, Held, Involved, JobOK
<1>12. ASSUME NEW S, Apart(S) PROVE Apart(S)'
  <2>1. n \in Merged => Whole(Ties(n) \cup Ties(o), S)
    BY <1>3, <1>11, <1>12 DEF Apart, Whole
  <2>2. \A m \in Merged : \E T : Whole(T, S) /\ Ties(m)' \subseteq T
    BY <1>10, <1>12, <2>1 DEF Apart
  <2>3. \A d \in Consumers : task'[d] # Idle => \E T : Whole(T, S) /\ Involved(task'[d]) \subseteq T
    BY <1>1, <1>2, <1>5, <1>6, <1>12 DEF Apart
  <2> QED BY <2>2, <2>3, ApartStep
<1>13. Together'
  BY <1>1, <1>12, TogetherStep DEF MInv
<1>14. Fresh'
  <2>1. ASSUME NEW m \in Merged, merged[m] = "none"
        PROVE  Sources(m)' = {} /\ \A d \in Consumers : task'[d] # Idle => m \notin Held(task'[d])
    <3>1. Sources(m) = {} /\ \A d \in Consumers : task[d] # Idle => m \notin Held(task[d])
      BY <2>1 DEF Fresh, MInv
    <3>2. m # n
      <4>1. m # Nowhere
        BY ResolutionAssumption DEF Merged, Nowhere
      <4> QED BY <1>1, <1>2, <3>1, <4>1 DEF Held
    <3> QED BY <1>1, <1>2, <1>5, <1>6, <1>9, <3>1, <3>2
  <2> QED BY <1>1, <1>8, <2>1 DEF Fresh
<1> QED BY <1>1, <1>7, <1>13, <1>14, LinksStay DEF MInv

\* Who is removed from a cluster stays one of its sources.
LEMMA RemoveKeepsMInv ==
  ASSUME MInv, NEW c \in Consumers, Remove(c)
  PROVE  MInv'
<1>0. Shape
  BY DEF MInv
<1>1. task[c] # Idle /\ UNCHANGED <<index, merged, linked>>
  BY DEF Remove, At, history
<1>2. PICK t, n : t = task[c] /\ n = t.into
  OBVIOUS
<1>3. JobOK(t)
  BY <1>0, <1>1, <1>2, JobAt
<1>4. PICK j : /\ task' = [task EXCEPT ![c] = j] /\ JobOK(j)
               /\ Involved(j) \subseteq Involved(t) /\ Held(j) \subseteq Held(t)
  BY <1>0, <1>1, <1>2, StepOnly DEF Remove
<1>5. task'[c] = j /\ DOMAIN task' = Consumers /\ \A d \in Consumers \ {c} : task'[d] = task[d]
  BY <1>0, <1>4, JobGoes
<1>6. \/ home' = [home EXCEPT ![t.e] = Nowhere] /\ removed' = removed \cup {<<n, t.e>>} /\ home[t.e] = n
      \/ UNCHANGED <<home, removed>>
  BY <1>2 DEF Remove, RemoveFromCluster
<1>7. home' \in [Entities -> Merged \cup {Nowhere}]
  BY <1>0, <1>6 DEF Shape
<1>8. Shape'
  BY <1>0, <1>1, <1>4, <1>5, <1>7 DEF Shape, JobOK
<1>9. \A d \in Consumers : Narrows(d)
  BY <1>1, <1>2, <1>4, <1>5 DEF Narrows
<1>10. ASSUME NEW m \in Merged, NEW x \in Sources(m)' PROVE x \in Ties(m)
  <2>1. m # Nowhere
    BY ResolutionAssumption DEF Merged, Nowhere
  <2>2. x \in Sources(m)
    BY <1>0, <1>3, <1>6, <1>10, <2>1 DEF Sources, Members, Shape, JobOK
  <2> QED BY <2>2 DEF Ties
<1>11. Fresh' /\ Together'
  BY <1>0, <1>1, <1>9, <1>10, SameNone, Narrowed DEF MInv
<1> QED BY <1>1, <1>8, <1>11, LinksStay DEF MInv

-----------------------------------------------------------------------------
(* The steps that begin a job, or find what it is about *)

LEMMA NewJobOK ==
  ASSUME NEW step, NEW e \in Entities, step \notin {"move", "rewire", "drop"}
  PROVE  JobOK(NewJob(step, e)) /\ Involved(NewJob(step, e)) = {e} /\ Held(NewJob(step, e)) = {}
  BY DEF NewJob, JobOK, Fields, Involved, Held

LEMMA IndexKeepsMInv ==
  ASSUME MInv, NEW c \in Consumers, NEW e \in Entities, Index(c, e)
  PROVE  MInv'
<1>0. Shape
  BY DEF MInv
<1>1. UNCHANGED <<home, removed, merged>>
  BY DEF Index
<1>2. PICK v : /\ index' = [index EXCEPT ![e] = v]
               /\ linked' = linked \cup {<<e, f>> : f \in Others(e, v, Valid)}
                                   \cup {<<f, e>> : f \in {g \in Entities \ {e} : <<index[g], v>> \in Valid}}
  BY DEF Index
<1>3. PICK j : j = NewJob("match", e) /\ task' = [task EXCEPT ![c] = j]
  BY DEF Index, Step
<1>4. JobOK(j) /\ Involved(j) = {e} /\ Held(j) = {}
  BY <1>3, NewJobOK
<1>5. task'[c] = j /\ DOMAIN task' = Consumers /\ \A d \in Consumers \ {c} : task'[d] = task[d]
  BY <1>0, <1>3, JobGoes
<1>6. Shape'
  BY <1>0, <1>1, <1>2, <1>4, <1>5 DEF Shape, JobOK
<1>7. Links'
  <2>1. ASSUME NEW x \in Entities, NEW y \in Entities, x # y, <<index'[x], index'[y]>> \in Valid
        PROVE  <<x, y>> \in linked' \/ <<y, x>> \in linked'
    <3>1. CASE x = e
      <4>1. index'[x] = v /\ index'[y] = index[y]
        BY <1>0, <1>2, <2>1, <3>1 DEF Shape
      <4>2. y \in Others(e, v, Valid)
        BY <2>1, <3>1, <4>1 DEF Others
      <4> QED BY <1>2, <3>1, <4>2
    <3>2. CASE y = e
      <4>1. index'[y] = v /\ index'[x] = index[x]
        BY <1>0, <1>2, <2>1, <3>2 DEF Shape
      <4>2. x \in {g \in Entities \ {e} : <<index[g], v>> \in Valid}
        BY <2>1, <3>2, <4>1
      <4> QED BY <1>2, <3>2, <4>2
    <3>3. CASE x # e /\ y # e
      <4>1. index'[x] = index[x] /\ index'[y] = index[y]
        BY <1>0, <1>2, <3>3 DEF Shape
      <4> QED BY <1>2, <2>1, <4>1 DEF Links, MInv
    <3> QED BY <3>1, <3>2, <3>3
  <2> QED BY <2>1 DEF Links, Valid
<1>8. \A m \in Merged : Sources(m)' \subseteq Sources(m)
  BY <1>1 DEF Sources, Members
<1>9. \A S : Whole(Involved(task'[c]), S)
  BY <1>4, <1>5 DEF Whole
<1>10. Fresh' /\ Together'
  BY <1>0, <1>1, <1>2, <1>4, <1>5, <1>8, <1>9, SameNone, Widened DEF MInv
<1> QED BY <1>6, <1>7, <1>10 DEF MInv

\* A step that gives c job j and leaves the tables alone, or creates a merged entity.
LEMMA WidenStep ==
  ASSUME MInv, NEW c \in Consumers, NEW j, task' = [task EXCEPT ![c] = j], JobOK(j),
         UNCHANGED <<home, removed, index, linked>>, DOMAIN merged' = Merged, NoneBefore,
         \A m \in Held(j) : merged'[m] # "none",
         \A S \in SUBSET Entities : Closed(S) /\ Apart(S) =>
             /\ Whole(Involved(j), S)
             /\ \A m \in Held(j) : Whole(Ties(m) \cup Involved(j), S)
  PROVE  MInv'
<1>1. task'[c] = j /\ \A d \in Consumers \ {c} : task'[d] = task[d]
  BY JobGoes DEF MInv
<1>2. \A m \in Merged : Sources(m)' \subseteq Sources(m)
  BY DEF Sources, Members
<1>3. Fresh' /\ Together'
  BY <1>1, <1>2, Widened DEF MInv
<1> QED BY <1>3, ShapeStep, LinksStay DEF MInv

\* What a job holds is created, and tied to what it is about.
LEMMA HeldIsTied ==
  ASSUME MInv, NEW c \in Consumers, task[c] # Idle, NEW m \in Held(task[c])
  PROVE  m \in Merged /\ merged[m] # "none" /\ Involved(task[c]) \subseteq Ties(m)
<1>1. JobOK(task[c])
  BY JobAt DEF MInv
<1>2. m \in Merged /\ Involved(task[c]) \subseteq Entities
  BY <1>1 DEF JobOK, Held, Involved
<1> QED BY <1>2 DEF MInv, Fresh, Ties

\* A cluster that is found has one of the entities looked for.
LEMMA FoundIsTied ==
  ASSUME NEW es \in SUBSET Entities, NEW m \in Clusters(es)
  PROVE  m \in Merged /\ merged[m] = "live" /\ \E x \in es : x \in Ties(m)
  BY DEF Clusters, Ties, Sources, Members

LEMMA FindMatchesKeepsMInv ==
  ASSUME NoMerge = {}, MInv, NEW c \in Consumers, FindMatches(c)
  PROVE  MInv'
<1>1. task[c] # Idle /\ UNCHANGED <<home, removed, index, merged, linked>>
  BY DEF FindMatches, At, tables, history
<1>2. PICK t : t = task[c] /\ JobOK(t)
  BY <1>1, JobAt DEF MInv
<1>3. PICK ids : ids = {t.e} \cup (Others(t.e, index[t.e], Valid) \cup Others(t.e, index[t.e], Blocked))
  OBVIOUS
<1>4. PICK s, j : /\ s \in {"single", "load"} /\ j = [t EXCEPT !.step = s, !.ids = ids]
                  /\ task' = [task EXCEPT ![c] = j]
  BY <1>2, <1>3 DEF FindMatches, Step
<1>5. /\ DOMAIN j = Fields /\ j.step = s /\ j.e = t.e /\ j.ids = ids /\ j.all = t.all
      /\ j.into = t.into /\ j.from = t.from /\ j.then = t.then /\ j.todo = t.todo
  BY <1>2, <1>4 DEF JobOK, Fields
<1>6. Others(t.e, index[t.e], Blocked) = {}
  BY DEF Others, Blocked
<1>7. \A x \in ids : x \in Entities /\ (x = t.e \/ <<t.e, x>> \in linked \/ <<x, t.e>> \in linked)
  BY <1>2, <1>3, <1>6 DEF Others, Links, MInv, JobOK
<1>8. JobOK(j)
  BY <1>2, <1>4, <1>5, <1>7 DEF JobOK
<1>9. ASSUME NEW S \in SUBSET Entities, Closed(S), Apart(S)
      PROVE  /\ Whole(Involved(j), S)
             /\ \A m \in Held(j) : Whole(Ties(m) \cup Involved(j), S)
  <2>1. \A x \in ids : x \in S <=> t.e \in S
    BY <1>7, <1>9 DEF Closed
  <2>2. \A x \in Involved(t) : x \in S <=> t.e \in S
    BY <1>1, <1>2, <1>9 DEF Apart, Whole, Involved
  <2>3. \A x \in Involved(j) : x \in S <=> t.e \in S
    BY <1>5, <2>1, <2>2 DEF Involved
  <2>4. ASSUME NEW m \in Held(j) PROVE \A x \in Ties(m) : x \in S <=> t.e \in S
    <3>1. m \in Held(t)
      BY <1>5, <2>4 DEF Held
    <3>2. m \in Merged /\ t.e \in Ties(m)
      BY <1>1, <1>2, <3>1, HeldIsTied DEF Involved
    <3> QED BY <1>9, <3>2 DEF Apart, Whole
  <2> QED BY <2>3, <2>4 DEF Whole
<1>10. \A m \in Held(j) : merged'[m] # "none"
  BY <1>1, <1>2, <1>5, HeldIsTied DEF Held
<1> QED BY <1>1, <1>4, <1>8, <1>9, <1>10, SameNone, WidenStep DEF MInv

\* The job of c goes on with clusters of its entities.
LEMMA FoundStep ==
  ASSUME MInv, NEW c \in Consumers, task[c] # Idle, NEW j, task' = [task EXCEPT ![c] = j], JobOK(j),
         NEW es \in SUBSET Involved(j), Involved(j) \subseteq Involved(task[c]),
         Held(j) \subseteq Held(task[c]) \cup Clusters(es),
         UNCHANGED <<home, removed, index, merged, linked>>
  PROVE  MInv'
<1>1. JobOK(task[c])
  BY JobAt DEF MInv
<1>2. es \in SUBSET Entities
  BY <1>1 DEF JobOK, Involved
<1>3. \A m \in Held(j) : m \in Merged /\ merged[m] # "none" /\ \E x \in Involved(task[c]) : x \in Ties(m)
  <2>1. ASSUME NEW m \in Held(task[c]) PROVE m \in Merged /\ merged[m] # "none" /\ \E x \in Involved(task[c]) : x \in Ties(m)
    BY HeldIsTied DEF Involved
  <2>2. ASSUME NEW m \in Clusters(es) PROVE m \in Merged /\ merged[m] # "none" /\ \E x \in Involved(task[c]) : x \in Ties(m)
    BY <1>2, FoundIsTied
  <2> QED BY <2>1, <2>2
<1>4. ASSUME NEW S \in SUBSET Entities, Apart(S)
      PROVE  /\ Whole(Involved(j), S)
             /\ \A m \in Held(j) : Whole(Ties(m) \cup Involved(j), S)
  <2>1. Whole(Involved(task[c]), S)
    BY <1>4 DEF Apart
  <2>2. ASSUME NEW m \in Held(j) PROVE Whole(Ties(m) \cup Involved(j), S)
    <3>1. Whole(Ties(m), S) /\ \E x \in Involved(task[c]) : x \in Ties(m)
      BY <1>3, <1>4 DEF Apart
    <3> QED BY <2>1, <3>1 DEF Whole
  <2> QED BY <2>1, <2>2 DEF Whole
<1> QED BY <1>3, <1>4, SameNone, WidenStep DEF MInv

LEMMA FindClustersKeepsMInv ==
  ASSUME MInv, NEW c \in Consumers, FindClusters(c)
  PROVE  MInv'
<1>1. task[c] # Idle /\ task[c].step = "find" /\ UNCHANGED <<home, removed, index, merged, linked>>
  BY DEF FindClusters, At, tables, history
<1>2. PICK t, found : t = task[c] /\ found = Clusters(t.ids) /\ JobOK(t)
  BY <1>1, JobAt DEF MInv
<1>3. CASE found = {}
  <2>1. PICK j : j = [t EXCEPT !.step = "create"] /\ task' = [task EXCEPT ![c] = j]
    <3>1. Cardinality(found) # 1
      BY <1>3, FS_EmptySet
    <3>2. task' = [task EXCEPT ![c] = [t EXCEPT !.step = "create"]]
      BY <1>2, <1>3, <3>1, Zenon DEF FindClusters, Step
    <3> QED BY <3>2
  <2>2. /\ DOMAIN j = Fields /\ j.step = "create" /\ j.e = t.e /\ j.ids = t.ids /\ j.all = t.all
        /\ j.into = t.into /\ j.from = t.from /\ j.then = t.then /\ j.todo = t.todo
    BY <1>2, <2>1 DEF JobOK, Fields
  <2>3. JobOK(j) /\ Involved(j) = Involved(t) /\ Held(j) = Held(t)
    BY <1>2, <2>2 DEF JobOK, Involved, Held
  <2> QED BY <1>1, <1>2, <2>1, <2>3, SameNone, NarrowStep DEF MInv
<1>4. CASE found # {}
  <2>1. found \in SUBSET Merged
    BY <1>2 DEF Clusters
  <2>2. PICK o : o = Oldest(found) /\ o \in found
    BY <1>4, <2>1, OldestOf
  <2>3. PICK job : job = [t EXCEPT !.into = o, !.from = found \ {o}]
    OBVIOUS
  <2>4. /\ DOMAIN job = Fields /\ job.e = t.e /\ job.ids = t.ids /\ job.all = t.all
        /\ job.into = o /\ job.from = found \ {o} /\ job.then = t.then /\ job.todo = t.todo
    BY <1>2, <2>3 DEF JobOK, Fields
  <2>5. PICK j : /\ task' = [task EXCEPT ![c] = j]
                 /\ \/ j = [job EXCEPT !.step = "update"]
                    \/ j = [job EXCEPT !.step = "move", !.then = "finish"] /\ Cardinality(found) # 1
    BY <1>2, <1>4, <2>2, <2>3 DEF FindClusters, Step
  <2>6. /\ DOMAIN j = Fields /\ j.e = t.e /\ j.ids = t.ids /\ j.all = t.all
        /\ j.into = o /\ j.from = found \ {o} /\ j.then \in {t.then, "finish"} /\ j.todo = t.todo
        /\ j.step = "update" \/ (j.step = "move" /\ Cardinality(found) # 1)
    BY <2>4, <2>5 DEF Fields
  <2>7. Cardinality(found) # 1 => found \ {o} # {}
    <3>1. found \ {o} = {} => found = {o}
      BY <2>2
    <3> QED BY <3>1, FS_Singleton
  <2>8. JobOK(j) /\ Involved(j) = Involved(t) /\ Held(j) \subseteq found
    BY <1>2, <2>1, <2>2, <2>6, <2>7 DEF JobOK, Involved, Held
  <2>9. t.ids \in SUBSET Involved(j)
    BY <2>6 DEF Involved
  <2> QED BY <1>1, <1>2, <2>5, <2>8, <2>9, FoundStep
<1> QED BY <1>3, <1>4

LEMMA FindSingleKeepsMInv ==
  ASSUME MInv, NEW c \in Consumers, FindSingle(c)
  PROVE  MInv'
<1>1. task[c] # Idle /\ UNCHANGED <<home, removed, index, merged, linked>>
  BY DEF FindSingle, At, tables, history
<1>2. PICK t, own : t = task[c] /\ own = Clusters({t.e}) /\ JobOK(t)
  BY <1>1, JobAt DEF MInv
<1>3. PICK job : job = [t EXCEPT !.all = {t.e}]
  OBVIOUS
<1>4. PICK j : /\ task' = [task EXCEPT ![c] = j]
               /\ \/ own = {} /\ j = [job EXCEPT !.step = "create"]
                  \/ own # {} /\ j = [job EXCEPT !.step = "finish", !.into = Oldest(own)]
  BY <1>2, <1>3 DEF FindSingle, Step
<1>5. own # {} => Oldest(own) \in own /\ own \subseteq Merged
  <2>1. own \in SUBSET Merged
    BY <1>2 DEF Clusters
  <2> QED BY <2>1, OldestOf
<1>6. /\ DOMAIN job = Fields /\ job.e = t.e /\ job.ids = t.ids /\ job.all = {t.e}
      /\ job.into = t.into /\ job.from = t.from /\ job.then = t.then /\ job.todo = t.todo
  BY <1>2, <1>3 DEF JobOK, Fields
<1>7. /\ DOMAIN j = Fields /\ j.e = t.e /\ j.ids = t.ids /\ j.all = {t.e}
      /\ j.into \in {t.into} \cup own /\ j.from = t.from /\ j.then = t.then /\ j.todo = t.todo
      /\ j.step \in {"create", "finish"}
  BY <1>4, <1>5, <1>6 DEF Fields
<1>8. own \subseteq Merged
  BY <1>2 DEF Clusters
<1>9. JobOK(j) /\ Involved(j) \subseteq Involved(t) /\ Held(j) \subseteq Held(t) \cup own
  BY <1>2, <1>7, <1>8 DEF JobOK, Involved, Held
<1>10. {t.e} \in SUBSET Involved(j)
  BY <1>7 DEF Involved
<1> QED BY <1>1, <1>2, <1>4, <1>9, <1>10, FoundStep

\* A new merged entity is tied to nothing.
LEMMA CreateKeepsMInv ==
  ASSUME MInv, NEW c \in Consumers, Create(c)
  PROVE  MInv'
<1>1. task[c] # Idle /\ UNCHANGED <<home, removed, index, linked>>
  BY DEF Create, At, history
<1>2. PICK t : t = task[c] /\ JobOK(t)
  BY <1>1, JobAt DEF MInv
<1>3. PICK n \in Merged : /\ merged[n] = "none" /\ merged' = [merged EXCEPT ![n] = "live"]
                          /\ task' = [task EXCEPT ![c] = [t EXCEPT !.step = "add", !.into = n]]
  BY <1>2 DEF Create, Step
<1>4. PICK j : j = [t EXCEPT !.step = "add", !.into = n]
  OBVIOUS
<1>5. /\ DOMAIN j = Fields /\ j.step = "add" /\ j.e = t.e /\ j.ids = t.ids /\ j.all = t.all
      /\ j.into = n /\ j.from = t.from /\ j.then = t.then /\ j.todo = t.todo
  BY <1>2, <1>4 DEF JobOK, Fields
<1>6. JobOK(j) /\ Involved(j) = Involved(t) /\ Held(j) \subseteq Held(t) \cup {n}
  BY <1>2, <1>5 DEF JobOK, Involved, Held
<1>7. DOMAIN merged' = Merged /\ NoneBefore /\ merged'[n] = "live"
  BY <1>3 DEF MInv, Shape, NoneBefore
<1>8. Ties(n) = {}
  BY <1>3 DEF MInv, Fresh, Ties
<1>9. \A m \in Held(j) : merged'[m] # "none"
  <2>1. \A m \in Held(t) : m \in Merged /\ merged[m] # "none"
    BY <1>1, <1>2, HeldIsTied
  <2> QED BY <1>3, <1>6, <1>7, <2>1 DEF NoneBefore
<1>10. ASSUME NEW S \in SUBSET Entities, Apart(S)
       PROVE  /\ Whole(Involved(j), S)
              /\ \A m \in Held(j) : Whole(Ties(m) \cup Involved(j), S)
  <2>1. Whole(Involved(j), S)
    BY <1>1, <1>2, <1>6, <1>10 DEF Apart
  <2>2. ASSUME NEW m \in Held(t) PROVE Whole(Ties(m) \cup Involved(j), S)
    <3>1. m \in Merged /\ Involved(t) \subseteq Ties(m)
      BY <1>1, <1>2, HeldIsTied
    <3> QED BY <1>6, <1>10, <3>1 DEF Apart, Whole
  <2>3. Whole(Ties(n) \cup Involved(j), S)
    BY <1>8, <2>1 DEF Whole
  <2> QED BY <1>6, <2>1, <2>2, <2>3
<1> QED BY <1>1, <1>3, <1>4, <1>6, <1>7, <1>9, <1>10, WidenStep

LEMMA TakeDeletedKeepsMInv ==
  ASSUME MInv, NEW c \in Consumers, NEW e \in Entities, TakeDeleted(c, e)
  PROVE  MInv'
<1>1. UNCHANGED <<home, removed, index, merged, linked>>
  BY DEF TakeDeleted, tables
<1>2. CASE Clusters({e}) = {}
  BY <1>1, <1>2, SameMInv DEF TakeDeleted
<1>3. CASE Clusters({e}) # {}
  <2>1. PICK n : n = Oldest(Clusters({e})) /\ n \in Clusters({e})
    <3>1. Clusters({e}) \in SUBSET Merged
      BY DEF Clusters
    <3> QED BY <1>3, <3>1, OldestOf
  <2>2. PICK i, j : i = NewJob("remove", e) /\ j = [i EXCEPT !.into = n]
    OBVIOUS
  <2>3. task' = [task EXCEPT ![c] = j]
    BY <1>3, <2>1, <2>2 DEF TakeDeleted, Step
  <2>4. n \in Merged /\ merged[n] = "live" /\ e \in Ties(n)
    BY <2>1, FoundIsTied
  <2>5. /\ DOMAIN j = Fields /\ j.step = "remove" /\ j.e = e /\ j.ids = {} /\ j.all = {}
        /\ j.into = n /\ j.from = {} /\ j.then = "relate" /\ j.todo = {}
    BY <2>2 DEF NewJob, Fields
  <2>6. JobOK(j) /\ Involved(j) = {e} /\ Held(j) \subseteq {n}
    BY <2>4, <2>5 DEF JobOK, Involved, Held
  <2>7. ASSUME NEW S \in SUBSET Entities, Apart(S)
        PROVE  /\ Whole(Involved(j), S)
               /\ \A m \in Held(j) : Whole(Ties(m) \cup Involved(j), S)
    <3>1. Whole(Ties(n), S)
      BY <2>4, <2>7 DEF Apart
    <3> QED BY <2>4, <2>6, <3>1 DEF Whole
  <2>8. \A m \in Held(j) : merged'[m] # "none"
    BY <1>1, <2>4, <2>6
  <2> QED BY <1>1, <2>3, <2>6, <2>7, <2>8, SameNone, WidenStep DEF MInv
<1> QED BY <1>2, <1>3

-----------------------------------------------------------------------------
(* Only matches share a merged entity *)

LEMMA InitMInv == Init => MInv
<1> SUFFICES ASSUME Init PROVE MInv
  OBVIOUS
<1>1. \A m \in Merged : Sources(m) = {} /\ Ties(m) = {}
  <2>1. \A m \in Merged : m # Nowhere
    BY ResolutionAssumption DEF Merged, Nowhere
  <2> QED BY <2>1 DEF Init, Sources, Members, Ties
<1>2. Shape
  BY DEF Init, Shape
<1>3. Links
  BY ResolutionAssumption DEF Init, Links, Valid
<1>4. Fresh /\ Together
  BY <1>1 DEF Init, Fresh, Together, Apart, Whole
<1> QED BY <1>2, <1>3, <1>4 DEF MInv

\* Only the relationships that may arrive are stored.
LEMMA RulesStep ==
  ASSUME rules \subseteq Relations, [Next]_vars
  PROVE  rules' \subseteq Relations
<1>1. CASE \E r \in Relations : StageRelationship(r)
  BY <1>1 DEF StageRelationship
<1>2. CASE UNCHANGED rules
  BY <1>2
<1>3. ASSUME NEW c \in Consumers, Merge(c) PROVE UNCHANGED rules
  BY <1>3 DEF Merge, FindMatches, Load, FindClusters, FindSingle, Create, UpdateThenAdd, Add, Move, Rewire,
              Drop, Finish, MergeFails, Fails, Relate, FindEnd, PutEdge, Related, relationships
<1>4. ASSUME NEW c \in Consumers, Delete(c) \/ Fault(c) PROVE UNCHANGED rules
  BY <1>4 DEF Delete, Remove, CheckMembers, Bury, Cascade, Fault, relationships
<1>5. ASSUME NEW c \in Consumers, NEW e \in Entities, Index(c, e) \/ TakeDeleted(c, e) PROVE UNCHANGED rules
  BY <1>5 DEF Index, TakeDeleted, relationships
<1>6. ASSUME \/ \E p \in Feed : Upsert(p[1], p[2])
             \/ \E e \in Entities : SoftDeleteStaged(e)
             \/ \E r \in Relations : TakeRelationship(r)
             \/ PutRelationship \/ UNCHANGED vars
      PROVE  UNCHANGED rules
  BY <1>6 DEF Upsert, SoftDeleteStaged, TakeRelationship, PutRelationship, relationships, vars
<1> QED BY <1>1, <1>2, <1>3, <1>4, <1>5, <1>6 DEF Next

LEMMA MInvStep ==
  ASSUME NoMerge = {}, MInv, rules \subseteq Relations, [Next]_vars
  PROVE  MInv'
<1>1. CASE \/ \E p \in Feed : Upsert(p[1], p[2])
           \/ \E e \in Entities : SoftDeleteStaged(e)
           \/ \E r \in Relations : StageRelationship(r) \/ TakeRelationship(r)
           \/ PutRelationship \/ UNCHANGED vars
  <2>1. UNCHANGED <<home, removed, index, merged, linked, task>>
    BY <1>1 DEF Upsert, SoftDeleteStaged, StageRelationship, TakeRelationship, PutRelationship, vars, tables, history
  <2> QED BY <2>1, SameMInv
<1>2. ASSUME NEW c \in Consumers, NEW e \in Entities, Index(c, e) \/ TakeDeleted(c, e) PROVE MInv'
  BY <1>2, IndexKeepsMInv, TakeDeletedKeepsMInv
<1>3. ASSUME NEW c \in Consumers, Merge(c) PROVE MInv'
  <2>1. CASE FindMatches(c) \/ Load(c) \/ FindClusters(c) \/ FindSingle(c) \/ Create(c)
    BY <2>1, FindMatchesKeepsMInv, LoadKeepsMInv, FindClustersKeepsMInv, FindSingleKeepsMInv, CreateKeepsMInv
  <2>2. CASE UpdateThenAdd(c) \/ Finish(c) \/ Rewire(c) \/ MergeFails(c) \/ Related(c)
    BY <2>2, GoesOnKeepsMInv, EndsKeepMInv DEF GoesOn, Ends
  <2>3. CASE Add(c) \/ Move(c) \/ Drop(c)
    BY <2>3, AddKeepsMInv, MoveKeepsMInv, DropKeepsMInv
  <2>4. CASE FindEnd(c) \/ PutEdge(c)
    BY <2>4, EdgesKeepMInv DEF Relating
  <2>5. CASE Relate(c)
    <3>1. CASE Waiting(task[c].e) = {}
      BY <2>5, <3>1, EndsKeepMInv DEF Ends, Relate
    <3>2. CASE Waiting(task[c].e) # {}
      BY <2>5, <3>2, EdgesKeepMInv DEF Relating
    <3> QED BY <3>1, <3>2
  <2> QED BY <1>3, <2>1, <2>2, <2>3, <2>4, <2>5 DEF Merge
<1>4. ASSUME NEW c \in Consumers, Delete(c) \/ Fault(c) PROVE MInv'
  <2>1. CASE Remove(c) \/ Cascade(c) \/ Fault(c)
    BY <2>1, RemoveKeepsMInv, EndsKeepMInv DEF Ends
  <2>2. CASE CheckMembers(c)
    <3>1. (CheckMembers(c) /\ Done(c)) \/ (CheckMembers(c) /\ Goto(c, "bury"))
      BY <2>2 DEF CheckMembers
    <3> QED BY <3>1, EndsKeepMInv, GoesOnKeepsMInv DEF Ends, GoesOn
  <2>3. CASE Bury(c)
    <3>1. (Bury(c) /\ Done(c)) \/ (Bury(c) /\ Goto(c, "cascade"))
      BY <2>3 DEF Bury
    <3> QED BY <3>1, EndsKeepMInv, GoesOnKeepsMInv DEF Ends, GoesOn
  <2> QED BY <1>4, <2>1, <2>2, <2>3 DEF Delete
<1> QED BY <1>1, <1>2, <1>3, <1>4 DEF Next

\* For any entities, rules without no-merge conditions and instances, whatever these
\* interleave and wherever they die: two entities have been sources of one merged
\* entity only if a chain of matches leads from one to the other.
THEOREM OnlyMatchesMerge ==
  ASSUME NoMerge = {}
  PROVE  Spec => []MergedOnlyByMatch
<1> DEFINE I == MInv /\ rules \subseteq Relations
<1>1. Init => I
  BY InitMInv DEF Init
<1>2. I /\ [Next]_vars => I'
  BY MInvStep, RulesStep
<1>3. I => MergedOnlyByMatch
  <2> SUFFICES ASSUME MInv, NEW S \in SUBSET Entities, Closed(S), NEW m \in Merged
               PROVE  Sources(m) \subseteq S \/ Sources(m) \cap S = {}
    BY DEF MergedOnlyByMatch
  <2>1. Whole(Ties(m), S)
    BY DEF MInv, Together, Apart
  <2> QED BY <2>1 DEF Whole, Ties
<1> HIDE DEF I
<1> QED BY <1>1, <1>2, <1>3, PTL DEF Spec

-----------------------------------------------------------------------------
(* Without overlap: the inductive invariants *)

NoOverlap == "overlap" \notin trouble

\* m is live, p a pair of live merged entities, when merged_entities is mg.
LiveIn(mg, m) == m \in Merged /\ mg[m] = "live"
LivePair(mg, p) == \E m, n \in Merged : LiveIn(mg, m) /\ LiveIn(mg, n) /\ p = <<m, n>>
Empty(hm, m) == \A e \in Entities : hm[e] # m

\* Steps of a job that has no merged entity yet, or whose merged entity is buried.
Homeless == {"match", "load", "find", "single", "create", "cascade"}

\* What the instance with job j knows of the merged entities it works on, step by
\* step, when the tables are mg and hm.
Placed(j, mg, hm) ==
    /\ j.step \notin Homeless => LiveIn(mg, j.into)
    /\ j.step \in {"move", "rewire", "drop"} =>
         j.into \notin j.from /\ \A m \in j.from : LiveIn(mg, m)
    /\ j.step \in {"rewire", "drop"} => Empty(hm, Oldest(j.from))
    /\ j.step = "bury" => Empty(hm, j.into)
    /\ j.pair = <<>> \/ (j.step = "edge" /\ LivePair(mg, j.pair))

Housed(mg, hm) == \A e \in Entities : hm[e] # Nowhere => LiveIn(mg, hm[e])
OneByOne == \A c, d \in Consumers : task[c] # Idle /\ task[d] # Idle => c = d
InPlace == \A c \in Consumers : task[c] # Idle => Placed(task[c], merged, home)
LInv == Shape /\ (NoOverlap => OneByOne /\ Housed(merged, home) /\ InPlace)

Calm == trouble \subseteq {"delete"}

\* The relationship consumer writes between events of the merge consumer; an edge
\* ends at a deleted merged entity only until its deletion cascades; and a
\* consolidated cluster loses its edges before it is dropped.
TakesTurns == relTask = Idle \/ (LivePair(merged, relTask) /\ \A c \in Consumers : task[c] = Idle)
Attached ==
    \A p \in edges : \A m \in {p[1], p[2]} :
        LiveIn(merged, m) \/ \E c \in Consumers : task[c] # Idle /\ task[c].step = "cascade" /\ task[c].into = m
Detached ==
    \A c \in Consumers : task[c] # Idle /\ task[c].step = "drop" =>
        \A p \in edges : Oldest(task[c].from) \notin {p[1], p[2]}
EInv == LInv /\ (Calm => TakesTurns /\ Attached /\ Detached)

-----------------------------------------------------------------------------
(* No entity is left with a deleted merged entity *)

LEMMA SameLInv ==
  ASSUME LInv, UNCHANGED <<home, index, merged, task>>, trouble \subseteq trouble'
  PROVE  LInv'
  BY DEF LInv, Shape, JobOK, NoOverlap, OneByOne, InPlace

\* A step of an instance that has a job, and goes on with job j.
LEMMA AloneStep ==
  ASSUME LInv, NEW c \in Consumers, task[c] # Idle, NEW j, task' = [task EXCEPT ![c] = j],
         j = Idle \/ JobOK(j), trouble \subseteq trouble',
         home' \in [Entities -> Merged \cup {Nowhere}], DOMAIN index' = Entities, DOMAIN merged' = Merged,
         Housed(merged, home) /\ Placed(task[c], merged, home) =>
            Housed(merged', home') /\ (j = Idle \/ Placed(j, merged', home'))
  PROVE  LInv'
<1>1. DOMAIN task' = Consumers /\ task'[c] = j /\ \A d \in Consumers \ {c} : task'[d] = task[d]
  BY JobGoes DEF LInv
<1>2. Shape'
  BY <1>1 DEF LInv, Shape, JobOK
<1>3. ASSUME NoOverlap' PROVE OneByOne' /\ Housed(merged', home') /\ InPlace'
  <2>1. NoOverlap /\ OneByOne /\ Housed(merged, home) /\ InPlace
    BY <1>3 DEF LInv, NoOverlap
  <2>2. \A d \in Consumers \ {c} : task'[d] = Idle
    BY <1>1, <2>1 DEF OneByOne
  <2>3. Housed(merged', home') /\ (j = Idle \/ Placed(j, merged', home'))
    BY <2>1 DEF InPlace
  <2> QED BY <1>1, <2>2, <2>3 DEF OneByOne, InPlace
<1> QED BY <1>2, <1>3 DEF LInv

\* The same when no table that matters changes.
LEMMA AloneStays ==
  ASSUME LInv, NEW c \in Consumers, task[c] # Idle, NEW j, task' = [task EXCEPT ![c] = j],
         j = Idle \/ JobOK(j), trouble \subseteq trouble', UNCHANGED <<home, index, merged>>,
         Placed(task[c], merged, home) /\ Housed(merged, home) => j = Idle \/ Placed(j, merged, home)
  PROVE  LInv'
<1>1. home' \in [Entities -> Merged \cup {Nowhere}] /\ DOMAIN index' = Entities /\ DOMAIN merged' = Merged
  BY DEF LInv, Shape
<1> QED BY <1>1, AloneStep

\* Handlers that end, whether their event is committed or not.
Stops(c) ==
    \/ MergeFails(c) \/ Related(c) \/ Cascade(c) \/ Fault(c)
    \/ Relate(c) /\ Waiting(task[c].e) = {}
    \/ CheckMembers(c) /\ Members(task[c].into) # {}
    \/ Bury(c) /\ merged[task[c].into] # "live"

LEMMA StopsFacts ==
  ASSUME NEW c \in Consumers, Stops(c)
  PROVE  /\ task[c] # Idle /\ task' = [task EXCEPT ![c] = Idle] /\ trouble \subseteq trouble'
         /\ UNCHANGED <<home, index, merged, relationships>>
<1>1. CASE MergeFails(c) \/ Related(c)
  BY <1>1 DEF MergeFails, Refused, Related, Fails, Done, At, tables, history
<1>2. CASE Cascade(c) \/ Fault(c)
  BY <1>2 DEF Cascade, Fault, Done, At, tables, history
<1>3. CASE Relate(c) /\ Waiting(task[c].e) = {}
  BY <1>3 DEF Relate, Done, At, tables, history
<1>4. CASE CheckMembers(c) /\ Members(task[c].into) # {}
  BY <1>4 DEF CheckMembers, Done, At, tables, history
<1>5. CASE Bury(c) /\ merged[task[c].into] # "live"
  BY <1>5 DEF Bury, Done, At, tables, history
<1> QED BY <1>1, <1>2, <1>3, <1>4, <1>5 DEF Stops

LEMMA StopsKeepLInv ==
  ASSUME LInv, NEW c \in Consumers, Stops(c)
  PROVE  LInv'
<1>1. /\ task[c] # Idle /\ task' = [task EXCEPT ![c] = Idle] /\ trouble \subseteq trouble'
      /\ UNCHANGED <<home, index, merged>>
  BY StopsFacts
<1>2. PICK j : j = Idle
  OBVIOUS
<1> QED BY <1>1, <1>2, AloneStays

\* A job that only moves to another step.
LEMMA Stepped ==
  ASSUME NEW t, JobOK(t), NEW s, NEW j, j = [t EXCEPT !.step = s],
         s \notin {"move", "rewire", "drop"} \/ t.from # {}
  PROVE  /\ JobOK(j) /\ j.step = s /\ j.e = t.e /\ j.ids = t.ids /\ j.all = t.all /\ j.into = t.into
         /\ j.from = t.from /\ j.then = t.then /\ j.todo = t.todo /\ j.pair = t.pair
<1>1. /\ DOMAIN j = Fields /\ j.step = s /\ j.e = t.e /\ j.ids = t.ids /\ j.all = t.all /\ j.into = t.into
      /\ j.from = t.from /\ j.then = t.then /\ j.todo = t.todo /\ j.pair = t.pair
  BY DEF JobOK, Fields
<1> QED BY <1>1 DEF JobOK

\* Statements that read, or write what no other statement decides by.
GoesTo(c, s) ==
    \/ UpdateThenAdd(c) /\ s = "add"
    \/ Finish(c) /\ s = "relate"
    \/ Rewire(c) /\ s = "drop"
    \/ CheckMembers(c) /\ Members(task[c].into) = {} /\ s = "bury"

LEMMA GoesToFacts ==
  ASSUME Shape, NEW c \in Consumers, NEW s, GoesTo(c, s)
  PROVE  /\ task[c] # Idle /\ UNCHANGED <<home, index, merged, relationships, trouble>>
         /\ \E j : /\ j = [task[c] EXCEPT !.step = s] /\ task' = [task EXCEPT ![c] = j]
                   /\ JobOK(j) /\ j.step = s /\ j.into = task[c].into /\ j.from = task[c].from
                   /\ j.pair = task[c].pair
         /\ s = "add" => task[c].step = "update"
         /\ s = "relate" => task[c].step = "finish"
         /\ s = "drop" => task[c].step = "rewire"
         /\ s = "bury" => task[c].step = "members" /\ Empty(home, task[c].into)
         /\ s \in {"add", "relate", "drop", "bury"}
<1>1. task[c] # Idle /\ UNCHANGED <<home, index, merged, relationships, trouble>>
  BY DEF GoesTo, UpdateThenAdd, Finish, Rewire, CheckMembers, At, tables, history
<1>2. PICK t, j : t = task[c] /\ JobOK(t) /\ j = [t EXCEPT !.step = s]
  BY <1>1, JobAt
<1>3. /\ s = "add" => t.step = "update"
      /\ s = "relate" => t.step = "finish"
      /\ s = "drop" => t.step = "rewire"
      /\ s = "bury" => t.step = "members" /\ Members(t.into) = {}
      /\ s \in {"add", "relate", "drop", "bury"}
  BY <1>2 DEF GoesTo, UpdateThenAdd, Finish, Rewire, CheckMembers, At
<1>4. s \notin {"move", "rewire", "drop"} \/ t.from # {}
  BY <1>2, <1>3 DEF JobOK
<1>5. task' = [task EXCEPT ![c] = j]
  BY <1>2 DEF GoesTo, UpdateThenAdd, Finish, Rewire, CheckMembers, Goto
<1>6. JobOK(j) /\ j.step = s /\ j.into = t.into /\ j.from = t.from /\ j.pair = t.pair
  BY <1>2, <1>4, Stepped
<1>7. s = "bury" => Empty(home, t.into)
  BY <1>3 DEF Members, Empty
<1> QED BY <1>1, <1>2, <1>3, <1>5, <1>6, <1>7

LEMMA GoesToKeepsLInv ==
  ASSUME LInv, NEW c \in Consumers, NEW s, GoesTo(c, s)
  PROVE  LInv'
<1>1. Shape
  BY DEF LInv
<1>2. PICK t, j : /\ t = task[c] /\ j = [t EXCEPT !.step = s] /\ task' = [task EXCEPT ![c] = j]
                  /\ JobOK(j) /\ j.step = s /\ j.into = t.into /\ j.from = t.from /\ j.pair = t.pair
  BY <1>1, GoesToFacts
<1>3. Placed(t, merged, home) => Placed(j, merged, home)
  <2>1. /\ s = "add" => t.step = "update"
        /\ s = "relate" => t.step = "finish"
        /\ s = "drop" => t.step = "rewire"
        /\ s = "bury" => t.step = "members" /\ Empty(home, t.into)
        /\ s \in {"add", "relate", "drop", "bury"}
    BY <1>1, <1>2, GoesToFacts
  <2> QED BY <1>2, <2>1 DEF Placed, Homeless
<1> QED BY <1>1, <1>2, <1>3, GoesToFacts, AloneStays

LEMMA FindMatchesKeepsLInv ==
  ASSUME LInv, NEW c \in Consumers, FindMatches(c) \/ Load(c)
  PROVE  LInv'
<1>1. task[c] # Idle /\ task[c].step \in {"match", "load"} /\ UNCHANGED <<home, index, merged, trouble>>
  BY DEF FindMatches, Load, At, tables, history
<1>2. PICK t : t = task[c] /\ JobOK(t)
  BY <1>1, JobAt DEF LInv
<1>3. PICK s, ids, all, j : /\ s \in {"single", "load", "find"} /\ j = [t EXCEPT !.step = s, !.ids = ids, !.all = all]
                            /\ ids \subseteq Entities /\ all \subseteq Entities
                            /\ task' = [task EXCEPT ![c] = j]
  <2>1. CASE FindMatches(c)
    <3>1. PICK s, ids : /\ s \in {"single", "load"} /\ ids \subseteq Entities
                        /\ task' = [task EXCEPT ![c] = [t EXCEPT !.step = s, !.ids = ids]]
      BY <1>2, <2>1 DEF FindMatches, Step, Others, JobOK
    <3>2. [t EXCEPT !.step = s, !.ids = ids] = [t EXCEPT !.step = s, !.ids = ids, !.all = t.all]
      BY <1>2 DEF JobOK, Fields
    <3>3. t.all \subseteq Entities
      BY <1>2 DEF JobOK
    <3> QED BY <3>1, <3>2, <3>3
  <2>2. CASE Load(c)
    <3>1. PICK s, all : /\ s \in {"single", "find"} /\ all \subseteq Entities
                        /\ task' = [task EXCEPT ![c] = [t EXCEPT !.step = s, !.all = all]]
      BY <1>2, <2>2 DEF Load, Step, JobOK
    <3>2. [t EXCEPT !.step = s, !.all = all] = [t EXCEPT !.step = s, !.ids = t.ids, !.all = all]
      BY <1>2 DEF JobOK, Fields
    <3>3. t.ids \subseteq Entities
      BY <1>2 DEF JobOK
    <3> QED BY <3>1, <3>2, <3>3
  <2> QED BY <1>1, <2>1, <2>2
<1>4. /\ DOMAIN j = Fields /\ j.step = s /\ j.e = t.e /\ j.ids = ids /\ j.all = all
      /\ j.into = t.into /\ j.from = t.from /\ j.then = t.then /\ j.todo = t.todo /\ j.pair = t.pair
  BY <1>2, <1>3 DEF JobOK, Fields
<1>5. JobOK(j)
  BY <1>2, <1>3, <1>4 DEF JobOK
<1>6. Placed(t, merged, home) => Placed(j, merged, home)
  BY <1>1, <1>2, <1>3, <1>4 DEF Placed, Homeless
<1> QED BY <1>1, <1>2, <1>3, <1>5, <1>6, AloneStays

LEMMA FindClustersKeepsLInv ==
  ASSUME LInv, NEW c \in Consumers, FindClusters(c)
  PROVE  LInv'
<1>1. task[c] # Idle /\ task[c].step = "find" /\ UNCHANGED <<home, index, merged, trouble>>
  BY DEF FindClusters, At, tables, history
<1>2. PICK t, found : t = task[c] /\ found = Clusters(t.ids) /\ JobOK(t)
  BY <1>1, JobAt DEF LInv
<1>3. CASE found = {}
  <2>1. PICK j : j = [t EXCEPT !.step = "create"] /\ task' = [task EXCEPT ![c] = j]
    <3>1. Cardinality(found) # 1
      BY <1>3, FS_EmptySet
    <3>2. task' = [task EXCEPT ![c] = [t EXCEPT !.step = "create"]]
      BY <1>2, <1>3, <3>1, Zenon DEF FindClusters, Step
    <3> QED BY <3>2
  <2>2. JobOK(j) /\ j.step = "create" /\ j.pair = t.pair
    BY <1>2, <2>1, Stepped
  <2>3. Placed(t, merged, home) => Placed(j, merged, home)
    BY <1>1, <1>2, <2>2 DEF Placed, Homeless
  <2> QED BY <1>1, <1>2, <2>1, <2>2, <2>3, AloneStays
<1>4. CASE found # {}
  <2>1. found \in SUBSET Merged /\ \A m \in found : LiveIn(merged, m)
    BY <1>2 DEF Clusters, LiveIn
  <2>2. PICK o : o = Oldest(found) /\ o \in found
    BY <1>4, <2>1, OldestOf
  <2>3. PICK job : job = [t EXCEPT !.into = o, !.from = found \ {o}]
    OBVIOUS
  <2>4. /\ DOMAIN job = Fields /\ job.e = t.e /\ job.ids = t.ids /\ job.all = t.all
        /\ job.into = o /\ job.from = found \ {o} /\ job.then = t.then /\ job.todo = t.todo /\ job.pair = t.pair
    BY <1>2, <2>3 DEF JobOK, Fields
  <2>5. PICK j : /\ task' = [task EXCEPT ![c] = j]
                 /\ \/ j = [job EXCEPT !.step = "update"]
                    \/ j = [job EXCEPT !.step = "move", !.then = "finish"] /\ Cardinality(found) # 1
    BY <1>2, <1>4, <2>2, <2>3 DEF FindClusters, Step
  <2>6. /\ DOMAIN j = Fields /\ j.e = t.e /\ j.ids = t.ids /\ j.all = t.all
        /\ j.into = o /\ j.from = found \ {o} /\ j.then \in {t.then, "finish"} /\ j.todo = t.todo /\ j.pair = t.pair
        /\ j.step = "update" \/ (j.step = "move" /\ Cardinality(found) # 1)
    BY <2>4, <2>5 DEF Fields
  <2>7. Cardinality(found) # 1 => found \ {o} # {}
    <3>1. found \ {o} = {} => found = {o}
      BY <2>2
    <3> QED BY <3>1, FS_Singleton
  <2>8. JobOK(j)
    BY <1>2, <2>1, <2>2, <2>6, <2>7 DEF JobOK
  <2>9. Placed(t, merged, home) => Placed(j, merged, home)
    BY <1>1, <1>2, <2>1, <2>2, <2>6 DEF Placed, Homeless
  <2> QED BY <1>1, <1>2, <2>5, <2>8, <2>9, AloneStays
<1> QED BY <1>3, <1>4

LEMMA FindSingleKeepsLInv ==
  ASSUME LInv, NEW c \in Consumers, FindSingle(c)
  PROVE  LInv'
<1>1. task[c] # Idle /\ task[c].step = "single" /\ UNCHANGED <<home, index, merged, trouble>>
  BY DEF FindSingle, At, tables, history
<1>2. PICK t, own : t = task[c] /\ own = Clusters({t.e}) /\ JobOK(t)
  BY <1>1, JobAt DEF LInv
<1>3. PICK job : job = [t EXCEPT !.all = {t.e}]
  OBVIOUS
<1>4. PICK j : /\ task' = [task EXCEPT ![c] = j]
               /\ \/ own = {} /\ j = [job EXCEPT !.step = "create"]
                  \/ own # {} /\ j = [job EXCEPT !.step = "finish", !.into = Oldest(own)]
  BY <1>2, <1>3 DEF FindSingle, Step
<1>5. \A m \in own : LiveIn(merged, m)
  BY <1>2 DEF Clusters, LiveIn
<1>6. own # {} => Oldest(own) \in own
  <2>1. own \in SUBSET Merged
    BY <1>2 DEF Clusters
  <2> QED BY <2>1, OldestOf
<1>7. /\ DOMAIN job = Fields /\ job.e = t.e /\ job.ids = t.ids /\ job.all = {t.e}
      /\ job.into = t.into /\ job.from = t.from /\ job.then = t.then /\ job.todo = t.todo /\ job.pair = t.pair
  BY <1>2, <1>3 DEF JobOK, Fields
<1>8. /\ DOMAIN j = Fields /\ j.e = t.e /\ j.ids = t.ids /\ j.all = {t.e}
      /\ j.from = t.from /\ j.then = t.then /\ j.todo = t.todo /\ j.pair = t.pair
      /\ \/ j.step = "create" /\ j.into = t.into
         \/ j.step = "finish" /\ j.into \in own
  BY <1>4, <1>6, <1>7 DEF Fields
<1>9. JobOK(j)
  BY <1>2, <1>5, <1>8 DEF JobOK, LiveIn
<1>10. Placed(t, merged, home) => Placed(j, merged, home)
  BY <1>1, <1>2, <1>5, <1>8 DEF Placed, Homeless
<1> QED BY <1>1, <1>2, <1>4, <1>9, <1>10, AloneStays

LEMMA CreateKeepsLInv ==
  ASSUME LInv, NEW c \in Consumers, Create(c)
  PROVE  LInv'
<1>1. task[c] # Idle /\ task[c].step = "create" /\ UNCHANGED <<home, index, trouble>>
  BY DEF Create, At, history
<1>2. PICK t : t = task[c] /\ JobOK(t)
  BY <1>1, JobAt DEF LInv
<1>3. PICK n \in Merged : /\ merged' = [merged EXCEPT ![n] = "live"]
                          /\ task' = [task EXCEPT ![c] = [t EXCEPT !.step = "add", !.into = n]]
  BY <1>2 DEF Create, Step
<1>4. PICK j : j = [t EXCEPT !.step = "add", !.into = n]
  OBVIOUS
<1>5. /\ DOMAIN j = Fields /\ j.step = "add" /\ j.e = t.e /\ j.ids = t.ids /\ j.all = t.all
      /\ j.into = n /\ j.from = t.from /\ j.then = t.then /\ j.todo = t.todo /\ j.pair = t.pair
  BY <1>2, <1>4 DEF JobOK, Fields
<1>6. JobOK(j)
  BY <1>2, <1>5 DEF JobOK
<1>7. /\ home' \in [Entities -> Merged \cup {Nowhere}] /\ DOMAIN index' = Entities /\ DOMAIN merged' = Merged
      /\ \A m : LiveIn(merged, m) => LiveIn(merged', m)
      /\ LiveIn(merged', n)
  BY <1>1, <1>3 DEF LInv, Shape, LiveIn
<1>8. Housed(merged, home) => Housed(merged', home')
  BY <1>1, <1>7 DEF Housed
<1>9. Placed(t, merged, home) => Placed(j, merged', home')
  BY <1>1, <1>2, <1>5, <1>7 DEF Placed, Homeless
<1> QED BY <1>1, <1>2, <1>3, <1>4, <1>6, <1>7, <1>8, <1>9, AloneStep

LEMMA AddKeepsLInv ==
  ASSUME LInv, NEW c \in Consumers, Add(c)
  PROVE  LInv'
<1>1. task[c] # Idle /\ task[c].step = "add" /\ UNCHANGED <<index, merged, trouble>>
  BY DEF Add, At, history
<1>2. PICK t : t = task[c] /\ JobOK(t)
  BY <1>1, JobAt DEF LInv
<1>3. PICK f \in t.all : /\ home' = [home EXCEPT ![f] = t.into]
                         /\ \E s : task' = [task EXCEPT ![c] = [t EXCEPT !.all = @ \ {f}, !.step = s]]
                                   /\ s \in {t.then, "add"}
  BY <1>2 DEF Add, Step, AddToCluster
<1>4. PICK s, j : /\ j = [t EXCEPT !.all = @ \ {f}, !.step = s] /\ task' = [task EXCEPT ![c] = j]
                  /\ s \in {t.then, "add"}
  BY <1>3
<1>5. /\ DOMAIN j = Fields /\ j.step = s /\ j.e = t.e /\ j.ids = t.ids /\ j.all = t.all \ {f}
      /\ j.into = t.into /\ j.from = t.from /\ j.then = t.then /\ j.todo = t.todo /\ j.pair = t.pair
  BY <1>2, <1>4 DEF JobOK, Fields
<1>6. JobOK(j) /\ s \in {"finish", "relate", "add"} /\ f \in Entities /\ t.into \in Merged \cup {Nowhere}
  BY <1>2, <1>3, <1>4, <1>5 DEF JobOK
<1>7. /\ home' \in [Entities -> Merged \cup {Nowhere}] /\ DOMAIN index' = Entities /\ DOMAIN merged' = Merged
      /\ \A e \in Entities : home'[e] \in {home[e], t.into}
  BY <1>1, <1>3, <1>6 DEF LInv, Shape
<1>8. Placed(t, merged, home) => LiveIn(merged, t.into) /\ Placed(j, merged', home')
  BY <1>1, <1>2, <1>5, <1>6 DEF Placed, Homeless
<1>9. Housed(merged, home) /\ LiveIn(merged, t.into) => Housed(merged', home')
  BY <1>1, <1>7 DEF Housed
<1> QED BY <1>1, <1>2, <1>4, <1>6, <1>7, <1>8, <1>9, AloneStep

LEMMA MoveKeepsLInv ==
  ASSUME LInv, NEW c \in Consumers, Move(c)
  PROVE  LInv'
<1>1. task[c] # Idle /\ task[c].step = "move" /\ UNCHANGED <<index, merged, trouble>>
  BY DEF Move, At, history
<1>2. PICK t, m, j : /\ t = task[c] /\ JobOK(t) /\ m = Oldest(t.from) /\ j = [t EXCEPT !.step = "rewire"]
  BY <1>1, JobAt DEF LInv
<1>3. /\ home' = [e \in Entities |-> IF home[e] = m THEN t.into ELSE home[e]]
      /\ task' = [task EXCEPT ![c] = j]
  BY <1>2 DEF Move, MoveClusterMembers, Goto
<1>4. t.from # {} /\ t.from \in SUBSET Merged /\ t.into \in Merged \cup {Nowhere}
  BY <1>1, <1>2 DEF JobOK
<1>5. m \in t.from
  BY <1>2, <1>4, OldestOf
<1>6. JobOK(j) /\ j.step = "rewire" /\ j.into = t.into /\ j.from = t.from /\ j.pair = t.pair
  BY <1>2, <1>4, Stepped
<1>7. /\ home' \in [Entities -> Merged \cup {Nowhere}] /\ DOMAIN index' = Entities /\ DOMAIN merged' = Merged
      /\ \A e \in Entities : home'[e] = IF home[e] = m THEN t.into ELSE home[e]
  BY <1>1, <1>3, <1>4 DEF LInv, Shape
<1>8. ASSUME Housed(merged, home), Placed(t, merged, home)
      PROVE  Housed(merged', home') /\ Placed(j, merged', home')
  <2>1. LiveIn(merged, t.into) /\ t.into \notin t.from /\ t.pair = <<>> /\ \A n \in t.from : LiveIn(merged, n)
    BY <1>1, <1>2, <1>8 DEF Placed, Homeless
  <2>2. Housed(merged', home')
    BY <1>1, <1>7, <1>8, <2>1 DEF Housed
  <2>3. Empty(home', m)
    BY <1>5, <1>7, <2>1 DEF Empty
  <2> QED BY <1>1, <1>2, <1>6, <2>1, <2>2, <2>3 DEF Placed
<1> QED BY <1>1, <1>2, <1>3, <1>6, <1>7, <1>8, AloneStep

LEMMA DropKeepsLInv ==
  ASSUME LInv, NEW c \in Consumers, Drop(c)
  PROVE  LInv'
<1>1. task[c] # Idle /\ task[c].step = "drop" /\ UNCHANGED <<home, index, trouble>>
  BY DEF Drop, At, history
<1>2. PICK t, m : t = task[c] /\ m = Oldest(t.from) /\ JobOK(t)
  BY <1>1, JobAt DEF LInv
<1>3. PICK s, j : /\ j = [t EXCEPT !.from = @ \ {m}, !.step = s] /\ task' = [task EXCEPT ![c] = j]
                  /\ s = IF t.from = {m} THEN "add" ELSE "move"
  BY <1>2 DEF Drop, Step
<1>4. merged' = [merged EXCEPT ![m] = "deleted"]
  BY <1>2 DEF Drop, SoftDelete
<1>5. t.from # {} /\ t.from \in SUBSET Merged
  BY <1>1, <1>2 DEF JobOK
<1>6. m \in t.from
  BY <1>2, <1>5, OldestOf
<1>7. /\ DOMAIN j = Fields /\ j.step = s /\ j.e = t.e /\ j.ids = t.ids /\ j.all = t.all
      /\ j.into = t.into /\ j.from = t.from \ {m} /\ j.then = t.then /\ j.todo = t.todo /\ j.pair = t.pair
  BY <1>2, <1>3 DEF JobOK, Fields
<1>8. JobOK(j)
  BY <1>2, <1>3, <1>5, <1>7 DEF JobOK
<1>9. /\ home' \in [Entities -> Merged \cup {Nowhere}] /\ DOMAIN index' = Entities /\ DOMAIN merged' = Merged
      /\ \A n : n # m /\ LiveIn(merged, n) => LiveIn(merged', n)
  BY <1>1, <1>4 DEF LInv, Shape, LiveIn
<1>10. ASSUME Housed(merged, home), Placed(t, merged, home)
       PROVE  Housed(merged', home') /\ Placed(j, merged', home')
  <2>1. /\ LiveIn(merged, t.into) /\ t.into \notin t.from /\ t.pair = <<>>
        /\ \A n \in t.from : LiveIn(merged, n)
        /\ Empty(home, m)
    BY <1>1, <1>2, <1>10 DEF Placed, Homeless
  <2>2. Housed(merged', home')
    BY <1>1, <1>9, <1>10, <2>1 DEF Housed, Empty
  <2> QED BY <1>3, <1>6, <1>7, <1>9, <2>1, <2>2 DEF Placed
<1> QED BY <1>1, <1>2, <1>3, <1>8, <1>9, <1>10, AloneStep

LEMMA BuryKeepsLInv ==
  ASSUME LInv, NEW c \in Consumers, Bury(c), merged[task[c].into] = "live"
  PROVE  LInv'
<1>1. task[c] # Idle /\ task[c].step = "bury" /\ UNCHANGED <<home, index, trouble>>
  BY DEF Bury, At, history
<1>2. PICK t, j : /\ t = task[c] /\ JobOK(t) /\ j = [t EXCEPT !.step = "cascade"]
  BY <1>1, JobAt DEF LInv
<1>3. merged' = [merged EXCEPT ![t.into] = "deleted"] /\ task' = [task EXCEPT ![c] = j]
  <2>1. SoftDelete(t.into) /\ Goto(c, "cascade")
    BY <1>2 DEF Bury
  <2> QED BY <1>2, <2>1 DEF SoftDelete, Goto
<1>4. JobOK(j) /\ j.step = "cascade" /\ j.into = t.into /\ j.from = t.from /\ j.pair = t.pair
  BY <1>2, Stepped
<1>5. /\ home' \in [Entities -> Merged \cup {Nowhere}] /\ DOMAIN index' = Entities /\ DOMAIN merged' = Merged
      /\ \A n : n # t.into /\ LiveIn(merged, n) => LiveIn(merged', n)
  BY <1>1, <1>3 DEF LInv, Shape, LiveIn
<1>6. ASSUME Housed(merged, home), Placed(t, merged, home)
      PROVE  Housed(merged', home') /\ Placed(j, merged', home')
  <2>1. Empty(home, t.into) /\ t.pair = <<>>
    BY <1>1, <1>2, <1>6 DEF Placed
  <2>2. Housed(merged', home')
    BY <1>1, <1>5, <1>6, <2>1 DEF Housed, Empty
  <2> QED BY <1>4, <2>1, <2>2 DEF Placed, Homeless
<1> QED BY <1>1, <1>2, <1>3, <1>4, <1>5, <1>6, AloneStep

LEMMA RemoveKeepsLInv ==
  ASSUME LInv, NEW c \in Consumers, Remove(c)
  PROVE  LInv'
<1>1. task[c] # Idle /\ task[c].step = "remove" /\ UNCHANGED <<index, merged, trouble>>
  BY DEF Remove, At, history
<1>2. PICK t, j : /\ t = task[c] /\ JobOK(t) /\ j = [t EXCEPT !.step = "members"]
  BY <1>1, JobAt DEF LInv
<1>3. task' = [task EXCEPT ![c] = j] /\ RemoveFromCluster(t.into, t.e)
  BY <1>2 DEF Remove, Goto
<1>4. JobOK(j) /\ j.step = "members" /\ j.into = t.into /\ j.from = t.from /\ j.pair = t.pair
  BY <1>2, Stepped
<1>5. home' = [home EXCEPT ![t.e] = Nowhere] \/ home' = home
  BY <1>3 DEF RemoveFromCluster
<1>6. /\ home' \in [Entities -> Merged \cup {Nowhere}] /\ DOMAIN index' = Entities /\ DOMAIN merged' = Merged
      /\ \A e \in Entities : home'[e] \in {home[e], Nowhere}
  BY <1>1, <1>2, <1>5 DEF LInv, Shape
<1>7. Housed(merged, home) => Housed(merged', home')
  BY <1>1, <1>6 DEF Housed
<1>8. Placed(t, merged, home) => Placed(j, merged', home')
  BY <1>1, <1>2, <1>4 DEF Placed, Homeless
<1> QED BY <1>1, <1>2, <1>3, <1>4, <1>6, <1>7, <1>8, AloneStep

LEMMA RelatingKeepsLInv ==
  ASSUME LInv, rules \subseteq Relations, NEW c \in Consumers, Relating(c)
  PROVE  LInv'
<1>1. Shape
  BY DEF LInv
<1>2. task[c] # Idle /\ task[c].step \in {"edge", "relate"} /\ UNCHANGED <<home, index, merged, trouble>>
  BY <1>1, RelatingFacts
<1>3. PICK t, j : /\ t = task[c] /\ task' = [task EXCEPT ![c] = j] /\ JobOK(j) /\ j.step = "edge" /\ j.into = t.into
                  /\ \/ j.pair = t.pair /\ t.step = "relate"
                     \/ j.pair = <<>>
                     \/ \E e \in Entities : /\ home[e] # Nowhere /\ t.into # Nowhere
                                            /\ j.pair \in {<<t.into, home[e]>>, <<home[e], t.into>>}
  BY <1>1, RelatingFacts
<1>4. ASSUME Placed(t, merged, home), Housed(merged, home)
      PROVE  Placed(j, merged, home)
  <2>1. LiveIn(merged, t.into) /\ (t.step = "relate" => t.pair = <<>>)
    BY <1>2, <1>3, <1>4 DEF Placed, Homeless
  <2>2. j.pair = <<>> \/ LivePair(merged, j.pair)
    <3>1. ASSUME NEW e \in Entities, home[e] # Nowhere, j.pair \in {<<t.into, home[e]>>, <<home[e], t.into>>}
          PROVE  LivePair(merged, j.pair)
      <4>1. LiveIn(merged, home[e])
        BY <1>4, <3>1 DEF Housed
      <4> QED BY <2>1, <3>1, <4>1 DEF LivePair, LiveIn
    <3> QED BY <1>3, <2>1, <3>1
  <2> QED BY <1>3, <2>1, <2>2 DEF Placed, Homeless
<1> QED BY <1>2, <1>3, <1>4, AloneStays

\* An instance takes an event: without overlap no other has one in hand.
LEMMA TakeStep ==
  ASSUME LInv, NEW c \in Consumers, NEW j, task' = [task EXCEPT ![c] = j], JobOK(j),
         trouble' = trouble \cup Overlaps, UNCHANGED <<home, merged>>, DOMAIN index' = Entities,
         Placed(j, merged, home)
  PROVE  LInv'
<1>1. DOMAIN task' = Consumers /\ task'[c] = j /\ \A d \in Consumers \ {c} : task'[d] = task[d]
  BY JobGoes DEF LInv
<1>2. Shape'
  BY <1>1 DEF LInv, Shape, JobOK
<1>3. ASSUME NoOverlap' PROVE OneByOne' /\ Housed(merged', home') /\ InPlace'
  <2>1. NoOverlap /\ Housed(merged, home) /\ \A d \in Consumers : task[d] = Idle
    BY <1>3 DEF LInv, NoOverlap, Overlaps, Busy
  <2> QED BY <1>1, <2>1 DEF OneByOne, InPlace
<1> QED BY <1>2, <1>3 DEF LInv

LEMMA IndexKeepsLInv ==
  ASSUME LInv, NEW c \in Consumers, NEW e \in Entities, Index(c, e)
  PROVE  LInv'
<1>1. /\ UNCHANGED <<home, merged>> /\ trouble' = trouble \cup Overlaps
      /\ \E v : index' = [index EXCEPT ![e] = v]
  BY DEF Index
<1>2. DOMAIN index' = Entities
  BY <1>1 DEF LInv, Shape
<1>3. PICK j : j = NewJob("match", e) /\ task' = [task EXCEPT ![c] = j]
  BY DEF Index, Step
<1>4. /\ DOMAIN j = Fields /\ j.step = "match" /\ j.e = e /\ j.ids = {} /\ j.all = {}
      /\ j.into = Nowhere /\ j.from = {} /\ j.then = "relate" /\ j.todo = {} /\ j.pair = <<>>
  BY <1>3 DEF NewJob, Fields
<1>5. JobOK(j) /\ Placed(j, merged, home)
  BY <1>4 DEF JobOK, Placed, Homeless
<1> QED BY <1>1, <1>2, <1>3, <1>5, TakeStep

LEMMA TakeDeletedKeepsLInv ==
  ASSUME LInv, NEW c \in Consumers, NEW e \in Entities, TakeDeleted(c, e)
  PROVE  LInv'
<1>1. CASE Clusters({e}) = {}
  BY <1>1, SameLInv DEF TakeDeleted, tables
<1>2. CASE Clusters({e}) # {}
  <2>1. PICK n : n = Oldest(Clusters({e})) /\ n \in Clusters({e})
    <3>1. Clusters({e}) \in SUBSET Merged
      BY DEF Clusters
    <3> QED BY <1>2, <3>1, OldestOf
  <2>2. PICK i, j : i = NewJob("remove", e) /\ j = [i EXCEPT !.into = n]
    OBVIOUS
  <2>3. /\ task' = [task EXCEPT ![c] = j] /\ trouble' = trouble \cup Overlaps
        /\ UNCHANGED <<home, merged, index>>
    BY <1>2, <2>1, <2>2 DEF TakeDeleted, Step, tables
  <2>4. LiveIn(merged, n)
    BY <2>1 DEF Clusters, LiveIn
  <2>5. /\ DOMAIN j = Fields /\ j.step = "remove" /\ j.e = e /\ j.ids = {} /\ j.all = {}
        /\ j.into = n /\ j.from = {} /\ j.then = "relate" /\ j.todo = {} /\ j.pair = <<>>
    BY <2>2 DEF NewJob, Fields
  <2>6. JobOK(j) /\ Placed(j, merged, home)
    BY <2>4, <2>5 DEF JobOK, Placed, Homeless, LiveIn
  <2>7. DOMAIN index' = Entities
    BY <2>3 DEF LInv, Shape
  <2> QED BY <2>3, <2>6, <2>7, TakeStep
<1> QED BY <1>1, <1>2

\* What the instances do not change.
LEMMA OutsideFacts ==
  ASSUME \/ \E p \in Feed : Upsert(p[1], p[2])
         \/ \E e \in Entities : SoftDeleteStaged(e)
         \/ \E r \in Relations : StageRelationship(r) \/ TakeRelationship(r)
         \/ PutRelationship \/ UNCHANGED vars
  PROVE  UNCHANGED <<home, removed, index, merged, linked, task>> /\ trouble \subseteq trouble'
  BY DEF Upsert, SoftDeleteStaged, StageRelationship, TakeRelationship, PutRelationship, vars, tables, history

LEMMA LInvStep ==
  ASSUME LInv, rules \subseteq Relations, [Next]_vars
  PROVE  LInv'
<1>1. CASE \/ \E p \in Feed : Upsert(p[1], p[2])
           \/ \E e \in Entities : SoftDeleteStaged(e)
           \/ \E r \in Relations : StageRelationship(r) \/ TakeRelationship(r)
           \/ PutRelationship \/ UNCHANGED vars
  BY <1>1, OutsideFacts, SameLInv
<1>2. ASSUME NEW c \in Consumers, NEW e \in Entities, Index(c, e) \/ TakeDeleted(c, e) PROVE LInv'
  BY <1>2, IndexKeepsLInv, TakeDeletedKeepsLInv
<1>3. ASSUME NEW c \in Consumers, Merge(c) PROVE LInv'
  <2>1. CASE FindMatches(c) \/ Load(c) \/ FindClusters(c) \/ FindSingle(c) \/ Create(c)
    BY <2>1, FindMatchesKeepsLInv, FindClustersKeepsLInv, FindSingleKeepsLInv, CreateKeepsLInv
  <2>2. CASE UpdateThenAdd(c) \/ Finish(c) \/ Rewire(c)
    BY <2>2, GoesToKeepsLInv DEF GoesTo
  <2>3. CASE Add(c) \/ Move(c) \/ Drop(c)
    BY <2>3, AddKeepsLInv, MoveKeepsLInv, DropKeepsLInv
  <2>4. CASE MergeFails(c) \/ Related(c) \/ (Relate(c) /\ Waiting(task[c].e) = {})
    BY <2>4, StopsKeepLInv DEF Stops
  <2>5. CASE FindEnd(c) \/ PutEdge(c) \/ (Relate(c) /\ Waiting(task[c].e) # {})
    BY <2>5, RelatingKeepsLInv DEF Relating
  <2> QED BY <1>3, <2>1, <2>2, <2>3, <2>4, <2>5 DEF Merge
<1>4. ASSUME NEW c \in Consumers, Delete(c) \/ Fault(c) PROVE LInv'
  <2>1. CASE Remove(c)
    BY <2>1, RemoveKeepsLInv
  <2>2. CASE CheckMembers(c)
    BY <2>2, StopsKeepLInv, GoesToKeepsLInv DEF Stops, GoesTo
  <2>3. CASE Bury(c)
    BY <2>3, StopsKeepLInv, BuryKeepsLInv DEF Stops
  <2>4. CASE Cascade(c) \/ Fault(c)
    BY <2>4, StopsKeepLInv DEF Stops
  <2> QED BY <1>4, <2>1, <2>2, <2>3, <2>4 DEF Delete
<1> QED BY <1>1, <1>2, <1>3, <1>4 DEF Next

LEMMA InitLInv == Init => LInv /\ rules \subseteq Relations
<1> SUFFICES ASSUME Init PROVE LInv /\ rules \subseteq Relations
  OBVIOUS
<1>1. Shape /\ \A c \in Consumers : task[c] = Idle
  BY DEF Init, Shape
<1>2. OneByOne /\ Housed(merged, home) /\ InPlace
  BY <1>1 DEF Init, OneByOne, Housed, InPlace
<1> QED BY <1>1, <1>2 DEF Init, LInv

\* For any entities, rules and instances, wherever these die: as long as no two
\* of them have an event in hand at once, every entity that has a merged entity
\* has a live one.
THEOREM HomesStayLive == Spec => []HomesAreLive
<1> DEFINE I == LInv /\ rules \subseteq Relations
<1>1. Init => I
  BY InitLInv
<1>2. I /\ [Next]_vars => I'
  BY LInvStep, RulesStep
<1>3. I => HomesAreLive
  BY DEF LInv, HomesAreLive, NoOverlap, Housed, LiveIn
<1> HIDE DEF I
<1> QED BY <1>1, <1>2, <1>3, PTL DEF Spec

-----------------------------------------------------------------------------
(* Edges end at live merged entities *)

\* What an instance with an event in hand can rely on, in calm.
LEMMA CalmFacts ==
  ASSUME EInv, Calm, NEW c \in Consumers, task[c] # Idle
  PROVE  /\ JobOK(task[c]) /\ Placed(task[c], merged, home) /\ Housed(merged, home) /\ relTask = Idle
         /\ \A d \in Consumers \ {c} : task[d] = Idle
         /\ \A p \in edges : \A m \in {p[1], p[2]} :
               LiveIn(merged, m) \/ (task[c].step = "cascade" /\ task[c].into = m)
         /\ task[c].step = "drop" => \A p \in edges : Oldest(task[c].from) \notin {p[1], p[2]}
<1>1. LInv /\ NoOverlap /\ TakesTurns /\ Attached /\ Detached
  BY DEF EInv, Calm, NoOverlap
<1>2. OneByOne /\ Housed(merged, home) /\ InPlace /\ Shape
  BY <1>1 DEF LInv
<1>3. \A d \in Consumers \ {c} : task[d] = Idle
  BY <1>2 DEF OneByOne
<1>4. JobOK(task[c]) /\ Placed(task[c], merged, home)
  BY <1>2, JobAt DEF InPlace
<1>5. relTask = Idle
  BY <1>1 DEF TakesTurns
<1> QED BY <1>1, <1>2, <1>3, <1>4, <1>5 DEF Attached, Detached

\* A step of an instance that has a job, and goes on with job j.
LEMMA CalmStep ==
  ASSUME EInv, LInv', trouble \subseteq trouble', NEW c \in Consumers, task[c] # Idle,
         NEW j, task' = [task EXCEPT ![c] = j], UNCHANGED relTask,
         Calm => /\ \A p \in edges' : \A m \in {p[1], p[2]} :
                       LiveIn(merged', m) \/ (j # Idle /\ j.step = "cascade" /\ j.into = m)
                 /\ j # Idle /\ j.step = "drop" => \A p \in edges' : Oldest(j.from) \notin {p[1], p[2]}
  PROVE  EInv'
<1>1. task'[c] = j /\ \A d \in Consumers \ {c} : task'[d] = task[d]
  BY JobGoes DEF EInv, LInv
<1>2. ASSUME Calm' PROVE TakesTurns' /\ Attached' /\ Detached'
  <2>1. Calm
    BY <1>2 DEF Calm
  <2>2. relTask' = Idle /\ \A d \in Consumers \ {c} : task'[d] = Idle
    BY <1>1, <2>1, CalmFacts
  <2>3. Attached'
    BY <1>1, <2>1 DEF Attached
  <2>4. Detached'
    BY <1>1, <2>1, <2>2 DEF Detached
  <2> QED BY <2>2, <2>3, <2>4 DEF TakesTurns
<1> QED BY <1>2 DEF EInv

\* The same when no edge is written and no merged entity deleted.
LEMMA QuietStep ==
  ASSUME EInv, LInv', trouble \subseteq trouble', NEW c \in Consumers, task[c] # Idle, task[c].step # "cascade",
         NEW j, task' = [task EXCEPT ![c] = j], j = Idle \/ j.step # "drop", UNCHANGED <<edges, relTask>>,
         \A m \in Merged : merged[m] = "live" => merged'[m] = "live"
  PROVE  EInv'
<1>1. Calm => \A p \in edges : \A m \in {p[1], p[2]} : LiveIn(merged, m)
  BY CalmFacts
<1>2. Calm => \A p \in edges' : \A m \in {p[1], p[2]} : LiveIn(merged', m)
  BY <1>1 DEF LiveIn
<1> QED BY <1>2, CalmStep

\* The statements that write neither edges nor the state of a merged entity.
LEMMA QuietFacts ==
  ASSUME Shape, NEW c \in Consumers,
         \/ FindMatches(c) \/ Load(c) \/ FindClusters(c) \/ FindSingle(c)
         \/ Create(c) \/ Add(c) \/ Move(c) \/ Remove(c)
  PROVE  /\ task[c] # Idle /\ task[c].step # "cascade" /\ UNCHANGED <<edges, relTask, trouble>>
         /\ \A m \in Merged : merged[m] = "live" => merged'[m] = "live"
         /\ \E j : task' = [task EXCEPT ![c] = j] /\ j.step # "drop"
<1>1. task[c] # Idle /\ task[c].step # "cascade" /\ UNCHANGED <<edges, relTask, trouble>>
  BY DEF FindMatches, Load, FindClusters, FindSingle, Create, Add, Move, Remove, At, tables, relationships, history
<1>2. \A m \in Merged : merged[m] = "live" => merged'[m] = "live"
  <2>1. CASE Create(c)
    BY <2>1 DEF Create, Shape
  <2> QED BY <2>1 DEF FindMatches, Load, FindClusters, FindSingle, Add, Move, Remove, tables
<1>3. PICK t : t = task[c] /\ DOMAIN t = Fields /\ t.then \in {"finish", "relate"}
  BY <1>1, JobAt DEF JobOK
<1>4. CASE FindMatches(c)
  <2>1. PICK s, ids : s # "drop" /\ task' = [task EXCEPT ![c] = [t EXCEPT !.step = s, !.ids = ids]]
    BY <1>3, <1>4 DEF FindMatches, Step
  <2>2. [t EXCEPT !.step = s, !.ids = ids].step = s
    BY <1>3 DEF Fields
  <2> QED BY <1>1, <1>2, <2>1, <2>2
<1>5. CASE Load(c)
  <2>1. PICK s, all : s # "drop" /\ task' = [task EXCEPT ![c] = [t EXCEPT !.step = s, !.all = all]]
    BY <1>3, <1>5 DEF Load, Step
  <2>2. [t EXCEPT !.step = s, !.all = all].step = s
    BY <1>3 DEF Fields
  <2> QED BY <1>1, <1>2, <2>1, <2>2
<1>6. CASE FindClusters(c)
  <2>1. PICK i, n, ms : i = [t EXCEPT !.into = n, !.from = ms] /\
            \/ task' = [task EXCEPT ![c] = [t EXCEPT !.step = "create"]]
            \/ task' = [task EXCEPT ![c] = [i EXCEPT !.step = "update"]]
            \/ task' = [task EXCEPT ![c] = [i EXCEPT !.step = "move", !.then = "finish"]]
    <3>1. CASE Clusters(t.ids) = {}
      <4>1. Cardinality(Clusters(t.ids)) # 1
        BY <3>1, FS_EmptySet
      <4>2. task' = [task EXCEPT ![c] = [t EXCEPT !.step = "create"]]
        BY <1>3, <1>6, <3>1, <4>1, Zenon DEF FindClusters, Step
      <4> QED BY <4>2
    <3>2. CASE Clusters(t.ids) # {}
      BY <1>3, <1>6, <3>2 DEF FindClusters, Step
    <3> QED BY <3>1, <3>2
  <2>2. DOMAIN i = Fields
    BY <1>3, <2>1 DEF Fields
  <2>3. /\ [t EXCEPT !.step = "create"].step = "create" /\ [i EXCEPT !.step = "update"].step = "update"
        /\ [i EXCEPT !.step = "move", !.then = "finish"].step = "move"
    BY <1>3, <2>2 DEF Fields
  <2> QED BY <1>1, <1>2, <2>1, <2>3
<1>7. CASE FindSingle(c)
  <2>1. PICK i, n : i = [t EXCEPT !.all = {t.e}] /\
            \/ task' = [task EXCEPT ![c] = [i EXCEPT !.step = "create"]]
            \/ task' = [task EXCEPT ![c] = [i EXCEPT !.step = "finish", !.into = n]]
    BY <1>3, <1>7 DEF FindSingle, Step
  <2>2. DOMAIN i = Fields
    BY <1>3, <2>1 DEF Fields
  <2>3. [i EXCEPT !.step = "create"].step = "create" /\ [i EXCEPT !.step = "finish", !.into = n].step = "finish"
    BY <2>2 DEF Fields
  <2> QED BY <1>1, <1>2, <2>1, <2>3
<1>8. CASE Create(c)
  <2>1. PICK n : task' = [task EXCEPT ![c] = [t EXCEPT !.step = "add", !.into = n]]
    BY <1>3, <1>8 DEF Create, Step
  <2>2. [t EXCEPT !.step = "add", !.into = n].step = "add"
    BY <1>3 DEF Fields
  <2> QED BY <1>1, <1>2, <2>1, <2>2
<1>9. CASE Add(c)
  <2>1. PICK f, s : s \in {t.then, "add"} /\ task' = [task EXCEPT ![c] = [t EXCEPT !.all = @ \ {f}, !.step = s]]
    BY <1>3, <1>9 DEF Add, Step
  <2>2. [t EXCEPT !.all = @ \ {f}, !.step = s].step = s
    BY <1>3 DEF Fields
  <2> QED BY <1>1, <1>2, <1>3, <2>1, <2>2
<1>10. CASE Move(c) \/ Remove(c)
  <2>1. PICK s : s \in {"rewire", "members"} /\ task' = [task EXCEPT ![c] = [t EXCEPT !.step = s]]
    BY <1>3, <1>10 DEF Move, Remove, Goto
  <2>2. [t EXCEPT !.step = s].step = s
    BY <1>3 DEF Fields
  <2> QED BY <1>1, <1>2, <2>1, <2>2
<1> QED BY <1>4, <1>5, <1>6, <1>7, <1>8, <1>9, <1>10

LEMMA QuietKeepsEInv ==
  ASSUME EInv, LInv', NEW c \in Consumers,
         \/ FindMatches(c) \/ Load(c) \/ FindClusters(c) \/ FindSingle(c)
         \/ Create(c) \/ Add(c) \/ Move(c) \/ Remove(c)
  PROVE  EInv'
<1>1. Shape
  BY DEF EInv, LInv
<1>2. /\ task[c] # Idle /\ task[c].step # "cascade" /\ UNCHANGED <<edges, relTask, trouble>>
      /\ \A m \in Merged : merged[m] = "live" => merged'[m] = "live"
  BY <1>1, QuietFacts
<1>3. PICK j : task' = [task EXCEPT ![c] = j] /\ j.step # "drop"
  BY <1>1, QuietFacts
<1> QED BY <1>2, <1>3, QuietStep

\* The edge that is written has two live ends.
LEMMA RelatingKeepsEInv ==
  ASSUME EInv, LInv', rules \subseteq Relations, NEW c \in Consumers, Relating(c)
  PROVE  EInv'
<1>1. Shape
  BY DEF EInv, LInv
<1>2. /\ task[c] # Idle /\ task[c].step \in {"edge", "relate"} /\ UNCHANGED <<merged, relTask, trouble>>
  BY <1>1, RelatingFacts DEF relationships
<1>3. PICK j : task' = [task EXCEPT ![c] = j] /\ j.step = "edge"
  BY <1>1, RelatingFacts
<1>4. CASE UNCHANGED edges
  BY <1>2, <1>3, <1>4, QuietStep
<1>5. CASE task[c].pair # <<>> /\ edges' = edges \cup {task[c].pair}
  <2>1. ASSUME Calm PROVE \A p \in edges' : \A m \in {p[1], p[2]} : LiveIn(merged', m)
    <3>1. \A p \in edges : \A m \in {p[1], p[2]} : LiveIn(merged, m)
      BY <1>2, <2>1, CalmFacts
    <3>2. LivePair(merged, task[c].pair)
      BY <1>2, <1>5, <2>1, CalmFacts DEF Placed
    <3>3. \A m \in {task[c].pair[1], task[c].pair[2]} : LiveIn(merged, m)
      BY <3>2 DEF LivePair
    <3> QED BY <1>2, <1>5, <3>1, <3>3
  <2> QED BY <1>2, <1>3, <2>1, CalmStep
<1> QED BY <1>4, <1>5 DEF Relating, FindEnd, PutEdge, Relate, tables

\* Rewire leaves no edge at the cluster that is to be dropped.
LEMMA RewireKeepsEInv ==
  ASSUME EInv, LInv', NEW c \in Consumers, Rewire(c)
  PROVE  EInv'
<1>0. Shape
  BY DEF EInv, LInv
<1>1. /\ task[c] # Idle /\ task[c].step = "rewire" /\ UNCHANGED <<merged, relTask, trouble>>
  BY DEF Rewire, At, relationships, history
<1>2. PICK j : task' = [task EXCEPT ![c] = j] /\ j.step = "drop" /\ j.from = task[c].from
  BY <1>0, GoesToFacts DEF GoesTo
<1>3. PICK m, n : m = Oldest(task[c].from) /\ n = task[c].into
  OBVIOUS
<1>4. edges' = {<<IF p[1] = m THEN n ELSE p[1], IF p[2] = m THEN n ELSE p[2]>> : p \in edges}
  BY <1>3 DEF Rewire, RewireMergedEntity
<1>5. ASSUME Calm
      PROVE  /\ \A p \in edges' : \A x \in {p[1], p[2]} : LiveIn(merged', x)
             /\ \A p \in edges' : m \notin {p[1], p[2]}
  <2>1. \A p \in edges : LiveIn(merged, p[1]) /\ LiveIn(merged, p[2])
    BY <1>1, <1>5, CalmFacts
  <2>2. JobOK(task[c]) /\ Placed(task[c], merged, home)
    BY <1>1, <1>5, CalmFacts
  <2>3. task[c].from # {} /\ task[c].from \in SUBSET Merged
    BY <1>1, <2>2 DEF JobOK
  <2>4. LiveIn(merged, n) /\ n # m
    <3>1. m \in task[c].from
      BY <1>3, <2>3, OldestOf
    <3> QED BY <1>1, <1>3, <2>2, <3>1 DEF Placed, Homeless
  <2>5. ASSUME NEW q \in edges' PROVE LiveIn(merged, q[1]) /\ LiveIn(merged, q[2]) /\ q[1] # m /\ q[2] # m
    <3>1. PICK p \in edges : q = <<IF p[1] = m THEN n ELSE p[1], IF p[2] = m THEN n ELSE p[2]>>
      BY <1>4
    <3> QED BY <2>1, <2>4, <3>1
  <2> QED BY <1>1, <2>5
<1> QED BY <1>1, <1>2, <1>3, <1>5, CalmStep

LEMMA GoesToKeepsEInv ==
  ASSUME EInv, LInv', NEW c \in Consumers, NEW s, GoesTo(c, s)
  PROVE  EInv'
<1>1. Shape
  BY DEF EInv, LInv
<1>2. CASE Rewire(c)
  BY <1>2, RewireKeepsEInv
<1>3. CASE ~Rewire(c)
  <2>1. UNCHANGED <<edges, relTask>> /\ s # "drop"
    BY <1>3 DEF GoesTo, UpdateThenAdd, Finish, CheckMembers, tables, relationships
  <2>2. task[c] # Idle /\ UNCHANGED <<merged, trouble>> /\ task[c].step # "cascade"
    BY <1>1, <2>1, GoesToFacts
  <2>3. PICK j : task' = [task EXCEPT ![c] = j] /\ j.step = s
    BY <1>1, GoesToFacts
  <2> QED BY <2>1, <2>2, <2>3, QuietStep
<1> QED BY <1>2, <1>3

\* A cluster without edges is dropped.
LEMMA DropKeepsEInv ==
  ASSUME EInv, LInv', NEW c \in Consumers, Drop(c)
  PROVE  EInv'
<1>1. task[c] # Idle /\ task[c].step = "drop" /\ UNCHANGED <<edges, relTask, trouble>>
  BY DEF Drop, At, relationships, history
<1>2. PICK t, m : t = task[c] /\ m = Oldest(t.from) /\ JobOK(t)
  BY <1>1, JobAt DEF EInv, LInv
<1>3. PICK s, j : /\ j = [t EXCEPT !.from = @ \ {m}, !.step = s] /\ task' = [task EXCEPT ![c] = j]
                  /\ s = IF t.from = {m} THEN "add" ELSE "move"
  BY <1>2 DEF Drop, Step
<1>4. j.step \in {"add", "move"}
  BY <1>2, <1>3 DEF JobOK, Fields
<1>5. merged' = [merged EXCEPT ![m] = "deleted"]
  BY <1>2 DEF Drop, SoftDelete
<1>6. \A n : n # m /\ LiveIn(merged, n) => LiveIn(merged', n)
  BY <1>5 DEF EInv, LInv, Shape, LiveIn
<1>7. ASSUME Calm PROVE \A p \in edges' : \A n \in {p[1], p[2]} : LiveIn(merged', n)
  <2>1. \A p \in edges : \A n \in {p[1], p[2]} : LiveIn(merged, n) /\ n # m
    BY <1>1, <1>2, <1>7, CalmFacts
  <2> QED BY <1>1, <1>6, <2>1
<1>8. j.step # "drop" /\ task' = [task EXCEPT ![c] = j] /\ UNCHANGED relTask /\ trouble \subseteq trouble'
  BY <1>1, <1>3, <1>4
<1> QED BY <1>1, <1>7, <1>8, CalmStep

\* A merged entity without members is deleted: its edges are next.
LEMMA BuryKeepsEInv ==
  ASSUME EInv, LInv', NEW c \in Consumers, Bury(c), merged[task[c].into] = "live"
  PROVE  EInv'
<1>1. task[c] # Idle /\ task[c].step = "bury" /\ UNCHANGED <<edges, relTask, trouble>>
  BY DEF Bury, At, relationships, history
<1>2. PICK t, j : t = task[c] /\ JobOK(t) /\ j = [t EXCEPT !.step = "cascade"]
  BY <1>1, JobAt DEF EInv, LInv
<1>3. merged' = [merged EXCEPT ![t.into] = "deleted"] /\ task' = [task EXCEPT ![c] = j]
  <2>1. SoftDelete(t.into) /\ Goto(c, "cascade")
    BY <1>2 DEF Bury
  <2> QED BY <1>2, <2>1 DEF SoftDelete, Goto
<1>4. j.step = "cascade" /\ j.into = t.into
  BY <1>2, Stepped
<1>5. \A n : n # t.into /\ LiveIn(merged, n) => LiveIn(merged', n)
  BY <1>3 DEF EInv, LInv, Shape, LiveIn
<1>6. ASSUME Calm
      PROVE  \A p \in edges' : \A m \in {p[1], p[2]} :
                LiveIn(merged', m) \/ (j # Idle /\ j.step = "cascade" /\ j.into = m)
  <2>1. \A p \in edges : \A m \in {p[1], p[2]} : LiveIn(merged, m)
    BY <1>1, <1>6, CalmFacts
  <2>2. t.pair = <<>>
    BY <1>1, <1>2, <1>6, CalmFacts DEF Placed
  <2>3. /\ j.e = t.e /\ j.ids = t.ids /\ j.all = t.all
        /\ j.from = t.from /\ j.then = t.then /\ j.todo = t.todo /\ j.pair = t.pair
    BY <1>2, Stepped
  <2>4. j = [step |-> "cascade", e |-> t.e, ids |-> t.ids, all |-> t.all, into |-> t.into, from |-> t.from,
             then |-> t.then, todo |-> t.todo, pair |-> <<>>]
    BY <1>2, <1>4, <2>2, <2>3 DEF JobOK, Fields
  <2>5. j \in Job
    BY <1>2, <2>4 DEF Job, JobOK, Steps
  <2>6. j # Idle
    BY <2>5, IdleAssumption
  <2> QED BY <1>1, <1>4, <1>5, <2>1, <2>6
<1> QED BY <1>1, <1>3, <1>4, <1>6, CalmStep

\* A handler that ends was not cascading, or has cascaded, or died: no calm then.
LEMMA StopsKeepEInv ==
  ASSUME EInv, LInv', NEW c \in Consumers, Stops(c)
  PROVE  EInv'
<1>1. /\ task[c] # Idle /\ task' = [task EXCEPT ![c] = Idle] /\ trouble \subseteq trouble'
      /\ UNCHANGED <<merged, relTask>>
  BY StopsFacts DEF relationships
<1>2. PICK j : j = Idle
  OBVIOUS
<1>3. CASE Fault(c)
  <2>1. ~Calm'
    BY <1>3 DEF Fault, Calm
  <2> QED BY <2>1 DEF EInv
<1>4. CASE Cascade(c)
  <2>1. task[c].step = "cascade" /\ edges' = {p \in edges : task[c].into \notin {p[1], p[2]}}
    BY <1>4 DEF Cascade, At, SoftDeleteByMergedEntityID
  <2>2. Calm => \A p \in edges' : \A m \in {p[1], p[2]} : LiveIn(merged', m)
    BY <1>1, <2>1, CalmFacts
  <2> QED BY <1>1, <1>2, <2>2, CalmStep
<1>5. CASE ~Fault(c) /\ ~Cascade(c)
  <2>1. UNCHANGED edges /\ task[c].step # "cascade"
    BY <1>5 DEF Stops, MergeFails, Refused, Fails, Related, Relate, CheckMembers, Bury, At, tables
  <2> QED BY <1>1, <1>2, <2>1, QuietStep
<1> QED BY <1>3, <1>4, <1>5

\* When an instance takes an event in calm, nobody is writing edges.
LEMMA TakeKeepsEInv ==
  ASSUME EInv, LInv', NEW c \in Consumers, NEW e \in Entities, Index(c, e) \/ TakeDeleted(c, e)
  PROVE  EInv'
<1>1. UNCHANGED <<merged, edges, relTask>> /\ trouble \subseteq trouble'
  BY DEF Index, TakeDeleted, tables, relationships
<1>2. CASE UNCHANGED task
  BY <1>1, <1>2 DEF EInv, Calm, TakesTurns, Attached, Detached
<1>3. CASE ~UNCHANGED task
  <2>1. trouble' = trouble \cup Overlaps
    BY <1>3 DEF Index, TakeDeleted
  <2>2. PICK j : task' = [task EXCEPT ![c] = j] /\ j.step \in {"match", "remove"}
    <3>1. CASE Index(c, e)
      <4>1. task' = [task EXCEPT ![c] = NewJob("match", e)]
        BY <3>1 DEF Index, Step
      <4>2. NewJob("match", e).step = "match"
        BY DEF NewJob
      <4> QED BY <4>1, <4>2
    <3>2. CASE TakeDeleted(c, e)
      <4>1. PICK i, n : i = NewJob("remove", e) /\ task' = [task EXCEPT ![c] = [i EXCEPT !.into = n]]
        BY <1>3, <3>2 DEF TakeDeleted, Step
      <4>2. [i EXCEPT !.into = n].step = "remove"
        BY <4>1 DEF NewJob
      <4> QED BY <4>1, <4>2
    <3> QED BY <3>1, <3>2
  <2>3. task'[c] = j /\ \A d \in Consumers \ {c} : task'[d] = task[d]
    BY <2>2, JobGoes DEF EInv, LInv
  <2>4. ASSUME Calm' PROVE TakesTurns' /\ Attached' /\ Detached'
    <3>1. Calm /\ relTask = Idle /\ \A d \in Consumers : task[d] = Idle
      BY <2>1, <2>4 DEF Calm, Overlaps, Busy
    <3>2. Attached'
      BY <1>1, <3>1 DEF EInv, Attached
    <3>3. Detached'
      BY <2>2, <2>3, <3>1 DEF Detached
    <3> QED BY <1>1, <3>1, <3>2, <3>3 DEF TakesTurns
  <2> QED BY <2>4 DEF EInv
<1> QED BY <1>2, <1>3

\* In calm the relationship consumer finds and writes while no instance does.
LEMMA OutsideKeepsEInv ==
  ASSUME EInv, LInv', \/ \E p \in Feed : Upsert(p[1], p[2])
                      \/ \E e \in Entities : SoftDeleteStaged(e)
                      \/ \E r \in Relations : StageRelationship(r) \/ TakeRelationship(r)
                      \/ PutRelationship \/ UNCHANGED vars
  PROVE  EInv'
<1>1. UNCHANGED <<merged, task>> /\ trouble \subseteq trouble'
  BY OutsideFacts
<1>2. CASE UNCHANGED <<edges, relTask>>
  BY <1>1, <1>2 DEF EInv, Calm, TakesTurns, Attached, Detached
<1>3. CASE \E r \in Relations : TakeRelationship(r)
  <2>0. PICK r \in Relations : TakeRelationship(r)
    BY <1>3
  <2>1. UNCHANGED edges /\ trouble' = trouble \cup (IF Busy # {} THEN {"relRace"} ELSE {})
    BY <2>0 DEF TakeRelationship, tables
  <2>2. relTask' = Idle \/ LivePair(merged, relTask')
    <3>1. CASE MergedEnds(r) = {}
      BY <2>0, <3>1 DEF TakeRelationship
    <3>2. CASE MergedEnds(r) # {}
      <4>1. relTask' \in MergedEnds(r)
        BY <2>0, <3>2 DEF TakeRelationship
      <4>2. PICK A, B : MergedEnds(r) = A \X B /\ \A m \in A \cup B : m \in Merged /\ LiveIn(merged, m)
        <5>1. \A es : \A m \in Clusters(es) : m \in Merged /\ LiveIn(merged, m)
          BY DEF Clusters, LiveIn
        <5>2. PICK A, B : A = Clusters({e \in {r[1]} : IsLive(e)}) /\ B = Clusters({e \in {r[2]} : IsLive(e)})
          OBVIOUS
        <5>3. \A m \in A \cup B : m \in Merged /\ LiveIn(merged, m)
          BY <5>1, <5>2
        <5> QED BY <5>2, <5>3 DEF MergedEnds
      <4>3. PICK m \in A, n \in B : relTask' = <<m, n>>
        BY <4>1, <4>2
      <4> QED BY <4>2, <4>3 DEF LivePair
    <3> QED BY <3>1, <3>2
  <2>3. ASSUME Calm' PROVE TakesTurns' /\ Attached' /\ Detached'
    <3>1. Calm /\ \A d \in Consumers : task[d] = Idle
      BY <2>1, <2>3 DEF Calm, Busy
    <3>2. Attached' /\ Detached'
      BY <1>1, <2>1, <3>1 DEF EInv, Attached, Detached
    <3> QED BY <1>1, <2>2, <3>1, <3>2 DEF TakesTurns
  <2> QED BY <2>3 DEF EInv
<1>4. CASE PutRelationship
  <2>1. relTask # Idle /\ edges' = edges \cup {relTask} /\ relTask' = Idle
    BY <1>4 DEF PutRelationship
  <2>2. ASSUME Calm' PROVE TakesTurns' /\ Attached' /\ Detached'
    <3>1. Calm
      BY <1>1, <2>2 DEF Calm
    <3>2. LivePair(merged, relTask) /\ Attached /\ \A d \in Consumers : task[d] = Idle
      BY <2>1, <3>1 DEF EInv, TakesTurns
    <3>3. \A m \in {relTask[1], relTask[2]} : LiveIn(merged, m)
      BY <3>2 DEF LivePair
    <3>4. Attached'
      BY <1>1, <2>1, <3>2, <3>3 DEF Attached
    <3>5. Detached' /\ TakesTurns'
      BY <1>1, <2>1, <3>2 DEF Detached, TakesTurns
    <3> QED BY <3>4, <3>5
  <2> QED BY <2>2 DEF EInv
<1> QED BY <1>2, <1>3, <1>4 DEF Upsert, SoftDeleteStaged, StageRelationship, vars, tables, relationships

LEMMA EInvStep ==
  ASSUME EInv, rules \subseteq Relations, [Next]_vars
  PROVE  EInv'
<1>0. LInv'
  BY LInvStep DEF EInv
<1>1. CASE \/ \E p \in Feed : Upsert(p[1], p[2])
           \/ \E e \in Entities : SoftDeleteStaged(e)
           \/ \E r \in Relations : StageRelationship(r) \/ TakeRelationship(r)
           \/ PutRelationship \/ UNCHANGED vars
  BY <1>0, <1>1, OutsideKeepsEInv
<1>2. ASSUME NEW c \in Consumers, NEW e \in Entities, Index(c, e) \/ TakeDeleted(c, e) PROVE EInv'
  BY <1>0, <1>2, TakeKeepsEInv
<1>3. ASSUME NEW c \in Consumers, Merge(c) PROVE EInv'
  <2>1. CASE FindMatches(c) \/ Load(c) \/ FindClusters(c) \/ FindSingle(c) \/ Create(c) \/ Add(c) \/ Move(c)
    BY <1>0, <2>1, QuietKeepsEInv
  <2>2. CASE UpdateThenAdd(c) \/ Finish(c) \/ Rewire(c)
    BY <1>0, <2>2, GoesToKeepsEInv DEF GoesTo
  <2>3. CASE Drop(c)
    BY <1>0, <2>3, DropKeepsEInv
  <2>4. CASE MergeFails(c) \/ Related(c) \/ (Relate(c) /\ Waiting(task[c].e) = {})
    BY <1>0, <2>4, StopsKeepEInv DEF Stops
  <2>5. CASE FindEnd(c) \/ PutEdge(c) \/ (Relate(c) /\ Waiting(task[c].e) # {})
    BY <1>0, <2>5, RelatingKeepsEInv DEF Relating
  <2> QED BY <1>3, <2>1, <2>2, <2>3, <2>4, <2>5 DEF Merge
<1>4. ASSUME NEW c \in Consumers, Delete(c) \/ Fault(c) PROVE EInv'
  <2>1. CASE Remove(c)
    BY <1>0, <2>1, QuietKeepsEInv
  <2>2. CASE CheckMembers(c)
    BY <1>0, <2>2, StopsKeepEInv, GoesToKeepsEInv DEF Stops, GoesTo
  <2>3. CASE Bury(c)
    BY <1>0, <2>3, StopsKeepEInv, BuryKeepsEInv DEF Stops
  <2>4. CASE Cascade(c) \/ Fault(c)
    BY <1>0, <2>4, StopsKeepEInv DEF Stops
  <2> QED BY <1>4, <2>1, <2>2, <2>3, <2>4 DEF Delete
<1> QED BY <1>1, <1>2, <1>3, <1>4 DEF Next

\* For any entities, rules, relationships and instances: at rest, after events
\* handled one by one and to their end, with whatever consolidations and
\* deletions, both ends of every edge are live.
THEOREM EdgesStayLive == Spec => []EdgesEndLive
<1> DEFINE I == EInv /\ rules \subseteq Relations
<1>1. Init => I
  <2>1. Init => TakesTurns /\ Attached /\ Detached
    BY DEF Init, TakesTurns, Attached, Detached
  <2> QED BY <2>1, InitLInv DEF EInv
<1>2. I /\ [Next]_vars => I'
  BY EInvStep, RulesStep
<1>3. I => EdgesEndLive
  BY DEF EInv, Attached, Calm, EdgesEndLive, AtRest, Busy, LiveIn
<1> HIDE DEF I
<1> QED BY <1>1, <1>2, <1>3, PTL DEF Spec

-----------------------------------------------------------------------------
(* Everything is resolved in the end *)

\* One event at a time, handled to its end, and nothing deleted.
Quiet == trouble = {}

InHand(f) == \E c \in Consumers : task[c] # Idle /\ task[c].e = f

\* The other entities that match e and are matched by it.
Mates(ix, e) == {f \in Entities \ {e} : <<ix[e], ix[f]>> \in Valid /\ <<ix[f], ix[e]>> \in Valid}

\* Rows that are not deleted, and an event in the queue of every row not indexed.
Rows ==
    /\ removed = {}
    /\ staged \in [Entities -> Row \cup {Absent}] /\ events \in [Entities -> Seq(Row)]
    /\ \A e \in Entities :
         /\ staged[e] # Absent => ~staged[e].deleted
         /\ \A k \in 1 .. Len(events[e]) : ~events[e][k].deleted
         /\ events[e] # <<>> => staged[e] # Absent
         /\ staged[e] # Absent /\ events[e] = <<>> => index[e] # NoValue
Indexed ==
    /\ \A e \in Entities : index[e] # NoValue => IsLive(e)
    /\ \A e \in Entities : home[e] # Nowhere => index[e] # NoValue
    /\ \A c \in Consumers : task[c] # Idle => index[task[c].e] # NoValue /\ events[task[c].e] # <<>>

\* Who is not in hand has a merged entity, the same as its mates.
Settled ==
    /\ \A f \in Entities : index[f] # NoValue /\ ~InHand(f) => home[f] # Nowhere
    /\ \A f, g \in Entities : g \in Mates(index, f) /\ ~InHand(f) /\ ~InHand(g) => home[f] = home[g]

\* What the job in hand has brought together of the entity and its mates.
Merging(j, ix, hm) ==
    LET N == {j.e} \cup Mates(ix, j.e)
        With(ms) == \A f \in j.all : ix[f] # NoValue /\ hm[f] \in {Nowhere} \cup ms
    IN /\ j \in Job
       /\ j.step \notin {"remove", "members", "bury", "cascade"}
       /\ j.step = "load" => N \subseteq j.ids
       /\ j.step \in {"load", "find"} => \A f \in j.ids : ix[f] # NoValue
       /\ j.step = "find" => N \subseteq j.all /\ j.all \subseteq j.ids /\ j.all # {j.e}
       /\ j.step \in {"single", "create"} => N = {j.e}
       /\ j.step = "create" => j.all = {j.e} /\ hm[j.e] = Nowhere
       /\ j.step = "update" => N \subseteq j.all /\ With({j.into})
       /\ j.step \in {"move", "rewire", "drop"} => N \subseteq j.all /\ With({j.into} \cup j.from)
       /\ j.step = "add" => With({j.into}) /\ \A f \in N : f \in j.all \/ hm[f] = j.into
       /\ j.step \in {"finish", "relate", "edge"} => \A f \in N : hm[f] = j.into

AtWork == \A c \in Consumers : task[c] # Idle => Merging(task[c], index, home)

Pair(r, hm) == <<hm[r[1]], hm[r[2]]>>
\* The edges ed with those of m at n.
Swapped(m, n, ed) == {<<IF p[1] = m THEN n ELSE p[1], IF p[2] = m THEN n ELSE p[2]>> : p \in ed}

\* The edge of r is drawn, or the instance with job j will draw it.
Drawing(r, j, hm, ed) ==
    \/ Pair(r, hm) \in ed
    \/ j.e \in {r[1], r[2]} /\ (j.step # "edge" \/ r \in j.todo \/ j.pair = Pair(r, hm))
    \/ j.step = "rewire" /\ Pair(r, hm) \in Swapped(Oldest(j.from), j.into, ed)

Drawn ==
    \A r \in rules \ relEvents : home[r[1]] # Nowhere /\ home[r[2]] # Nowhere =>
        \/ Pair(r, home) \in edges
        \/ relTask = Pair(r, home)
        \/ \E c \in Consumers : task[c] # Idle /\ Drawing(r, task[c], home, edges)

\* Everything the instances have left behind is resolved, but for what they are at.
RInv == EInv /\ rules \subseteq Relations /\ (Quiet => Rows /\ Indexed /\ Settled /\ AtWork /\ Drawn)

\* What the instance with an event in hand can rely on.
LEMMA QuietHand ==
  ASSUME RInv, Quiet, NEW c \in Consumers, task[c] # Idle
  PROVE  /\ Merging(task[c], index, home) /\ Placed(task[c], merged, home) /\ Housed(merged, home)
         /\ relTask = Idle /\ \A d \in Consumers \ {c} : task[d] = Idle
         /\ \A f : InHand(f) <=> f = task[c].e
         /\ \A r \in rules \ relEvents : home[r[1]] # Nowhere /\ home[r[2]] # Nowhere =>
               Drawing(r, task[c], home, edges)
<1>1. EInv /\ Calm /\ AtWork /\ Drawn
  BY DEF RInv, Quiet, Calm
<1>2. /\ Placed(task[c], merged, home) /\ Housed(merged, home)
      /\ relTask = Idle /\ \A d \in Consumers \ {c} : task[d] = Idle
  BY <1>1, CalmFacts
<1>3. Merging(task[c], index, home)
  BY <1>1 DEF AtWork
<1>4. \A f : InHand(f) <=> f = task[c].e
  BY <1>2 DEF InHand
<1>5. ASSUME NEW r \in rules \ relEvents, home[r[1]] # Nowhere /\ home[r[2]] # Nowhere
      PROVE  Drawing(r, task[c], home, edges)
  <2>1. CASE Pair(r, home) \in edges
    BY <2>1 DEF Drawing
  <2>2. CASE relTask = Pair(r, home)
    <3>1. Pair(r, home) = Idle
      BY <1>2, <2>2
    <3>2. r[1] \in Entities /\ r[2] \in Entities
      BY ResolutionAssumption DEF RInv
    <3>3. home[r[1]] \in Merged /\ home[r[2]] \in Merged
      BY <1>2, <1>5, <3>2 DEF Housed, LiveIn
    <3> QED BY <3>1, <3>3, IdleAssumption DEF Pair
  <2>3. CASE \E d \in Consumers : task[d] # Idle /\ Drawing(r, task[d], home, edges)
    BY <1>2, <2>3
  <2> QED BY <1>1, <1>5, <2>1, <2>2, <2>3 DEF Drawn
<1> QED BY <1>2, <1>3, <1>4, <1>5

\* A step of an instance that goes on with job j for its entity.
LEMMA QuietStepOn ==
  ASSUME RInv, EInv', NEW c \in Consumers, task[c] # Idle, NEW j, task' = [task EXCEPT ![c] = j],
         UNCHANGED <<staged, events, index, rules, relEvents, relTask, trouble>>,
         Quiet => /\ removed' = {} /\ j.e = task[c].e /\ Merging(j, index, home')
                  /\ \A f \in Entities : home'[f] # Nowhere => index[f] # NoValue
                  /\ \A f \in Entities \ {j.e} : home[f] # Nowhere => home'[f] # Nowhere
                  /\ \A f, g \in Entities \ {j.e} :
                        index[f] # NoValue /\ index[g] # NoValue /\ home[f] = home[g] => home'[f] = home'[g]
                  /\ \A r \in rules \ relEvents : home'[r[1]] # Nowhere /\ home'[r[2]] # Nowhere =>
                        Drawing(r, j, home', edges')
  PROVE  RInv'
<1>1. Shape /\ rules' \subseteq Relations
  BY DEF RInv, EInv, LInv
<1>2. task'[c] = j /\ \A d \in Consumers \ {c} : task'[d] = task[d]
  BY <1>1, JobGoes
<1> SUFFICES ASSUME Quiet' PROVE (Rows /\ Indexed /\ Settled /\ AtWork /\ Drawn)'
  BY <1>1 DEF RInv
<1>3. Quiet /\ Rows /\ Indexed /\ Settled
  BY DEF Quiet, RInv
<1>4. /\ removed' = {} /\ j.e = task[c].e /\ Merging(j, index, home')
      /\ \A f \in Entities : home'[f] # Nowhere => index[f] # NoValue
      /\ \A f \in Entities \ {j.e} : home[f] # Nowhere => home'[f] # Nowhere
      /\ \A f, g \in Entities \ {j.e} :
            index[f] # NoValue /\ index[g] # NoValue /\ home[f] = home[g] => home'[f] = home'[g]
      /\ \A r \in rules \ relEvents : home'[r[1]] # Nowhere /\ home'[r[2]] # Nowhere =>
            Drawing(r, j, home', edges')
  BY <1>3
<1>5. j # Idle
  BY <1>4, IdleAssumption DEF Merging
<1>6. \A d \in Consumers \ {c} : task'[d] = Idle
  BY <1>2, <1>3, QuietHand
<1>7. \A f : InHand(f)' <=> f = j.e
  BY <1>2, <1>5, <1>6 DEF InHand
<1>8. \A f : InHand(f) <=> f = j.e
  BY <1>3, <1>4, QuietHand
<1>9. Rows'
  BY <1>3, <1>4 DEF Rows
<1>10. Indexed'
  <2>1. \A e \in Entities : IsLive(e)' <=> IsLive(e)
    BY DEF IsLive
  <2>2. index[j.e] # NoValue /\ events[j.e] # <<>>
    BY <1>3, <1>4 DEF Indexed
  <2> QED BY <1>2, <1>3, <1>4, <1>6, <2>1, <2>2 DEF Indexed
<1>11. Settled'
  <2>1. \A f, g \in Entities : g \in Mates(index, f) => index[f] # NoValue /\ index[g] # NoValue
    BY ResolutionAssumption DEF Mates, Valid
  <2> QED BY <1>3, <1>4, <1>7, <1>8, <2>1 DEF Settled
<1>12. AtWork'
  BY <1>2, <1>4, <1>6 DEF AtWork
<1>13. Drawn'
  BY <1>2, <1>4, <1>5 DEF Drawn
<1> QED BY <1>9, <1>10, <1>11, <1>12, <1>13

\* A job that is not at its edges yet goes on, and no table that matters changes.
LEMMA QuietRead ==
  ASSUME RInv, EInv', NEW c \in Consumers, task[c] # Idle, NEW j, task' = [task EXCEPT ![c] = j],
         UNCHANGED <<staged, events, index, home, removed, edges, rules, relEvents, relTask, trouble>>,
         Quiet => /\ j.e = task[c].e /\ Merging(j, index, home)
                  /\ task[c].step # "rewire" /\ j.step # "edge"
  PROVE  RInv'
<1>1. ASSUME Quiet
      PROVE  /\ removed' = {} /\ j.e = task[c].e /\ Merging(j, index, home')
             /\ \A f \in Entities : home'[f] # Nowhere => index[f] # NoValue
             /\ \A r \in rules \ relEvents : home'[r[1]] # Nowhere /\ home'[r[2]] # Nowhere =>
                   Drawing(r, j, home', edges')
  <2>1. Rows /\ Indexed
    BY <1>1 DEF RInv
  <2>2. \A r \in rules \ relEvents : home[r[1]] # Nowhere /\ home[r[2]] # Nowhere =>
           Drawing(r, task[c], home, edges)
    BY <1>1, QuietHand
  <2>3. \A r : Drawing(r, task[c], home, edges) => Drawing(r, j, home, edges)
    BY <1>1 DEF Drawing
  <2> QED BY <1>1, <2>1, <2>2, <2>3 DEF Rows, Indexed
<1> QED BY <1>1, QuietStepOn

\* The tables that only the clusters and the deletion of entities change.
LEMMA ReadFacts ==
  ASSUME NEW c \in Consumers,
         \/ FindMatches(c) \/ Load(c) \/ FindClusters(c) \/ FindSingle(c)
         \/ Create(c) \/ UpdateThenAdd(c) \/ Drop(c) \/ Finish(c)
  PROVE  /\ task[c] # Idle
         /\ UNCHANGED <<staged, events, index, home, removed, edges, rules, relEvents, relTask, trouble>>
  BY DEF FindMatches, Load, FindClusters, FindSingle, Create, UpdateThenAdd, Drop, Finish, At,
         tables, source, relationships, history

LEMMA FindMatchesKeepsRInv ==
  ASSUME RInv, EInv', NEW c \in Consumers, FindMatches(c)
  PROVE  RInv'
<1>1. /\ task[c] # Idle
      /\ UNCHANGED <<staged, events, index, home, removed, edges, rules, relEvents, relTask, trouble>>
  BY ReadFacts
<1>2. PICK t, e, valid, outcomes : /\ t = task[c] /\ e = t.e /\ valid = Others(e, index[e], Valid)
                                   /\ outcomes = valid \cup Others(e, index[e], Blocked)
  OBVIOUS
<1>3. PICK s, j : /\ s = (IF valid = {} THEN "single" ELSE "load")
                  /\ j = [t EXCEPT !.step = s, !.ids = {e} \cup outcomes]
                  /\ task' = [task EXCEPT ![c] = j]
  BY <1>2 DEF FindMatches, Step
<1>4. t.step = "match"
  BY <1>2 DEF FindMatches, At
<1>5. ASSUME Quiet PROVE j.e = t.e /\ Merging(j, index, home) /\ j.step # "edge"
  <2>1. t \in Job /\ index[e] # NoValue
    <3>1. Merging(t, index, home)
      BY <1>1, <1>2, <1>5, QuietHand
    <3> QED BY <1>1, <1>2, <1>5, <3>1 DEF Merging, RInv, Indexed
  <2>2. e \in Entities /\ outcomes \subseteq Entities
    BY <1>2, <2>1 DEF Job, Others
  <2>3. j \in Job /\ j.step = s /\ j.e = e /\ j.ids = {e} \cup outcomes
    <3>1. s \in Steps
      BY <1>3 DEF Steps
    <3>2. PICK ids \in SUBSET Entities : ids = {e} \cup outcomes
      BY <2>2
    <3>3. t \in Job /\ j = [t EXCEPT !.step = s, !.ids = ids]
      BY <1>3, <2>1, <3>2
    <3>4. j \in Job /\ j.step = s /\ j.e = t.e /\ j.ids = ids
      BY <3>1, <3>3 DEF Job
    <3> QED BY <1>2, <3>2, <3>4
  <2>4. Mates(index, e) \subseteq valid
    BY <1>2 DEF Mates, Others
  <2>5. \A f \in outcomes : index[f] # NoValue
    BY <1>2, ResolutionAssumption DEF Others, Valid, Blocked
  <2> QED BY <1>2, <1>3, <2>1, <2>3, <2>4, <2>5 DEF Merging
<1> QED BY <1>1, <1>2, <1>3, <1>4, <1>5, QuietRead

LEMMA LoadKeepsRInv ==
  ASSUME RInv, EInv', NEW c \in Consumers, Load(c)
  PROVE  RInv'
<1>1. /\ task[c] # Idle
      /\ UNCHANGED <<staged, events, index, home, removed, edges, rules, relEvents, relTask, trouble>>
  BY ReadFacts
<1>2. PICK t, e, all : t = task[c] /\ e = t.e /\ all = {e} \cup {f \in t.ids : IsLive(f)}
  OBVIOUS
<1>3. PICK s, j : /\ s = (IF all = {e} THEN "single" ELSE "find")
                  /\ j = [t EXCEPT !.step = s, !.all = all]
                  /\ task' = [task EXCEPT ![c] = j]
  BY <1>2 DEF Load, Step
<1>4. t.step = "load"
  BY <1>2 DEF Load, At
<1>5. ASSUME Quiet PROVE j.e = t.e /\ Merging(j, index, home) /\ j.step # "edge"
  <2>1. Merging(t, index, home) /\ Indexed
    BY <1>1, <1>2, <1>5, QuietHand DEF RInv
  <2>2. /\ t \in Job /\ e \in Entities /\ t.ids \subseteq Entities
        /\ {e} \cup Mates(index, e) \subseteq t.ids /\ \A f \in t.ids : index[f] # NoValue
    BY <1>2, <1>4, <2>1 DEF Merging, Job
  <2>3. all = t.ids
    BY <1>2, <2>1, <2>2 DEF Indexed
  <2>4. j \in Job /\ j.step = s /\ j.e = e /\ j.ids = t.ids /\ j.all = t.ids
    <3>1. s \in Steps
      BY <1>3 DEF Steps
    <3> QED BY <1>2, <1>3, <2>2, <2>3, <3>1 DEF Job
  <2>5. e \notin Mates(index, e)
    BY DEF Mates
  <2> QED BY <1>2, <1>3, <2>2, <2>3, <2>4, <2>5 DEF Merging
<1> QED BY <1>1, <1>2, <1>3, <1>4, <1>5, QuietRead

LEMMA FindClustersKeepsRInv ==
  ASSUME RInv, EInv', NEW c \in Consumers, FindClusters(c)
  PROVE  RInv'
<1>1. /\ task[c] # Idle
      /\ UNCHANGED <<staged, events, index, home, removed, edges, rules, relEvents, relTask, trouble>>
  BY ReadFacts
<1>2. PICK t, found : t = task[c] /\ found = Clusters(t.ids) /\ t.step = "find"
  BY DEF FindClusters, At
<1>3. CASE found = {}
  <2>1. PICK j : j = [t EXCEPT !.step = "create"] /\ task' = [task EXCEPT ![c] = j]
    <3>1. Cardinality(found) # 1
      BY <1>3, FS_EmptySet
    <3>2. task' = [task EXCEPT ![c] = [t EXCEPT !.step = "create"]]
      BY <1>2, <1>3, <3>1, Zenon DEF FindClusters, Step
    <3> QED BY <3>2
  <2>2. ~Quiet
    <3> SUFFICES ASSUME Quiet PROVE FALSE
      OBVIOUS
    <3>1. Merging(t, index, home) /\ Housed(merged, home) /\ Settled /\ \A f : InHand(f) <=> f = t.e
      BY <1>1, <1>2, QuietHand DEF RInv
    <3>2. PICK f \in t.ids : f # t.e
      BY <1>2, <3>1 DEF Merging, Job
    <3>3. f \in Entities /\ index[f] # NoValue
      BY <1>2, <3>1, <3>2 DEF Merging, Job
    <3>4. home[f] # Nowhere
      BY <3>1, <3>2, <3>3 DEF Settled
    <3>5. home[f] \in found
      BY <1>2, <3>1, <3>2, <3>3, <3>4 DEF Housed, LiveIn, Clusters
    <3> QED BY <1>3, <3>5
  <2> QED BY <1>1, <1>2, <2>1, <2>2, QuietRead
<1>4. CASE found # {}
  <2>1. found \in SUBSET Merged
    BY <1>2 DEF Clusters
  <2>2. PICK o : o = Oldest(found) /\ o \in found
    BY <1>4, <2>1, OldestOf
  <2>3. PICK job : job = [t EXCEPT !.into = o, !.from = found \ {o}]
    OBVIOUS
  <2>4. PICK j : /\ task' = [task EXCEPT ![c] = j]
                 /\ \/ j = [job EXCEPT !.step = "update"] /\ Cardinality(found) = 1
                    \/ j = [job EXCEPT !.step = "move", !.then = "finish"]
    BY <1>2, <1>4, <2>2, <2>3 DEF FindClusters, Step
  <2>5. ASSUME Quiet PROVE j.e = t.e /\ Merging(j, index, home) /\ j.step # "edge"
    <3>1. Merging(t, index, home) /\ Housed(merged, home)
      BY <1>1, <1>2, <2>5, QuietHand
    <3>2. /\ t \in Job /\ t.e \in Entities /\ t.all \subseteq t.ids /\ t.ids \subseteq Entities
          /\ {t.e} \cup Mates(index, t.e) \subseteq t.all /\ \A f \in t.ids : index[f] # NoValue
      BY <1>2, <3>1 DEF Merging, Job
    <3>3. \A f \in t.all : home[f] \in {Nowhere} \cup found
      BY <1>2, <3>1, <3>2 DEF Housed, LiveIn, Clusters
    <3>4. job \in Job /\ job.e = t.e /\ job.all = t.all /\ job.into = o /\ job.from = found \ {o}
      BY <2>1, <2>2, <2>3, <3>2 DEF Job
    <3>5. CASE j = [job EXCEPT !.step = "update"] /\ Cardinality(found) = 1
      <4>1. found = {o}
        <5>1. IsFiniteSet(Merged)
          BY FS_Interval, ResolutionAssumption DEF Merged
        <5>2. IsFiniteSet(found)
          BY <2>1, <5>1, FS_Subset
        <5> QED BY <2>2, <3>5, <5>2, FS_Singleton
      <4>2. j \in Job /\ j.e = t.e /\ j.all = t.all /\ j.into = o /\ j.step = "update"
        BY <3>4, <3>5 DEF Job, Steps
      <4> QED BY <3>2, <3>3, <4>1, <4>2 DEF Merging
    <3>6. CASE j = [job EXCEPT !.step = "move", !.then = "finish"]
      <4>1. j \in Job /\ j.e = t.e /\ j.all = t.all /\ j.into = o /\ j.from = found \ {o} /\ j.step = "move"
        BY <3>4, <3>6 DEF Job, Steps
      <4> QED BY <3>2, <3>3, <4>1 DEF Merging
    <3> QED BY <2>4, <3>5, <3>6
  <2> QED BY <1>1, <1>2, <2>4, <2>5, QuietRead
<1> QED BY <1>3, <1>4

LEMMA FindSingleKeepsRInv ==
  ASSUME RInv, EInv', NEW c \in Consumers, FindSingle(c)
  PROVE  RInv'
<1>1. /\ task[c] # Idle
      /\ UNCHANGED <<staged, events, index, home, removed, edges, rules, relEvents, relTask, trouble>>
  BY ReadFacts
<1>2. PICK t, own : t = task[c] /\ own = Clusters({t.e}) /\ t.step = "single"
  BY DEF FindSingle, At
<1>3. PICK j : /\ task' = [task EXCEPT ![c] = j]
               /\ \/ own = {} /\ j = [t EXCEPT !.all = {t.e}, !.step = "create"]
                  \/ own # {} /\ j = [t EXCEPT !.all = {t.e}, !.step = "finish", !.into = Oldest(own)]
  BY <1>2 DEF FindSingle, Step
<1>4. ASSUME Quiet PROVE j.e = t.e /\ Merging(j, index, home) /\ j.step # "edge"
  <2>1. Merging(t, index, home) /\ Housed(merged, home) /\ index[t.e] # NoValue
    BY <1>1, <1>2, <1>4, QuietHand DEF RInv, Indexed
  <2>2. t \in Job /\ t.e \in Entities /\ {t.e} \cup Mates(index, t.e) = {t.e}
    BY <1>2, <2>1 DEF Merging, Job
  <2>3. CASE own = {}
    <3>1. home[t.e] = Nowhere
      BY <1>2, <2>1, <2>2, <2>3 DEF Housed, LiveIn, Clusters
    <3>2. j = [t EXCEPT !.all = {t.e}, !.step = "create"]
      BY <1>3, <2>3
    <3>3. j \in Job /\ j.step = "create" /\ j.e = t.e /\ j.all = {t.e}
      BY <2>2, <3>2 DEF Job, Steps
    <3> QED BY <2>2, <3>1, <3>3 DEF Merging
  <2>4. CASE own # {}
    <3>1. own \in SUBSET Merged /\ \A m \in own : home[t.e] = m
      BY <1>2 DEF Clusters
    <3>2. PICK o \in own : o = Oldest(own)
      BY <2>4, <3>1, OldestOf
    <3>3. j = [t EXCEPT !.all = {t.e}, !.step = "finish", !.into = o]
      BY <1>3, <2>4, <3>2
    <3>4. j \in Job /\ j.step = "finish" /\ j.e = t.e /\ j.into = o
      BY <2>2, <3>1, <3>2, <3>3 DEF Job, Steps
    <3> QED BY <2>2, <3>1, <3>4 DEF Merging
  <2> QED BY <2>3, <2>4
<1> QED BY <1>1, <1>2, <1>3, <1>4, QuietRead

LEMMA CreateKeepsRInv ==
  ASSUME RInv, EInv', NEW c \in Consumers, Create(c)
  PROVE  RInv'
<1>1. /\ task[c] # Idle
      /\ UNCHANGED <<staged, events, index, home, removed, edges, rules, relEvents, relTask, trouble>>
  BY ReadFacts
<1>2. PICK t : t = task[c] /\ t.step = "create"
  BY DEF Create, At
<1>3. PICK m \in Merged : task' = [task EXCEPT ![c] = [t EXCEPT !.step = "add", !.into = m]]
  BY <1>2 DEF Create, Step
<1>4. PICK j : j = [t EXCEPT !.step = "add", !.into = m] /\ task' = [task EXCEPT ![c] = j]
  BY <1>3
<1>5. ASSUME Quiet PROVE j.e = t.e /\ Merging(j, index, home) /\ j.step # "edge"
  <2>1. Merging(t, index, home) /\ index[t.e] # NoValue
    BY <1>1, <1>2, <1>5, QuietHand DEF RInv, Indexed
  <2>2. /\ t \in Job /\ {t.e} \cup Mates(index, t.e) = {t.e}
        /\ t.all = {t.e} /\ home[t.e] = Nowhere
    BY <1>2, <2>1 DEF Merging
  <2>3. j \in Job /\ j.step = "add" /\ j.e = t.e /\ j.all = t.all /\ j.into = m
    BY <1>3, <1>4, <2>2 DEF Job, Steps
  <2> QED BY <2>1, <2>2, <2>3 DEF Merging
<1> QED BY <1>1, <1>2, <1>4, <1>5, QuietRead

LEMMA UpdatesKeepRInv ==
  ASSUME RInv, EInv', NEW c \in Consumers, UpdateThenAdd(c) \/ Finish(c)
  PROVE  RInv'
<1>1. /\ task[c] # Idle
      /\ UNCHANGED <<staged, events, index, home, removed, edges, rules, relEvents, relTask, trouble>>
  BY ReadFacts
<1>2. PICK t, s : /\ t = task[c] /\ Goto(c, s)
                  /\ \/ t.step = "update" /\ s = "add"
                     \/ t.step = "finish" /\ s = "relate"
  BY DEF UpdateThenAdd, Finish, At
<1>3. PICK j : j = [t EXCEPT !.step = s] /\ task' = [task EXCEPT ![c] = j]
  BY <1>2 DEF Goto
<1>4. ASSUME Quiet PROVE j.e = t.e /\ Merging(j, index, home) /\ j.step # "edge"
  <2>1. Merging(t, index, home)
    BY <1>1, <1>2, <1>4, QuietHand
  <2>2. t \in Job
    BY <2>1 DEF Merging
  <2>3. /\ j \in Job /\ j.step = s /\ j.e = t.e /\ j.all = t.all /\ j.into = t.into
    <3>1. s \in Steps
      BY <1>2 DEF Steps
    <3> QED BY <1>3, <2>2, <3>1 DEF Job
  <2>4. CASE t.step = "update"
    <3>1. /\ {t.e} \cup Mates(index, t.e) \subseteq t.all
          /\ \A f \in t.all : index[f] # NoValue /\ home[f] \in {Nowhere} \cup {t.into}
      BY <2>1, <2>4 DEF Merging
    <3> QED BY <1>2, <2>3, <2>4, <3>1 DEF Merging
  <2>5. CASE t.step = "finish"
    <3>1. \A f \in {t.e} \cup Mates(index, t.e) : home[f] = t.into
      BY <2>1, <2>5 DEF Merging
    <3> QED BY <1>2, <2>3, <2>5, <3>1 DEF Merging
  <2> QED BY <1>2, <2>4, <2>5
<1> QED BY <1>1, <1>2, <1>3, <1>4, QuietRead

LEMMA DropKeepsRInv ==
  ASSUME RInv, EInv', NEW c \in Consumers, Drop(c)
  PROVE  RInv'
<1>1. /\ task[c] # Idle
      /\ UNCHANGED <<staged, events, index, home, removed, edges, rules, relEvents, relTask, trouble>>
  BY ReadFacts
<1>2. PICK t, m : t = task[c] /\ m = Oldest(t.from) /\ t.step = "drop"
  BY DEF Drop, At
<1>3. PICK s, j : /\ s = (IF t.from = {m} THEN "add" ELSE "move")
                  /\ j = [t EXCEPT !.from = @ \ {m}, !.step = s]
                  /\ task' = [task EXCEPT ![c] = j]
  BY <1>2 DEF Drop, Step
<1>4. ASSUME Quiet PROVE j.e = t.e /\ Merging(j, index, home) /\ j.step # "edge"
  <2>1. Merging(t, index, home) /\ Placed(t, merged, home)
    BY <1>1, <1>2, <1>4, QuietHand
  <2>2. /\ t \in Job /\ t.all \subseteq Entities /\ {t.e} \cup Mates(index, t.e) \subseteq t.all
        /\ \A f \in t.all : index[f] # NoValue /\ home[f] \in {Nowhere} \cup ({t.into} \cup t.from)
    BY <1>2, <2>1 DEF Merging, Job
  <2>3. \A f \in t.all : home[f] # m
    BY <1>2, <2>1, <2>2 DEF Placed, Empty
  <2>4. /\ j \in Job /\ j.step = s /\ j.e = t.e /\ j.all = t.all /\ j.into = t.into
        /\ j.from = t.from \ {m}
    <3>1. s \in Steps
      BY <1>3 DEF Steps
    <3> QED BY <1>3, <2>2, <3>1 DEF Job
  <2>5. \A f \in t.all : home[f] \in {Nowhere} \cup ({t.into} \cup j.from)
    BY <2>2, <2>3, <2>4
  <2>6. CASE t.from = {m}
    <3>1. \A f \in t.all : home[f] \in {Nowhere} \cup {t.into}
      BY <2>4, <2>5, <2>6
    <3> QED BY <1>3, <2>2, <2>4, <2>6, <3>1 DEF Merging
  <2>7. CASE t.from # {m}
    BY <1>3, <2>2, <2>4, <2>5, <2>7 DEF Merging
  <2> QED BY <2>6, <2>7
<1> QED BY <1>1, <1>2, <1>3, <1>4, QuietRead

LEMMA AddKeepsRInv ==
  ASSUME RInv, EInv', NEW c \in Consumers, Add(c)
  PROVE  RInv'
<1>1. /\ task[c] # Idle
      /\ UNCHANGED <<staged, events, index, edges, rules, relEvents, relTask, trouble>>
  BY DEF Add, At, source, relationships, history
<1>2. PICK t : t = task[c] /\ t.step = "add"
  BY DEF Add, At
<1>3. PICK x \in t.all : /\ CanAdd(t.into, x) /\ AddToCluster(t.into, x)
                        /\ task' = [task EXCEPT ![c] = [t EXCEPT !.all = @ \ {x},
                                      !.step = IF t.all = {x} THEN t.then ELSE "add"]]
  BY <1>2 DEF Add, Step
<1>4. PICK s, j : /\ s = (IF t.all = {x} THEN t.then ELSE "add")
                  /\ j = [t EXCEPT !.all = @ \ {x}, !.step = s] /\ task' = [task EXCEPT ![c] = j]
  BY <1>3
<1>5. ASSUME Quiet
      PROVE  /\ removed' = {} /\ j.e = t.e /\ Merging(j, index, home')
             /\ \A f \in Entities : home'[f] # Nowhere => index[f] # NoValue
             /\ \A f \in Entities \ {j.e} : home[f] # Nowhere => home'[f] # Nowhere
             /\ \A f, g \in Entities \ {j.e} :
                   index[f] # NoValue /\ index[g] # NoValue /\ home[f] = home[g] => home'[f] = home'[g]
             /\ \A r \in rules \ relEvents : home'[r[1]] # Nowhere /\ home'[r[2]] # Nowhere =>
                   Drawing(r, j, home', edges')
  <2>1. Merging(t, index, home) /\ Placed(t, merged, home) /\ \A f : InHand(f) <=> f = t.e
    BY <1>1, <1>2, <1>5, QuietHand
  <2>2. Rows /\ Indexed /\ Settled /\ Shape /\ rules \subseteq Relations
    BY <1>5 DEF RInv, EInv, LInv
  <2>3. /\ t \in Job /\ t.all \subseteq Entities /\ t.into \in Merged /\ t.into # Nowhere
        /\ \A f \in t.all : index[f] # NoValue /\ home[f] \in {Nowhere, t.into}
        /\ \A f \in {t.e} \cup Mates(index, t.e) : f \in t.all \/ home[f] = t.into
    <3>1. t.into \in Merged /\ t.into # Nowhere
      BY <1>2, <2>1, ResolutionAssumption DEF Placed, Homeless, LiveIn, Merged, Nowhere
    <3> QED BY <1>2, <2>1, <3>1 DEF Merging, Job
  <2>4. /\ home' = [home EXCEPT ![x] = t.into] /\ home'[x] = t.into
        /\ \A f \in Entities \ {x} : home'[f] = home[f]
    BY <1>3, <2>2, <2>3 DEF AddToCluster, Shape
  <2>5. \A f \in Entities \ {t.e} : index[f] # NoValue => home'[f] = home[f]
    <3>1. x # t.e => home[x] = t.into
      BY <1>3, <2>1, <2>2, <2>3 DEF Settled
    <3> QED BY <2>4, <3>1
  <2>6. /\ j \in Job /\ j.step = s /\ j.e = t.e /\ j.all = t.all \ {x} /\ j.into = t.into
    <3>1. s \in Steps
      BY <1>4, <2>3 DEF Steps, Job
    <3> QED BY <1>4, <2>3, <3>1 DEF Job
  <2>7. Merging(j, index, home')
    <3>1. \A f \in j.all : index[f] # NoValue /\ home'[f] \in {Nowhere} \cup {j.into}
      BY <2>3, <2>4, <2>6
    <3>2. \A f \in {j.e} \cup Mates(index, j.e) : f \in j.all \/ home'[f] = j.into
      BY <2>3, <2>4, <2>6 DEF Mates, Job
    <3>3. CASE t.all = {x}
      <4>1. j.step \in {"finish", "relate"} /\ j.all = {}
        BY <1>4, <2>3, <2>6, <3>3 DEF Job
      <4> QED BY <2>6, <3>2, <4>1 DEF Merging
    <3>4. CASE t.all # {x}
      BY <1>4, <2>6, <3>1, <3>2, <3>4 DEF Merging
    <3> QED BY <3>3, <3>4
  <2>8. \A f \in Entities : home'[f] # Nowhere => index[f] # NoValue
    BY <2>2, <2>3, <2>4 DEF Indexed
  <2>9. \A f \in Entities \ {j.e} : home[f] # Nowhere => home'[f] # Nowhere
    BY <2>3, <2>4
  <2>10. ASSUME NEW r \in rules \ relEvents, home'[r[1]] # Nowhere /\ home'[r[2]] # Nowhere
         PROVE  Drawing(r, j, home', edges')
    <3>1. r[1] \in Entities /\ r[2] \in Entities
      BY <2>2, ResolutionAssumption
    <3>2. CASE t.e \in {r[1], r[2]}
      <4>1. j.step # "edge"
        BY <1>4, <2>3, <2>6 DEF Job
      <4> QED BY <2>6, <3>2, <4>1 DEF Drawing
    <3>3. CASE t.e \notin {r[1], r[2]}
      <4>1. home'[r[1]] = home[r[1]] /\ home'[r[2]] = home[r[2]]
        BY <2>5, <2>8, <2>10, <3>1, <3>3
      <4>2. Drawing(r, t, home, edges)
        BY <1>1, <1>2, <1>5, <2>10, <4>1, QuietHand
      <4>3. Pair(r, home') \in edges'
        BY <1>1, <1>2, <3>3, <4>1, <4>2 DEF Drawing, Pair
      <4> QED BY <4>3 DEF Drawing
    <3> QED BY <3>2, <3>3
  <2>11. removed' = {}
    BY <1>3, <2>2 DEF AddToCluster, Rows
  <2> QED BY <2>5, <2>6, <2>7, <2>8, <2>9, <2>10, <2>11
<1>6. task' = [task EXCEPT ![c] = j]
  BY <1>4
<1> QED BY <1>1, <1>2, <1>5, <1>6, QuietStepOn

LEMMA MoveKeepsRInv ==
  ASSUME RInv, EInv', NEW c \in Consumers, Move(c)
  PROVE  RInv'
<1>1. /\ task[c] # Idle
      /\ UNCHANGED <<staged, events, index, removed, edges, rules, relEvents, relTask, trouble>>
  BY DEF Move, At, source, relationships, history
<1>2. PICK t, m : t = task[c] /\ m = Oldest(t.from) /\ t.step = "move"
  BY DEF Move, At
<1>3. home' = [e \in Entities |-> IF home[e] = m THEN t.into ELSE home[e]]
  BY <1>2 DEF Move, MoveClusterMembers
<1>4. PICK j : j = [t EXCEPT !.step = "rewire"] /\ task' = [task EXCEPT ![c] = j]
  BY <1>2 DEF Move, Goto
<1>5. ASSUME Quiet
      PROVE  /\ removed' = {} /\ j.e = t.e /\ Merging(j, index, home')
             /\ \A f \in Entities : home'[f] # Nowhere => index[f] # NoValue
             /\ \A f \in Entities \ {j.e} : home[f] # Nowhere => home'[f] # Nowhere
             /\ \A f, g \in Entities \ {j.e} :
                   index[f] # NoValue /\ index[g] # NoValue /\ home[f] = home[g] => home'[f] = home'[g]
             /\ \A r \in rules \ relEvents : home'[r[1]] # Nowhere /\ home'[r[2]] # Nowhere =>
                   Drawing(r, j, home', edges')
  <2>1. Merging(t, index, home) /\ Placed(t, merged, home)
    BY <1>1, <1>2, <1>5, QuietHand
  <2>2. Rows /\ Indexed /\ rules \subseteq Relations
    BY <1>5 DEF RInv
  <2>3. /\ t \in Job /\ t.all \subseteq Entities /\ t.into # Nowhere
        /\ {t.e} \cup Mates(index, t.e) \subseteq t.all
        /\ \A f \in t.all : index[f] # NoValue /\ home[f] \in {Nowhere} \cup ({t.into} \cup t.from)
    <3>1. t.into # Nowhere
      BY <1>2, <2>1, ResolutionAssumption DEF Placed, Homeless, LiveIn, Merged, Nowhere
    <3> QED BY <1>2, <2>1, <3>1 DEF Merging, Job
  <2>4. m # Nowhere
    <3>1. Shape /\ JobOK(t)
      BY <1>1, <1>2, JobAt DEF RInv, EInv, LInv
    <3>2. t.from \in SUBSET Merged /\ t.from # {}
      BY <1>2, <3>1 DEF JobOK
    <3> QED BY <1>2, <3>2, OldestOf, ResolutionAssumption DEF Merged, Nowhere
  <2>5. /\ j \in Job /\ j.step = "rewire" /\ j.e = t.e /\ j.all = t.all
        /\ j.into = t.into /\ j.from = t.from
    BY <1>4, <2>3 DEF Job, Steps
  <2>6. \A f \in Entities : home'[f] # Nowhere <=> home[f] # Nowhere
    BY <1>3, <2>3, <2>4
  <2>7. Merging(j, index, home')
    <3>1. \A f \in j.all : index[f] # NoValue /\ home'[f] \in {Nowhere} \cup ({j.into} \cup j.from)
      BY <1>3, <2>3, <2>5
    <3> QED BY <2>3, <2>5, <3>1 DEF Merging
  <2>8. ASSUME NEW r \in rules \ relEvents, home'[r[1]] # Nowhere /\ home'[r[2]] # Nowhere
        PROVE  Drawing(r, j, home', edges')
    <3>1. r[1] \in Entities /\ r[2] \in Entities
      BY <2>2, ResolutionAssumption
    <3>2. CASE t.e \in {r[1], r[2]}
      BY <2>5, <3>2 DEF Drawing
    <3>3. CASE t.e \notin {r[1], r[2]}
      <4>1. Drawing(r, t, home, edges)
        BY <1>1, <1>2, <1>5, <2>6, <2>8, <3>1, QuietHand
      <4>2. Pair(r, home) \in edges
        BY <1>2, <3>3, <4>1 DEF Drawing
      <4>3. Pair(r, home') \in Swapped(m, t.into, edges)
        <5>1. PICK p \in edges : p[1] = home[r[1]] /\ p[2] = home[r[2]]
          BY <4>2 DEF Pair
        <5>2. /\ home'[r[1]] = IF p[1] = m THEN t.into ELSE p[1]
              /\ home'[r[2]] = IF p[2] = m THEN t.into ELSE p[2]
          BY <1>3, <3>1, <5>1
        <5>3. <<IF p[1] = m THEN t.into ELSE p[1], IF p[2] = m THEN t.into ELSE p[2]>>
                 \in Swapped(m, t.into, edges)
          BY DEF Swapped
        <5> QED BY <5>2, <5>3 DEF Pair
      <4>4. m = Oldest(j.from) /\ t.into = j.into /\ edges' = edges
        BY <1>1, <1>2, <2>5
      <4>5. Pair(r, home') \in Swapped(Oldest(j.from), j.into, edges')
        BY <4>3, <4>4
      <4> QED BY <2>5, <4>5 DEF Drawing
    <3> QED BY <3>2, <3>3
  <2> QED BY <1>1, <1>3, <2>2, <2>5, <2>6, <2>7, <2>8 DEF Rows, Indexed
<1> QED BY <1>1, <1>2, <1>4, <1>5, QuietStepOn

LEMMA RewireKeepsRInv ==
  ASSUME RInv, EInv', NEW c \in Consumers, Rewire(c)
  PROVE  RInv'
<1>1. /\ task[c] # Idle
      /\ UNCHANGED <<staged, events, index, home, removed, rules, relEvents, relTask, trouble>>
  BY DEF Rewire, At, source, relationships, history
<1>2. PICK t, m : t = task[c] /\ m = Oldest(t.from) /\ t.step = "rewire"
  BY DEF Rewire, At
<1>3. edges' = Swapped(m, t.into, edges)
  BY <1>2 DEF Rewire, RewireMergedEntity, Swapped
<1>4. PICK j : j = [t EXCEPT !.step = "drop"] /\ task' = [task EXCEPT ![c] = j]
  BY <1>2 DEF Rewire, Goto
<1>5. ASSUME Quiet
      PROVE  /\ removed' = {} /\ j.e = t.e /\ Merging(j, index, home')
             /\ \A f \in Entities : home'[f] # Nowhere => index[f] # NoValue
             /\ \A r \in rules \ relEvents : home'[r[1]] # Nowhere /\ home'[r[2]] # Nowhere =>
                   Drawing(r, j, home', edges')
  <2>1. Merging(t, index, home) /\ Placed(t, merged, home)
    BY <1>1, <1>2, <1>5, QuietHand
  <2>2. Rows /\ Indexed /\ rules \subseteq Relations
    BY <1>5 DEF RInv
  <2>3. /\ t \in Job /\ {t.e} \cup Mates(index, t.e) \subseteq t.all
        /\ \A f \in t.all : index[f] # NoValue /\ home[f] \in {Nowhere} \cup ({t.into} \cup t.from)
    BY <1>2, <2>1 DEF Merging
  <2>4. /\ j \in Job /\ j.step = "drop" /\ j.e = t.e /\ j.all = t.all
        /\ j.into = t.into /\ j.from = t.from
    BY <1>4, <2>3 DEF Job, Steps
  <2>5. Merging(j, index, home)
    BY <2>3, <2>4 DEF Merging
  <2>6. ASSUME NEW r \in rules \ relEvents, home[r[1]] # Nowhere /\ home[r[2]] # Nowhere
        PROVE  Drawing(r, j, home, edges')
    <3>1. r[1] \in Entities /\ r[2] \in Entities
      BY <2>2, ResolutionAssumption
    <3>2. CASE t.e \in {r[1], r[2]}
      BY <2>4, <3>2 DEF Drawing
    <3>3. CASE t.e \notin {r[1], r[2]}
      <4>1. Drawing(r, t, home, edges)
        BY <1>1, <1>2, <1>5, <2>6, QuietHand
      <4>2. Pair(r, home) \in edges \/ Pair(r, home) \in Swapped(m, t.into, edges)
        BY <1>2, <3>3, <4>1 DEF Drawing
      <4>3. home[r[1]] # m /\ home[r[2]] # m
        BY <1>2, <2>1, <3>1 DEF Placed, Empty
      <4>4. Pair(r, home) \in edges'
        BY <1>3, <4>2, <4>3 DEF Pair, Swapped
      <4> QED BY <4>4 DEF Drawing
    <3> QED BY <3>2, <3>3
  <2> QED BY <1>1, <2>2, <2>4, <2>5, <2>6 DEF Rows, Indexed
<1> QED BY <1>1, <1>2, <1>4, <1>5, QuietStepOn

\* A step of an instance that is at its edges: it loses none of its relationships.
LEMMA EdgeStep ==
  ASSUME RInv, EInv', NEW c \in Consumers, task[c] # Idle, task[c].step \in {"relate", "edge"},
         NEW j, task' = [task EXCEPT ![c] = j], edges \subseteq edges',
         UNCHANGED <<staged, events, index, home, removed, rules, relEvents, relTask, trouble>>,
         Quiet => /\ j \in Job /\ j.step = "edge" /\ j.e = task[c].e /\ j.into = task[c].into
                  /\ \A r \in rules \ relEvents :
                        /\ home[r[1]] # Nowhere /\ home[r[2]] # Nowhere /\ task[c].e \in {r[1], r[2]}
                        /\ task[c].step = "relate" \/ r \in task[c].todo \/ task[c].pair = Pair(r, home)
                        => r \in j.todo \/ j.pair = Pair(r, home) \/ Pair(r, home) \in edges'
  PROVE  RInv'
<1>1. PICK t : t = task[c]
  OBVIOUS
<1>2. ASSUME Quiet
      PROVE  /\ removed' = {} /\ j.e = t.e /\ Merging(j, index, home')
             /\ \A f \in Entities : home'[f] # Nowhere => index[f] # NoValue
             /\ \A r \in rules \ relEvents : home'[r[1]] # Nowhere /\ home'[r[2]] # Nowhere =>
                   Drawing(r, j, home', edges')
  <2>1. Merging(t, index, home) /\ Rows /\ Indexed
    BY <1>1, <1>2, QuietHand DEF RInv
  <2>2. \A f \in {t.e} \cup Mates(index, t.e) : home[f] = t.into
    BY <1>1, <2>1 DEF Merging
  <2>3. j \in Job /\ j.step = "edge" /\ j.e = t.e /\ j.into = t.into
    BY <1>1, <1>2
  <2>4. Merging(j, index, home)
    BY <2>2, <2>3 DEF Merging
  <2>5. ASSUME NEW r \in rules \ relEvents, home[r[1]] # Nowhere /\ home[r[2]] # Nowhere
        PROVE  Drawing(r, j, home, edges')
    <3>1. Drawing(r, t, home, edges)
      BY <1>1, <1>2, <2>5, QuietHand
    <3>2. CASE Pair(r, home) \in edges
      BY <3>2 DEF Drawing
    <3>3. CASE /\ t.e \in {r[1], r[2]}
               /\ t.step = "relate" \/ r \in t.todo \/ t.pair = Pair(r, home)
      BY <1>1, <1>2, <2>3, <2>5, <3>3 DEF Drawing
    <3> QED BY <1>1, <3>1, <3>2, <3>3 DEF Drawing
  <2> QED BY <2>1, <2>3, <2>4, <2>5 DEF Rows, Indexed
<1> QED BY <1>1, <1>2, QuietStepOn

LEMMA RelateKeepsRInv ==
  ASSUME RInv, EInv', NEW c \in Consumers, Relate(c), Waiting(task[c].e) # {}
  PROVE  RInv'
<1>1. /\ task[c] # Idle
      /\ UNCHANGED <<staged, events, index, home, removed, edges, rules, relEvents, relTask, trouble>>
  BY DEF Relate, At, tables, source, relationships, history
<1>2. PICK t : t = task[c] /\ t.step = "relate"
  BY DEF Relate, At
<1>3. PICK todo, j : /\ todo = Waiting(t.e) /\ task' = [task EXCEPT ![c] = j]
                     /\ j = [t EXCEPT !.step = "edge", !.todo = todo]
  BY <1>2 DEF Relate, Step
<1>4. ASSUME Quiet
      PROVE  /\ j \in Job /\ j.step = "edge" /\ j.e = t.e /\ j.into = t.into
             /\ \A r \in rules : t.e \in {r[1], r[2]} => r \in j.todo
  <2>1. Merging(t, index, home) /\ rules \subseteq Relations
    BY <1>1, <1>2, <1>4, QuietHand DEF RInv
  <2>2. t \in Job /\ todo \in SUBSET Relations
    BY <1>3, <2>1 DEF Merging, Waiting
  <2>3. j \in Job /\ j.step = "edge" /\ j.e = t.e /\ j.into = t.into /\ j.todo = todo
    BY <1>3, <2>2 DEF Job, Steps
  <2> QED BY <1>3, <2>3 DEF Waiting
<1> QED BY <1>1, <1>2, <1>3, <1>4, EdgeStep

LEMMA FindEndKeepsRInv ==
  ASSUME RInv, EInv', NEW c \in Consumers, FindEnd(c)
  PROVE  RInv'
<1>1. /\ task[c] # Idle
      /\ UNCHANGED <<staged, events, index, home, removed, edges, rules, relEvents, relTask, trouble>>
  BY DEF FindEnd, At, tables, source, relationships, history
<1>2. PICK t : t = task[c] /\ t.step = "edge" /\ t.pair = <<>>
  BY DEF FindEnd, At
<1>3. PICK x \in t.todo :
        \E pair : /\ pair = IF x[1] = t.e THEN <<t.into, EndOf(x[2])>> ELSE <<EndOf(x[1]), t.into>>
                 /\ task' = [task EXCEPT ![c] = [t EXCEPT !.todo = @ \ {x}, !.pair = EdgeOf(pair)]]
  BY <1>2 DEF FindEnd, Step
<1>4. PICK pair : /\ pair = IF x[1] = t.e THEN <<t.into, EndOf(x[2])>> ELSE <<EndOf(x[1]), t.into>>
                  /\ task' = [task EXCEPT ![c] = [t EXCEPT !.todo = @ \ {x}, !.pair = EdgeOf(pair)]]
  BY <1>3
<1>5. PICK j, edge : /\ edge = EdgeOf(pair) /\ j = [t EXCEPT !.todo = @ \ {x}, !.pair = edge]
                     /\ task' = [task EXCEPT ![c] = j]
  BY <1>4
<1>6. ASSUME Quiet
      PROVE  /\ j \in Job /\ j.step = "edge" /\ j.e = t.e /\ j.into = t.into
             /\ \A r \in rules \ relEvents :
                   /\ home[r[1]] # Nowhere /\ home[r[2]] # Nowhere /\ t.e \in {r[1], r[2]}
                   /\ r \in t.todo \/ t.pair = Pair(r, home)
                   => r \in j.todo \/ j.pair = Pair(r, home)
  <2>1. Merging(t, index, home) /\ Placed(t, merged, home) /\ Housed(merged, home) /\ Indexed
    BY <1>1, <1>2, <1>6, QuietHand DEF RInv
  <2>2. t \in Job /\ t.todo \in SUBSET Relations /\ x[1] \in Entities /\ x[2] \in Entities
    BY <1>3, <2>1, ResolutionAssumption DEF Merging, Job
  <2>3. t.into \in Merged /\ t.into # Nowhere /\ home[t.e] = t.into
    BY <1>2, <2>1, ResolutionAssumption DEF Placed, Homeless, LiveIn, Merged, Nowhere, Merging
  <2>4. \A e \in Entities : EndOf(e) = Nowhere \/ (EndOf(e) \in Merged /\ EndOf(e) = home[e])
    BY <2>1 DEF EndOf, Housed, LiveIn
  <2>5. edge \in {<<>>} \cup (Merged \X Merged)
    <3>1. edge # <<>> => edge = pair /\ pair[1] # Nowhere /\ pair[2] # Nowhere
      BY <1>5 DEF EdgeOf
    <3>2. CASE x[1] = t.e
      BY <1>4, <2>2, <2>3, <2>4, <3>1, <3>2
    <3>3. CASE x[1] # t.e
      BY <1>4, <2>2, <2>3, <2>4, <3>1, <3>3
    <3> QED BY <3>2, <3>3
  <2>6. /\ j \in Job /\ j.step = "edge" /\ j.e = t.e /\ j.into = t.into
        /\ j.todo = t.todo \ {x} /\ j.pair = edge
    <3>1. t.todo \ {x} \in SUBSET Relations
      BY <2>2
    <3>2. PICK todo \in SUBSET Relations : todo = t.todo \ {x}
      BY <3>1
    <3>3. j = [t EXCEPT !.todo = todo, !.pair = edge]
      BY <1>5, <2>2, <3>2 DEF Job
    <3>4. /\ j \in Job /\ j.step = t.step /\ j.e = t.e /\ j.into = t.into
          /\ j.todo = todo /\ j.pair = edge
      BY <2>2, <2>5, <3>3 DEF Job
    <3> QED BY <1>2, <3>2, <3>4
  <2>7. ASSUME home[x[1]] # Nowhere, home[x[2]] # Nowhere, t.e \in {x[1], x[2]}
        PROVE  edge = Pair(x, home)
    <3>1. EndOf(x[1]) = home[x[1]] /\ EndOf(x[2]) = home[x[2]]
      BY <2>1, <2>2, <2>7 DEF Indexed, EndOf
    <3>2. pair = <<home[x[1]], home[x[2]]>>
      BY <1>4, <2>3, <2>7, <3>1
    <3>3. Nowhere \notin {pair[1], pair[2]}
      BY <2>7, <3>2
    <3> QED BY <1>5, <3>2, <3>3 DEF EdgeOf, Pair
  <2>8. \A r : t.pair # Pair(r, home)
    BY <1>2 DEF Pair
  <2> QED BY <2>6, <2>7, <2>8
<1> QED BY <1>1, <1>2, <1>5, <1>6, EdgeStep

LEMMA PutEdgeKeepsRInv ==
  ASSUME RInv, EInv', NEW c \in Consumers, PutEdge(c)
  PROVE  RInv'
<1>1. /\ task[c] # Idle
      /\ UNCHANGED <<staged, events, index, home, removed, rules, relEvents, relTask, trouble>>
  BY DEF PutEdge, At, source, relationships, history
<1>2. PICK t : t = task[c] /\ t.step = "edge" /\ edges' = edges \cup {t.pair}
  BY DEF PutEdge, At
<1>3. PICK j : task' = [task EXCEPT ![c] = j] /\ j = [t EXCEPT !.pair = <<>>]
  BY <1>2 DEF PutEdge, Step
<1>4. ASSUME Quiet
      PROVE  j \in Job /\ j.step = "edge" /\ j.e = t.e /\ j.into = t.into /\ j.todo = t.todo
  <2>1. t \in Job
    BY <1>1, <1>2, <1>4, QuietHand DEF Merging
  <2> QED BY <1>2, <1>3, <2>1 DEF Job
<1> QED BY <1>1, <1>2, <1>3, <1>4, EdgeStep

\* No statement is refused to an instance that is left alone.
LEMMA NotRefused ==
  ASSUME RInv, Quiet, NEW c \in Consumers, task[c] # Idle
  PROVE  ~Refused(c) /\ task[c].step \notin {"remove", "members", "bury", "cascade"}
<1>1. PICK t : t = task[c]
  OBVIOUS
<1>2. Merging(t, index, home) /\ Placed(t, merged, home) /\ removed = {}
  BY <1>1, QuietHand DEF RInv, Rows
<1>3. Shape /\ JobOK(t)
  BY <1>1, JobAt DEF RInv, EInv, LInv
<1>4. t.step = "add" => \A f \in t.all : CanAdd(t.into, f)
  BY <1>2 DEF Merging, CanAdd
<1>5. \A m, n : CanMove(m, n)
  BY <1>2 DEF CanMove
<1>6. t.step = "drop" => merged[Oldest(t.from)] = "live"
  <2>1. t.step = "drop" => t.from \in SUBSET Merged /\ t.from # {}
    BY <1>3 DEF JobOK
  <2>2. t.step = "drop" => Oldest(t.from) \in t.from
    BY <2>1, OldestOf
  <2> QED BY <1>2, <2>2 DEF Placed, LiveIn
<1>7. t.step \in {"update", "finish"} => merged[t.into] = "live"
  BY <1>2 DEF Placed, Homeless, LiveIn
<1>8. t.step \notin {"remove", "members", "bury", "cascade"}
  BY <1>2 DEF Merging
<1> QED BY <1>1, <1>4, <1>5, <1>6, <1>7, <1>8 DEF Refused, At

\* An event that is handled and committed, or will come once more.
LEMMA RowsAfter ==
  ASSUME Rows, NEW e \in Entities, events[e] # <<>>, index[e] # NoValue, Commit(e),
         UNCHANGED <<staged, removed, index>>
  PROVE  Rows'
<1>1. \A f \in Entities : events'[f] = events[f] \/ (f = e /\ events'[f] = Tail(events[f]))
  <2>1. CASE events' = [events EXCEPT ![e] = Tail(@)]
    BY <2>1 DEF Rows
  <2>2. CASE UNCHANGED events
    BY <2>2
  <2> QED BY <2>1, <2>2 DEF Commit
<1>2. events[e] \in Seq(Row) /\ \A k \in 1 .. Len(events[e]) : ~events[e][k].deleted
  BY DEF Rows
<1>3. Tail(events[e]) \in Seq(Row) /\ \A k \in 1 .. Len(Tail(events[e])) : ~Tail(events[e])[k].deleted
  <2>1. PICK s \in Seq(Row) : s = events[e]
    BY <1>2
  <2>2. Tail(s) \in Seq(Row) /\ Len(Tail(s)) = Len(s) - 1 /\ \A k \in 1 .. Len(Tail(s)) : Tail(s)[k] = s[k + 1]
    BY <2>1
  <2> QED BY <1>2, <2>1, <2>2
<1>4. events' \in [Entities -> Seq(Row)]
  BY <1>3 DEF Rows, Commit
<1>5. \A f \in Entities : /\ \A k \in 1 .. Len(events'[f]) : ~events'[f][k].deleted
                          /\ events'[f] # <<>> => events[f] # <<>>
  BY <1>1, <1>3 DEF Rows
<1>6. \A f \in Entities : staged[f] # Absent /\ events'[f] = <<>> => index[f] # NoValue
  BY <1>1 DEF Rows
<1> QED BY <1>4, <1>5, <1>6 DEF Rows

LEMMA EndKeepsRInv ==
  ASSUME RInv, EInv', NEW c \in Consumers, Related(c) \/ (Relate(c) /\ Waiting(task[c].e) = {})
  PROVE  RInv'
<1>1. /\ task[c] # Idle /\ task[c].step \in {"relate", "edge"} /\ Done(c)
      /\ UNCHANGED <<staged, index, home, removed, edges, rules, relEvents, relTask, trouble>>
  BY DEF Related, Relate, At, tables, source, relationships, history
<1>2. PICK t, e : t = task[c] /\ e = t.e
  OBVIOUS
<1>3. Shape /\ rules' \subseteq Relations
  BY <1>1 DEF RInv, EInv, LInv
<1>4. task'[c] = Idle /\ Commit(e) /\ \A d \in Consumers \ {c} : task'[d] = task[d]
  BY <1>1, <1>2, <1>3 DEF Done, Shape
<1> SUFFICES ASSUME Quiet' PROVE (Rows /\ Indexed /\ Settled /\ AtWork /\ Drawn)'
  BY <1>3 DEF RInv
<1>5. Quiet
  BY <1>1 DEF Quiet
<1>6. /\ Rows /\ Indexed /\ Settled /\ Merging(t, index, home) /\ Placed(t, merged, home)
      /\ \A f : InHand(f) <=> f = e
  BY <1>1, <1>2, <1>5, QuietHand DEF RInv
<1>7. /\ e \in Entities /\ events[e] # <<>> /\ index[e] # NoValue /\ t.into # Nowhere
      /\ \A f \in {e} \cup Mates(index, e) : home[f] = t.into
  <2>1. t.into # Nowhere
    BY <1>1, <1>2, <1>6, ResolutionAssumption DEF Placed, Homeless, LiveIn, Merged, Nowhere
  <2>2. t \in Job /\ \A f \in {e} \cup Mates(index, e) : home[f] = t.into
    BY <1>1, <1>2, <1>6 DEF Merging
  <2> QED BY <1>1, <1>2, <1>6, <2>1, <2>2 DEF Indexed, Job
<1>8. Rows'
  BY <1>1, <1>4, <1>6, <1>7, RowsAfter
<1>9. \A d \in Consumers : task'[d] = Idle
  BY <1>1, <1>4, <1>5, QuietHand
<1>10. Indexed'
  BY <1>1, <1>6, <1>9 DEF Indexed, IsLive
<1>11. Settled'
  <2>1. \A f, g \in Entities : g \in Mates(index, f) => f \in Mates(index, g)
    BY DEF Mates
  <2>2. \A f \in Entities : index[f] # NoValue => home[f] # Nowhere
    BY <1>6, <1>7 DEF Settled
  <2>3. ASSUME NEW f \in Entities, NEW g \in Entities, g \in Mates(index, f) PROVE home[f] = home[g]
    <3>1. CASE f = e
      BY <1>7, <2>3, <3>1
    <3>2. CASE g = e
      BY <1>7, <2>1, <2>3, <3>2
    <3>3. CASE f # e /\ g # e
      BY <1>6, <2>3, <3>3 DEF Settled
    <3> QED BY <3>1, <3>2, <3>3
  <2> QED BY <1>1, <2>2, <2>3 DEF Settled
<1>12. AtWork'
  BY <1>9 DEF AtWork
<1>13. Drawn'
  <2>1. ASSUME NEW r \in rules \ relEvents, home[r[1]] # Nowhere /\ home[r[2]] # Nowhere
        PROVE  Pair(r, home) \in edges
    <3>1. Drawing(r, t, home, edges)
      BY <1>1, <1>2, <1>5, <2>1, QuietHand
    <3>2. CASE Related(c)
      <4>1. t.step = "edge" /\ t.pair = <<>> /\ t.todo = {}
        BY <1>2, <3>2 DEF Related, At
      <4> QED BY <3>1, <4>1 DEF Drawing, Pair
    <3>3. CASE Relate(c) /\ Waiting(t.e) = {}
      <4>1. t.step = "relate" /\ t.e \notin {r[1], r[2]}
        BY <1>2, <3>3 DEF Relate, At, Waiting
      <4> QED BY <3>1, <4>1 DEF Drawing
    <3> QED BY <1>2, <3>2, <3>3
  <2> QED BY <1>1, <2>1 DEF Drawn
<1> QED BY <1>8, <1>10, <1>11, <1>12, <1>13

\* Steps that no instance makes until there is trouble.
LEMMA TroubledSteps ==
  ASSUME RInv, EInv', NEW c \in Consumers, MergeFails(c) \/ Delete(c) \/ Fault(c)
  PROVE  RInv'
<1>1. task[c] # Idle /\ UNCHANGED rules
  BY DEF MergeFails, Refused, Fails, Delete, Remove, CheckMembers, Bury, Cascade, Fault, At, relationships
<1>2. ~Quiet'
  <2>1. CASE Fault(c)
    BY <2>1 DEF Fault, Quiet
  <2>2. CASE MergeFails(c) \/ Delete(c)
    <3>1. /\ Refused(c) \/ task[c].step \in {"remove", "members", "bury", "cascade"}
          /\ UNCHANGED trouble
      BY <2>2 DEF MergeFails, Fails, Delete, Remove, CheckMembers, Bury, Cascade, At, history
    <3> QED BY <1>1, <3>1, NotRefused DEF Quiet
  <2> QED BY <2>1, <2>2
<1> QED BY <1>1, <1>2 DEF RInv

\* Between two events every edge is drawn but the one the relationship consumer has.
LEMMA QuietRest ==
  ASSUME RInv, Quiet, \A c \in Consumers : task[c] = Idle
  PROVE  /\ Housed(merged, home) /\ \A f : ~InHand(f)
         /\ \A r \in rules \ relEvents : home[r[1]] # Nowhere /\ home[r[2]] # Nowhere =>
               Pair(r, home) \in edges \/ (relTask # Idle /\ relTask = Pair(r, home))
<1>1. Drawn /\ rules \subseteq Relations
  BY DEF RInv
<1>2. Housed(merged, home)
  BY DEF RInv, Quiet, EInv, LInv, NoOverlap
<1>3. ASSUME NEW r \in rules \ relEvents, home[r[1]] # Nowhere /\ home[r[2]] # Nowhere
      PROVE  Pair(r, home) \in edges \/ (relTask # Idle /\ relTask = Pair(r, home))
  <2>1. r[1] \in Entities /\ r[2] \in Entities
    BY <1>1, ResolutionAssumption
  <2>2. home[r[1]] \in Merged /\ home[r[2]] \in Merged
    BY <1>2, <1>3, <2>1 DEF Housed, LiveIn
  <2>3. Pair(r, home) # Idle
    BY <2>2, IdleAssumption DEF Pair
  <2> QED BY <1>1, <1>3, <2>3 DEF Drawn
<1> QED BY <1>2, <1>3 DEF InHand

LEMMA IndexKeepsRInv ==
  ASSUME RInv, EInv', NEW c \in Consumers, NEW e \in Entities, Index(c, e)
  PROVE  RInv'
<1>1. /\ UNCHANGED <<staged, events, home, removed, edges, rules, relEvents, relTask>>
      /\ events[e] # <<>> /\ ~Head(events[e]).deleted /\ trouble' = trouble \cup Overlaps
  BY DEF Index, CanTake, source, relationships
<1>2. PICK v, j : /\ v = Head(events[e]).data /\ index' = [index EXCEPT ![e] = v]
                  /\ j = NewJob("match", e) /\ task' = [task EXCEPT ![c] = j]
  BY DEF Index, Step
<1>3. Shape /\ rules' \subseteq Relations
  BY <1>1 DEF RInv, EInv, LInv
<1>4. task'[c] = j /\ \A d \in Consumers \ {c} : task'[d] = task[d]
  BY <1>2, <1>3, JobGoes
<1> SUFFICES ASSUME Quiet' PROVE (Rows /\ Indexed /\ Settled /\ AtWork /\ Drawn)'
  BY <1>3 DEF RInv
<1>5. Quiet /\ relTask = Idle /\ \A d \in Consumers : task[d] = Idle
  BY <1>1 DEF Quiet, Overlaps, Busy
<1>6. Rows /\ Indexed /\ Settled /\ \A f : ~InHand(f)
  BY <1>5, QuietRest DEF RInv
<1>7. v \in Values /\ v # NoValue /\ staged[e] # Absent
  <2>1. PICK s \in Seq(Row) : s = events[e] /\ s # <<>>
    BY <1>1, <1>6 DEF Rows
  <2>2. Head(s) \in Row
    BY <2>1
  <2> QED BY <1>1, <1>2, <1>6, <2>1, <2>2, ResolutionAssumption DEF Row, Rows
<1>8. index'[e] = v /\ \A f \in Entities \ {e} : index'[f] = index[f]
  BY <1>2, <1>3 DEF Shape
<1>9. j \in Job /\ j.step = "match" /\ j.e = e
  BY <1>2 DEF NewJob, Job, Steps
<1>10. j # Idle
  BY <1>9, IdleAssumption
<1>11. \A f : InHand(f)' <=> f = e
  BY <1>4, <1>5, <1>9, <1>10 DEF InHand
<1>12. Rows'
  BY <1>1, <1>6, <1>7, <1>8 DEF Rows
<1>13. Indexed'
  <2>1. \A f \in Entities : index'[f] # NoValue => IsLive(f)'
    BY <1>1, <1>6, <1>7, <1>8 DEF Indexed, Rows, IsLive
  <2>2. \A f \in Entities : home'[f] # Nowhere => index'[f] # NoValue
    BY <1>1, <1>6, <1>7, <1>8 DEF Indexed
  <2> QED BY <1>1, <1>4, <1>5, <1>7, <1>8, <1>9, <2>1, <2>2 DEF Indexed
<1>14. Settled'
  <2>1. \A f, g \in Entities \ {e} : g \in Mates(index', f) => g \in Mates(index, f)
    BY <1>8 DEF Mates
  <2> QED BY <1>1, <1>6, <1>8, <1>11, <2>1 DEF Settled
<1>15. AtWork'
  <2>1. Merging(j, index', home')
    BY <1>9 DEF Merging
  <2> QED BY <1>4, <1>5, <2>1 DEF AtWork
<1>16. Drawn'
  BY <1>1, <1>5, QuietRest DEF Drawn
<1> QED BY <1>12, <1>13, <1>14, <1>15, <1>16

LEMMA TakeDeletedKeepsRInv ==
  ASSUME RInv, EInv', NEW c \in Consumers, NEW e \in Entities, TakeDeleted(c, e)
  PROVE  RInv'
<1>1. /\ UNCHANGED rules /\ trouble \subseteq trouble'
      /\ events[e] # <<>> /\ Head(events[e]).deleted
  BY DEF TakeDeleted, CanTake, relationships
<1>2. ~Quiet
  <2> SUFFICES ASSUME Quiet PROVE FALSE
    OBVIOUS
  <2>1. Rows
    BY DEF RInv
  <2>2. PICK s \in Seq(Row) : s = events[e] /\ s # <<>>
    BY <1>1, <2>1 DEF Rows
  <2>3. Head(s) = s[1] /\ 1 \in 1 .. Len(s)
    BY <2>2
  <2> QED BY <1>1, <2>1, <2>2, <2>3 DEF Rows
<1>3. ~Quiet'
  BY <1>1, <1>2 DEF Quiet
<1> QED BY <1>1, <1>3 DEF RInv

LEMMA UpsertKeepsRInv ==
  ASSUME RInv, EInv', NEW p \in Feed, Upsert(p[1], p[2])
  PROVE  RInv'
<1>1. UNCHANGED <<index, home, removed, edges, rules, relEvents, relTask, task, trouble>>
  BY DEF Upsert, tables, relationships, history
<1>2. PICK e \in Entities, v \in Values : e = p[1] /\ v = p[2]
  BY ResolutionAssumption
<1>3. PICK row : row = [data |-> v, deleted |-> FALSE]
  OBVIOUS
<1>4. /\ staged' = [staged EXCEPT ![e] = row]
      /\ \/ events' = [events EXCEPT ![e] = Append(@, row)]
         \/ events' = [events EXCEPT ![e] = @ \o <<row, row>>]
  BY <1>2, <1>3 DEF Upsert
<1>5. row \in Row /\ ~row.deleted /\ row # Absent
  <2>1. row \in Row /\ ~row.deleted
    BY <1>3 DEF Row
  <2> QED BY <2>1, AbsentAssumption
<1> SUFFICES ASSUME Quiet' PROVE (Rows /\ Indexed /\ Settled /\ AtWork /\ Drawn)'
  BY <1>1 DEF RInv
<1>6. Rows /\ Indexed /\ Settled /\ AtWork /\ Drawn
  BY <1>1 DEF RInv, Quiet
<1>7. staged' \in [Entities -> Row \cup {Absent}] /\ staged'[e] = row
      /\ \A f \in Entities \ {e} : staged'[f] = staged[f]
  BY <1>4, <1>5, <1>6 DEF Rows
<1>8. PICK s \in Seq(Row) : s = events[e] /\ \A k \in 1 .. Len(s) : ~s[k].deleted
  BY <1>6 DEF Rows
<1>9. PICK t \in Seq(Row) : /\ events' = [events EXCEPT ![e] = t]
                           /\ t # <<>> /\ \A k \in 1 .. Len(t) : ~t[k].deleted
  <2>1. CASE events' = [events EXCEPT ![e] = Append(@, row)]
    <3>1. PICK t : t = Append(s, row)
      OBVIOUS
    <3>2. t \in Seq(Row) /\ t # <<>> /\ \A k \in 1 .. Len(t) : ~t[k].deleted
      BY <1>5, <1>8, <3>1
    <3> QED BY <1>8, <2>1, <3>1, <3>2
  <2>2. CASE events' = [events EXCEPT ![e] = @ \o <<row, row>>]
    <3>0. PICK two : two = <<row, row>>
      OBVIOUS
    <3>1. PICK t : t = s \o two
      OBVIOUS
    <3>2. Len(two) = 2 /\ two[1] = row /\ two[2] = row /\ two \in Seq(Row)
      BY <1>5, <3>0
    <3>3. /\ t \in Seq(Row) /\ Len(t) = Len(s) + Len(two)
          /\ \A k \in 1 .. Len(s) + Len(two) : t[k] = IF k <= Len(s) THEN s[k] ELSE two[k - Len(s)]
      BY <1>8, <3>1, <3>2, ConcatProperties
    <3>4. t # <<>>
      BY <1>8, <3>2, <3>3
    <3>5. ASSUME NEW k \in 1 .. Len(t) PROVE ~t[k].deleted
      <4>1. CASE k <= Len(s)
        BY <1>8, <3>2, <3>3, <4>1
      <4>2. CASE k > Len(s)
        <5>1. k - Len(s) \in {1, 2}
          BY <1>8, <3>2, <3>3, <4>2
        <5>2. t[k] = two[k - Len(s)]
          BY <1>8, <3>2, <3>3, <4>2
        <5>3. two[k - Len(s)] = row
          BY <3>2, <5>1
        <5> QED BY <1>5, <5>2, <5>3
      <4> QED BY <1>8, <4>1, <4>2
    <3> QED BY <1>8, <2>2, <3>0, <3>1, <3>3, <3>4, <3>5
  <2> QED BY <1>4, <2>1, <2>2
<1>10. /\ events' \in [Entities -> Seq(Row)] /\ events'[e] = t
       /\ \A f \in Entities \ {e} : events'[f] = events[f]
  BY <1>6, <1>9 DEF Rows
<1>11. Rows'
  BY <1>1, <1>5, <1>6, <1>7, <1>9, <1>10 DEF Rows
<1>12. Indexed'
  <2>1. \A f \in Entities : index'[f] # NoValue => IsLive(f)'
    BY <1>1, <1>5, <1>6, <1>7 DEF Indexed, IsLive
  <2>2. \A f : events[f] # <<>> => events'[f] # <<>>
    BY <1>6, <1>9 DEF Rows
  <2> QED BY <1>1, <1>6, <2>1, <2>2 DEF Indexed
<1>13. Settled' /\ AtWork' /\ Drawn'
  BY <1>1, <1>6 DEF Settled, InHand, AtWork, Drawn
<1> QED BY <1>11, <1>12, <1>13

LEMMA RelationsKeepRInv ==
  ASSUME RInv, EInv', \E r \in Relations : StageRelationship(r) \/ TakeRelationship(r)
  PROVE  RInv'
<1>1. PICK x \in Relations : StageRelationship(x) \/ TakeRelationship(x)
  OBVIOUS
<1>2. /\ UNCHANGED <<staged, events, index, home, removed, merged, edges, task>>
      /\ trouble \subseteq trouble' /\ rules' \subseteq rules \cup {x}
  BY <1>1 DEF StageRelationship, TakeRelationship, tables, source, history
<1>3. rules' \subseteq Relations
  BY <1>2 DEF RInv
<1> SUFFICES ASSUME Quiet' PROVE (Rows /\ Indexed /\ Settled /\ AtWork /\ Drawn)'
  BY <1>3 DEF RInv
<1>4. Quiet /\ Rows /\ Indexed /\ Settled /\ AtWork /\ Drawn
  BY <1>2 DEF RInv, Quiet
<1>5. (Rows /\ Indexed /\ Settled /\ AtWork)'
  BY <1>2, <1>4 DEF Rows, Indexed, IsLive, Settled, InHand, AtWork
<1>6. CASE StageRelationship(x)
  <2>1. rules' \ relEvents' \subseteq rules \ relEvents /\ UNCHANGED relTask
    BY <1>6 DEF StageRelationship
  <2>2. Drawn'
    BY <1>2, <1>4, <2>1 DEF Drawn
  <2> QED BY <1>5, <2>2
<1>7. CASE TakeRelationship(x)
  <2>1. /\ UNCHANGED rules /\ relEvents' = relEvents \ {x} /\ relTask = Idle
        /\ relTask' = IF MergedEnds(x) = {} THEN Idle ELSE CHOOSE p \in MergedEnds(x) : TRUE
        /\ \A d \in Consumers : task[d] = Idle
    BY <1>7 DEF TakeRelationship, Quiet, Busy
  <2>2. ASSUME home[x[1]] # Nowhere, home[x[2]] # Nowhere PROVE relTask' = Pair(x, home)
    <3>1. x[1] \in Entities /\ x[2] \in Entities
      BY <1>1, ResolutionAssumption
    <3>2. ASSUME NEW e \in Entities, home[e] # Nowhere
          PROVE  Clusters({f \in {e} : IsLive(f)}) = {home[e]}
      <4>1. IsLive(e)
        BY <1>4, <3>2 DEF Indexed
      <4>2. home[e] \in Merged /\ merged[home[e]] = "live"
        BY <1>4, <2>1, <3>2, QuietRest DEF Housed, LiveIn
      <4> QED BY <4>1, <4>2 DEF Clusters
    <3>3. MergedEnds(x) = {home[x[1]]} \X {home[x[2]]}
      BY <2>2, <3>1, <3>2 DEF MergedEnds
    <3>4. \A p \in MergedEnds(x) : p = Pair(x, home)
      BY <3>3 DEF Pair
    <3>5. Pair(x, home) \in MergedEnds(x)
      BY <3>3 DEF Pair
    <3> QED BY <2>1, <3>4, <3>5
  <2>3. ASSUME NEW r \in rules' \ relEvents', home[r[1]] # Nowhere /\ home[r[2]] # Nowhere
        PROVE  Pair(r, home) \in edges \/ relTask' = Pair(r, home)
    BY <1>4, <2>1, <2>2, <2>3, QuietRest
  <2>4. Drawn'
    BY <1>2, <2>3 DEF Drawn
  <2> QED BY <1>5, <2>4
<1> QED BY <1>1, <1>6, <1>7

LEMMA PutRelationshipKeepsRInv ==
  ASSUME RInv, EInv', PutRelationship
  PROVE  RInv'
<1>1. /\ UNCHANGED <<staged, events, index, home, removed, rules, relEvents, task, trouble>>
      /\ relTask # Idle /\ edges' = edges \cup {relTask}
  BY DEF PutRelationship, source, history
<1> SUFFICES ASSUME Quiet' PROVE (Rows /\ Indexed /\ Settled /\ AtWork /\ Drawn)'
  BY <1>1 DEF RInv
<1>2. Quiet /\ Rows /\ Indexed /\ Settled /\ AtWork
  BY <1>1 DEF RInv, Quiet
<1>3. (Rows /\ Indexed /\ Settled /\ AtWork)'
  BY <1>1, <1>2 DEF Rows, Indexed, IsLive, Settled, InHand, AtWork
<1>4. \A d \in Consumers : task[d] = Idle
  BY <1>1, <1>2 DEF RInv, Quiet, EInv, Calm, TakesTurns
<1>5. Drawn'
  BY <1>1, <1>2, <1>4, QuietRest DEF Drawn
<1> QED BY <1>3, <1>5

LEMMA RInvStep ==
  ASSUME RInv, [Next]_vars
  PROVE  RInv'
<1>0. EInv' /\ rules' \subseteq Relations
  BY EInvStep, RulesStep DEF RInv
<1>1. CASE UNCHANGED vars
  <2>1. UNCHANGED <<staged, events, index, home, removed, edges, rules, relEvents, relTask, task, trouble>>
    BY <1>1 DEF vars, tables, source, relationships, history
  <2>2. /\ Quiet' <=> Quiet
        /\ Rows /\ Indexed /\ Settled /\ AtWork /\ Drawn => (Rows /\ Indexed /\ Settled /\ AtWork /\ Drawn)'
    BY <2>1 DEF Quiet, Rows, Indexed, IsLive, Settled, InHand, AtWork, Drawn
  <2> QED BY <1>0, <2>2 DEF RInv
<1>2. CASE \E p \in Feed : Upsert(p[1], p[2])
  BY <1>0, <1>2, UpsertKeepsRInv
<1>3. CASE \E e \in Entities : SoftDeleteStaged(e)
  BY <1>0, <1>3 DEF RInv, SoftDeleteStaged, Quiet
<1>4. CASE \E r \in Relations : StageRelationship(r) \/ TakeRelationship(r)
  BY <1>0, <1>4, RelationsKeepRInv
<1>5. CASE PutRelationship
  BY <1>0, <1>5, PutRelationshipKeepsRInv
<1>6. CASE \E c \in Consumers, e \in Entities : Index(c, e) \/ TakeDeleted(c, e)
  BY <1>0, <1>6, IndexKeepsRInv, TakeDeletedKeepsRInv
<1>7. ASSUME NEW c \in Consumers, Merge(c) PROVE RInv'
  <2>1. CASE FindMatches(c) \/ Load(c) \/ FindClusters(c) \/ FindSingle(c) \/ Create(c)
    BY <1>0, <2>1, FindMatchesKeepsRInv, LoadKeepsRInv, FindClustersKeepsRInv, FindSingleKeepsRInv,
       CreateKeepsRInv
  <2>2. CASE UpdateThenAdd(c) \/ Add(c) \/ Move(c) \/ Rewire(c) \/ Drop(c) \/ Finish(c)
    BY <1>0, <2>2, UpdatesKeepRInv, AddKeepsRInv, MoveKeepsRInv, RewireKeepsRInv, DropKeepsRInv
  <2>3. CASE MergeFails(c)
    BY <1>0, <2>3, TroubledSteps
  <2>4. CASE Relate(c) \/ FindEnd(c) \/ PutEdge(c) \/ Related(c)
    BY <1>0, <2>4, RelateKeepsRInv, FindEndKeepsRInv, PutEdgeKeepsRInv, EndKeepsRInv
  <2> QED BY <1>7, <2>1, <2>2, <2>3, <2>4 DEF Merge
<1>8. ASSUME NEW c \in Consumers, Delete(c) \/ Fault(c) PROVE RInv'
  BY <1>0, <1>8, TroubledSteps
<1> QED BY <1>1, <1>2, <1>3, <1>4, <1>5, <1>6, <1>7, <1>8 DEF Next

\* For any entities, match rules, relationships and instances: once all events are
\* handled one by one and to their end, every live entity has a merged entity, the
\* same as every entity it matches both ways, and every relationship is an edge.
THEOREM EverythingResolved == Spec => []Resolved
<1>1. Init => RInv
  <2>1. Init => EInv /\ rules \subseteq Relations
    <3>1. Init => TakesTurns /\ Attached /\ Detached
      BY DEF Init, TakesTurns, Attached, Detached
    <3> QED BY <3>1, InitLInv DEF EInv
  <2>2. Init => Rows /\ Indexed /\ Settled /\ AtWork /\ Drawn
    <3> SUFFICES ASSUME Init PROVE Rows /\ Indexed /\ Settled /\ AtWork /\ Drawn
      OBVIOUS
    <3>1. Rows
      BY DEF Init, Rows
    <3>2. \A f \in Entities : index[f] = NoValue /\ home[f] = Nowhere
      BY DEF Init
    <3>3. \A f, g \in Entities : g \notin Mates(index, f)
      BY <3>2, ResolutionAssumption DEF Mates, Valid
    <3>4. Indexed /\ Settled /\ AtWork /\ Drawn
      BY <3>2, <3>3 DEF Init, Indexed, Settled, AtWork, Drawn
    <3> QED BY <3>1, <3>4
  <2> QED BY <2>1, <2>2 DEF RInv
<1>2. RInv /\ [Next]_vars => RInv'
  BY RInvStep
<1>3. RInv => Resolved
  <2> SUFFICES ASSUME RInv, AtRest, trouble = {}
               PROVE  /\ \A e \in Entities : IsLive(e) => home[e] # Nowhere
                      /\ \A e, f \in Entities :
                           /\ IsLive(e) /\ IsLive(f)
                           /\ {<<index[e], index[f]>>, <<index[f], index[e]>>} \subseteq Valid
                           => home[e] = home[f]
                      /\ \A r \in rules :
                           IsLive(r[1]) /\ IsLive(r[2]) => <<home[r[1]], home[r[2]]>> \in edges
    BY DEF Resolved
  <2>1. /\ Rows /\ Settled /\ rules \subseteq Relations /\ relTask = Idle
        /\ \A f : ~InHand(f)
        /\ \A r \in rules : home[r[1]] # Nowhere /\ home[r[2]] # Nowhere => Pair(r, home) \in edges
    <3>1. Quiet /\ relTask = Idle /\ \A c \in Consumers : task[c] = Idle
      BY DEF Quiet, AtRest, Busy
    <3> QED BY <3>1, QuietRest DEF RInv, AtRest
  <2>2. \A e \in Entities : IsLive(e) => home[e] # Nowhere
    BY <2>1 DEF Rows, Settled, IsLive, AtRest
  <2>3. ASSUME NEW e \in Entities, NEW f \in Entities,
               {<<index[e], index[f]>>, <<index[f], index[e]>>} \subseteq Valid
        PROVE  home[e] = home[f]
    <3>1. e # f => f \in Mates(index, e)
      BY <2>3 DEF Mates
    <3> QED BY <2>1, <3>1 DEF Settled
  <2>4. ASSUME NEW r \in rules, IsLive(r[1]), IsLive(r[2])
        PROVE  <<home[r[1]], home[r[2]]>> \in edges
    <3>1. r[1] \in Entities /\ r[2] \in Entities
      BY <2>1, ResolutionAssumption
    <3> QED BY <2>1, <2>2, <2>4, <3>1 DEF Pair
  <2> QED BY <2>2, <2>3, <2>4
<1> QED BY <1>1, <1>2, <1>3, PTL DEF Spec

-----------------------------------------------------------------------------
(* Types *)

\* Whoever empties clusters, or takes an entity out of one, has a merged entity.
Sound(j) == j \in Job /\ (j.step \in {"move", "rewire", "drop", "remove"} => j.into # Nowhere)

JobsTyped ==
    /\ task \in [Consumers -> Job \cup {Idle}]
    /\ \A c \in Consumers : task[c] # Idle => Sound(task[c])

EventsTyped == staged \in [Entities -> Row \cup {Absent}] /\ events \in [Entities -> Seq(Row)]

\* The event in hand is not committed, and no other instance has one of its entity.
InTurn ==
    \A c \in Consumers : task[c] # Idle =>
        /\ events[task[c].e] # <<>>
        /\ \A d \in Consumers \ {c} : task[d] # Idle => task[d].e # task[c].e

TablesTyped ==
    /\ index \in [Entities -> Values \cup {NoValue}]
    /\ merged \in [Merged -> {"none", "live", "deleted"}]
    /\ removed \subseteq Merged \X Entities /\ edges \subseteq Merged \X Merged
    /\ relTask \in {Idle} \cup (Merged \X Merged)

HistoryTyped ==
    /\ rules \subseteq Relations /\ relEvents \subseteq rules
    /\ writes \in 0 .. MaxWrites /\ retries \in 0 .. MaxRetries
    /\ linked \subseteq Entities \X Entities
    /\ trouble \subseteq {"overlap", "relRace", "fault", "delete"}

ResolutionTyped == Shape /\ JobsTyped /\ EventsTyped /\ InTurn /\ TablesTyped /\ HistoryTyped

LEMMA InitResolutionTyped == Init => ResolutionTyped
<1> SUFFICES ASSUME Init PROVE ResolutionTyped
  OBVIOUS
<1>1. Shape
  BY InitLInv DEF LInv
<1>2. JobsTyped /\ InTurn
  BY DEF Init, JobsTyped, InTurn
<1>3. EventsTyped
  BY DEF Init, EventsTyped
<1>4. TablesTyped
  BY DEF Init, TablesTyped
<1>5. HistoryTyped
  BY ResolutionAssumption DEF Init, HistoryTyped
<1> QED BY <1>1, <1>2, <1>3, <1>4, <1>5 DEF ResolutionTyped

\* c goes on with its entity.
GoesOnWith(c) ==
    \E j : task' = [task EXCEPT ![c] = j] /\ Sound(j) /\ j.e = task[c].e /\ task[c] # Idle

LEMMA ReadsGoOn ==
  ASSUME JobsTyped, NEW c \in Consumers, FindMatches(c) \/ Load(c) \/ FindClusters(c) \/ FindSingle(c)
  PROVE  GoesOnWith(c)
<1>1. task[c] # Idle
  BY DEF FindMatches, Load, FindClusters, FindSingle, At
<1>2. PICK t \in Job : t = task[c]
  BY <1>1 DEF JobsTyped
<1>3. CASE FindMatches(c)
  <2>1. PICK s \in {"single", "load"}, ids \in SUBSET Entities :
            task' = [task EXCEPT ![c] = [t EXCEPT !.step = s, !.ids = ids]]
    <3>1. t.e \in Entities
      BY DEF Job
    <3>2. \A v, R : Others(t.e, v, R) \subseteq Entities
      BY DEF Others
    <3> DEFINE valid == Others(t.e, index[t.e], Valid)
               found == {t.e} \cup (valid \cup Others(t.e, index[t.e], Blocked))
    <3>3. found \in SUBSET Entities
      BY <3>1, <3>2
    <3>4. task' = [task EXCEPT ![c] = [t EXCEPT !.step = IF valid = {} THEN "single" ELSE "load", !.ids = found]]
      BY <1>2, <1>3 DEF FindMatches, Step
    <3> QED BY <3>3, <3>4
  <2> PICK j : j = [t EXCEPT !.step = s, !.ids = ids]
    OBVIOUS
  <2>2. Sound(j) /\ j.e = t.e
    BY <2>1 DEF Sound, Job, Steps
  <2> QED BY <1>1, <1>2, <2>1, <2>2 DEF GoesOnWith
<1>4. CASE Load(c)
  <2>1. PICK s \in {"single", "find"}, all \in SUBSET Entities :
            task' = [task EXCEPT ![c] = [t EXCEPT !.step = s, !.all = all]]
    <3> DEFINE loaded == {t.e} \cup {f \in t.ids : IsLive(f)}
    <3>1. loaded \in SUBSET Entities
      BY DEF Job
    <3>2. task' = [task EXCEPT ![c] = [t EXCEPT !.step = IF loaded = {t.e} THEN "single" ELSE "find", !.all = loaded]]
      BY <1>2, <1>4 DEF Load, Step
    <3> QED BY <3>1, <3>2
  <2> PICK j : j = [t EXCEPT !.step = s, !.all = all]
    OBVIOUS
  <2>2. Sound(j) /\ j.e = t.e
    BY <2>1 DEF Sound, Job, Steps
  <2> QED BY <1>1, <1>2, <2>1, <2>2 DEF GoesOnWith
<1>5. CASE FindClusters(c)
  <2> DEFINE found == Clusters(t.ids)
             m == Oldest(found)
  <2>0. found \in SUBSET Merged /\ (found # {} => m \in Merged /\ m # Nowhere)
    <3>1. found \in SUBSET Merged
      BY DEF Clusters
    <3>2. found # {} => m \in Merged
      BY <3>1, OldestOf
    <3>3. \A n \in Merged : n # Nowhere
      BY ResolutionAssumption DEF Merged, Nowhere
    <3> QED BY <3>1, <3>2, <3>3
  <2>1. CASE found = {}
    <3>0. Cardinality(found) # 1
      BY <2>1, FS_EmptySet
    <3>1. task' = [task EXCEPT ![c] = [t EXCEPT !.step = "create"]]
      BY <1>2, <1>5, <2>1, <3>0 DEF FindClusters, Step
    <3> PICK j : j = [t EXCEPT !.step = "create"]
      OBVIOUS
    <3>2. Sound(j) /\ j.e = t.e
      BY DEF Sound, Job, Steps
    <3> QED BY <1>1, <1>2, <3>1, <3>2 DEF GoesOnWith
  <2>2. CASE found # {}
    <3> DEFINE job == [t EXCEPT !.into = m, !.from = found \ {m}]
    <3>1. \E s \in {"update", "move"}, h \in {"finish", t.then} :
              task' = [task EXCEPT ![c] = [job EXCEPT !.step = s, !.then = h]]
      <4>1. job.then = t.then /\ [job EXCEPT !.step = "update", !.then = t.then] = [job EXCEPT !.step = "update"]
        BY DEF Job
      <4>2. \/ task' = [task EXCEPT ![c] = [job EXCEPT !.step = "update"]]
            \/ task' = [task EXCEPT ![c] = [job EXCEPT !.step = "move", !.then = "finish"]]
        BY <1>2, <1>5, <2>2 DEF FindClusters, Step
      <4> QED BY <4>1, <4>2
    <3>2. PICK s \in {"update", "move"}, h \in {"finish", t.then} :
              task' = [task EXCEPT ![c] = [job EXCEPT !.step = s, !.then = h]]
      BY <3>1
    <3> PICK j : j = [job EXCEPT !.step = s, !.then = h]
      OBVIOUS
    <3>3. m \in Merged /\ m # Nowhere /\ found \ {m} \in SUBSET Merged
      BY <2>0, <2>2
    <3>4. Sound(j) /\ j.e = t.e
      BY <3>3 DEF Sound, Job, Steps
    <3> QED BY <1>1, <1>2, <3>2, <3>4 DEF GoesOnWith
  <2> QED BY <2>1, <2>2
<1>6. CASE FindSingle(c)
  <2> DEFINE own == Clusters({t.e})
             job == [t EXCEPT !.all = {t.e}]
  <2>0. own # {} => Oldest(own) \in Merged
    <3>1. own \in SUBSET Merged
      BY DEF Clusters
    <3> QED BY <3>1, OldestOf
  <2>1. CASE own = {}
    <3>1. task' = [task EXCEPT ![c] = [job EXCEPT !.step = "create"]]
      BY <1>2, <1>6, <2>1 DEF FindSingle, Step
    <3> PICK j : j = [job EXCEPT !.step = "create"]
      OBVIOUS
    <3>2. Sound(j) /\ j.e = t.e
      BY DEF Sound, Job, Steps
    <3> QED BY <1>1, <1>2, <3>1, <3>2 DEF GoesOnWith
  <2>2. CASE own # {}
    <3>1. task' = [task EXCEPT ![c] = [job EXCEPT !.step = "finish", !.into = Oldest(own)]]
      BY <1>2, <1>6, <2>2 DEF FindSingle, Step
    <3> PICK m \in Merged : m = Oldest(own)
      BY <2>0, <2>2
    <3> PICK j : j = [job EXCEPT !.step = "finish", !.into = m]
      OBVIOUS
    <3>2. Sound(j) /\ j.e = t.e
      BY DEF Sound, Job, Steps
    <3> QED BY <1>1, <1>2, <3>1, <3>2 DEF GoesOnWith
  <2> QED BY <2>1, <2>2
<1> QED BY <1>3, <1>4, <1>5, <1>6

\* A handler that only moves to its next statement.
LEMMA MovesOn ==
  ASSUME JobsTyped, NEW c \in Consumers, task[c] # Idle, NEW s \in Steps, Goto(c, s),
         s \in {"move", "rewire", "drop", "remove"} => task[c].into # Nowhere
  PROVE  GoesOnWith(c)
<1>1. PICK t \in Job : t = task[c]
  BY DEF JobsTyped
<1> PICK j : j = [t EXCEPT !.step = s]
  OBVIOUS
<1>2. Sound(j) /\ j.e = t.e
  BY <1>1 DEF Sound, Job
<1> QED BY <1>1, <1>2 DEF Goto, GoesOnWith

LEMMA WritesGoOn ==
  ASSUME Shape, JobsTyped, NEW c \in Consumers,
         \/ Create(c) \/ UpdateThenAdd(c) \/ Add(c) \/ Move(c) \/ Rewire(c) \/ Drop(c) \/ Finish(c) \/ Remove(c)
  PROVE  GoesOnWith(c)
<1>1. task[c] # Idle
  BY DEF Create, UpdateThenAdd, Add, Move, Rewire, Drop, Finish, Remove, At
<1>2. PICK t \in Job : t = task[c] /\ Sound(t)
  BY <1>1 DEF JobsTyped
<1>3. CASE Create(c)
  <2>1. PICK m \in Merged : task' = [task EXCEPT ![c] = [t EXCEPT !.step = "add", !.into = m]]
    BY <1>2, <1>3 DEF Create, Step
  <2> PICK j : j = [t EXCEPT !.step = "add", !.into = m]
    OBVIOUS
  <2>2. Sound(j) /\ j.e = t.e
    BY DEF Sound, Job, Steps
  <2> QED BY <1>1, <1>2, <2>1, <2>2 DEF GoesOnWith
<1>4. CASE UpdateThenAdd(c) \/ Finish(c) \/ Remove(c)
  <2>1. \E s \in {"add", "relate", "members"} : Goto(c, s)
    BY <1>4 DEF UpdateThenAdd, Finish, Remove
  <2> QED BY <1>1, <2>1, MovesOn DEF Steps
<1>5. CASE Move(c) \/ Rewire(c)
  <2>1. \E s \in {"rewire", "drop"} : Goto(c, s)
    BY <1>5 DEF Move, Rewire
  <2>2. task[c].into # Nowhere
    BY <1>2, <1>5 DEF Move, Rewire, At, Sound
  <2> QED BY <1>1, <2>1, <2>2, MovesOn DEF Steps
<1>6. CASE Add(c)
  <2>1. PICK f \in t.all, s \in {t.then, "add"} :
            task' = [task EXCEPT ![c] = [t EXCEPT !.all = @ \ {f}, !.step = s]]
    BY <1>2, <1>6 DEF Add, Step
  <2> PICK j : j = [t EXCEPT !.all = @ \ {f}, !.step = s]
    OBVIOUS
  <2>2. Sound(j) /\ j.e = t.e
    BY <2>1 DEF Sound, Job, Steps
  <2> QED BY <1>1, <1>2, <2>1, <2>2 DEF GoesOnWith
<1>7. CASE Drop(c)
  <2> PICK m : m = Oldest(t.from)
    OBVIOUS
  <2>1. PICK s \in {"add", "move"} : task' = [task EXCEPT ![c] = [t EXCEPT !.from = @ \ {m}, !.step = s]]
    BY <1>2, <1>7 DEF Drop, Step
  <2> PICK j : j = [t EXCEPT !.from = @ \ {m}, !.step = s]
    OBVIOUS
  <2>2. t.into # Nowhere
    BY <1>2, <1>7 DEF Drop, At, Sound
  <2>3. Sound(j) /\ j.e = t.e
    BY <2>1, <2>2 DEF Sound, Job, Steps
  <2> QED BY <1>1, <1>2, <2>1, <2>3 DEF GoesOnWith
<1> QED BY <1>3, <1>4, <1>5, <1>6, <1>7

\* An edge is written only between two merged entities.
LEMMA EdgesGoOn ==
  ASSUME Shape, JobsTyped, HistoryTyped, NEW c \in Consumers, Relating(c)
  PROVE  GoesOnWith(c)
<1>1. task[c] # Idle
  BY DEF Relating, FindEnd, PutEdge, Relate, At
<1>2. PICK t \in Job : t = task[c]
  BY <1>1 DEF JobsTyped
<1>3. CASE FindEnd(c)
  <2>1. PICK r \in t.todo : \E pair :
            /\ task' = [task EXCEPT ![c] = [t EXCEPT !.todo = @ \ {r}, !.pair = EdgeOf(pair)]]
            /\ pair = IF r[1] = t.e THEN <<t.into, EndOf(r[2])>> ELSE <<EndOf(r[1]), t.into>>
    BY <1>2, <1>3 DEF FindEnd, Step
  <2>2. PICK pair :
            /\ task' = [task EXCEPT ![c] = [t EXCEPT !.todo = @ \ {r}, !.pair = EdgeOf(pair)]]
            /\ pair = IF r[1] = t.e THEN <<t.into, EndOf(r[2])>> ELSE <<EndOf(r[1]), t.into>>
    BY <2>1
  <2>3. r[1] \in Entities /\ r[2] \in Entities
    BY <2>1, ResolutionAssumption DEF Job
  <2>4. pair \in (Merged \cup {Nowhere}) \X (Merged \cup {Nowhere})
    <3>1. EndOf(r[1]) \in Merged \cup {Nowhere} /\ EndOf(r[2]) \in Merged \cup {Nowhere}
      BY <2>3 DEF EndOf, Shape
    <3>2. t.into \in Merged \cup {Nowhere}
      BY DEF Job
    <3> QED BY <2>2, <3>1, <3>2
  <2>5. EdgeOf(pair) \in {<<>>} \cup (Merged \X Merged)
    BY <2>4 DEF EdgeOf
  <2> PICK p, j : p = EdgeOf(pair) /\ j = [t EXCEPT !.todo = @ \ {r}, !.pair = p]
    OBVIOUS
  <2>6. t.step = "edge"
    BY <1>2, <1>3 DEF FindEnd, At
  <2>7. Sound(j) /\ j.e = t.e
    BY <2>5, <2>6 DEF Sound, Job
  <2> QED BY <1>1, <1>2, <2>2, <2>7 DEF GoesOnWith
<1>4. CASE PutEdge(c)
  <2> PICK j : j = [t EXCEPT !.pair = <<>>]
    OBVIOUS
  <2>1. task' = [task EXCEPT ![c] = j] /\ t.step = "edge"
    BY <1>2, <1>4 DEF PutEdge, Step, At
  <2>2. Sound(j) /\ j.e = t.e
    BY <2>1 DEF Sound, Job
  <2> QED BY <1>1, <1>2, <2>1, <2>2 DEF GoesOnWith
<1>5. CASE Relate(c) /\ Waiting(t.e) # {}
  <2> PICK w, j : w = Waiting(t.e) /\ j = [t EXCEPT !.step = "edge", !.todo = w]
    OBVIOUS
  <2>0. w \in SUBSET Relations
    BY DEF Waiting, HistoryTyped
  <2>1. task' = [task EXCEPT ![c] = j]
    BY <1>2, <1>5 DEF Relate, Step
  <2>2. Sound(j) /\ j.e = t.e
    BY <2>0 DEF Sound, Job, Steps
  <2> QED BY <1>1, <1>2, <2>1, <2>2 DEF GoesOnWith
<1> QED BY <1>2, <1>3, <1>4, <1>5 DEF Relating

\* The next handler statement of c, or its end.
Working(c) == Merge(c) \/ Delete(c) \/ Fault(c)

LEMMA WorkingFacts ==
  ASSUME Shape, JobsTyped, HistoryTyped, NEW c \in Consumers, Working(c)
  PROVE  \/ GoesOnWith(c) /\ UNCHANGED <<events, retries>>
         \/ Stops(c)
<1>1. CASE FindMatches(c) \/ Load(c) \/ FindClusters(c) \/ FindSingle(c)
  <2>1. UNCHANGED <<events, retries>>
    BY <1>1 DEF FindMatches, Load, FindClusters, FindSingle
  <2> QED BY <1>1, <2>1, ReadsGoOn
<1>2. CASE \/ Create(c) \/ UpdateThenAdd(c) \/ Add(c) \/ Move(c) \/ Rewire(c) \/ Drop(c) \/ Finish(c) \/ Remove(c)
  <2>1. UNCHANGED <<events, retries>>
    BY <1>2 DEF Create, UpdateThenAdd, Add, Move, Rewire, Drop, Finish, Remove
  <2> QED BY <1>2, <2>1, WritesGoOn
<1>3. CASE Relating(c)
  <2>1. UNCHANGED <<events, retries>>
    BY <1>3 DEF Relating, FindEnd, PutEdge, Relate
  <2> QED BY <1>3, <2>1, EdgesGoOn
<1>4. CASE CheckMembers(c) /\ Members(task[c].into) = {}
  <2>1. task[c] # Idle /\ Goto(c, "bury") /\ UNCHANGED <<events, retries>>
    BY <1>4 DEF CheckMembers, At
  <2> QED BY <2>1, MovesOn DEF Steps
<1>5. CASE Bury(c) /\ merged[task[c].into] = "live"
  <2>1. task[c] # Idle /\ Goto(c, "cascade") /\ UNCHANGED <<events, retries>>
    BY <1>5 DEF Bury, At
  <2> QED BY <2>1, MovesOn DEF Steps
<1>6. \/ FindMatches(c) \/ Load(c) \/ FindClusters(c) \/ FindSingle(c)
      \/ Create(c) \/ UpdateThenAdd(c) \/ Add(c) \/ Move(c) \/ Rewire(c) \/ Drop(c) \/ Finish(c) \/ Remove(c)
      \/ Relating(c) \/ Stops(c)
      \/ CheckMembers(c) /\ Members(task[c].into) = {}
      \/ Bury(c) /\ merged[task[c].into] = "live"
  BY DEF Working, Merge, Delete, Stops, Relating
<1> QED BY <1>1, <1>2, <1>3, <1>4, <1>5, <1>6

\* A handler that ends leaves its event in the log or takes it off.
LEMMA StopsCommit ==
  ASSUME HistoryTyped, NEW c \in Consumers, Stops(c)
  PROVE  /\ task[c] # Idle /\ task' = [task EXCEPT ![c] = Idle]
         /\ UNCHANGED events \/ events' = [events EXCEPT ![task[c].e] = Tail(@)]
         /\ retries' \in 0 .. MaxRetries
<1>1. Commit(task[c].e) \/ Fault(c)
  BY DEF Stops, MergeFails, Fails, Related, Cascade, Relate, CheckMembers, Bury, Done
<1>2. UNCHANGED events \/ events' = [events EXCEPT ![task[c].e] = Tail(@)]
  BY <1>1 DEF Commit, Fault
<1>3. retries' \in 0 .. MaxRetries
  BY <1>1, ResolutionAssumption DEF Commit, Fault, HistoryTyped
<1> QED BY <1>2, <1>3, StopsFacts

\* The events a consumer may add to or take from an entity's log.
LEMMA LogStays ==
  ASSUME EventsTyped, NEW e \in Entities, events[e] # <<>>, UNCHANGED staged,
         UNCHANGED events \/ events' = [events EXCEPT ![e] = Tail(@)]
  PROVE  EventsTyped' /\ \A f \in Entities \ {e} : events'[f] = events[f]
<1>1. CASE UNCHANGED events
  BY <1>1 DEF EventsTyped
<1>2. CASE events' = [events EXCEPT ![e] = Tail(@)]
  <2>1. Tail(events[e]) \in Seq(Row)
    <3>1. PICK s \in Seq(Row) : s = events[e]
      BY DEF EventsTyped
    <3> QED BY <3>1
  <2> QED BY <1>2, <2>1 DEF EventsTyped
<1> QED BY <1>1, <1>2

LEMMA JobsStep ==
  ASSUME Shape, JobsTyped, EventsTyped, InTurn, HistoryTyped, NEW c \in Consumers, Working(c)
  PROVE  JobsTyped' /\ InTurn' /\ EventsTyped' /\ retries' \in 0 .. MaxRetries
<1>0. UNCHANGED staged
  BY DEF Working, Merge, Delete, FindMatches, Load, FindClusters, FindSingle, Create, UpdateThenAdd, Add, Move, Rewire,
         Drop, Finish, MergeFails, Fails, Relate, FindEnd, PutEdge, Related, Remove, CheckMembers, Bury, Cascade,
         Fault, source
<1>1. CASE GoesOnWith(c) /\ UNCHANGED <<events, retries>>
  <2>1. PICK j : task' = [task EXCEPT ![c] = j] /\ Sound(j) /\ j.e = task[c].e /\ task[c] # Idle
    BY <1>1 DEF GoesOnWith
  <2>2. JobsTyped'
    BY <2>1 DEF JobsTyped, Sound
  <2>3. InTurn'
    BY <1>1, <2>1 DEF JobsTyped, InTurn
  <2> QED BY <1>0, <1>1, <2>2, <2>3 DEF EventsTyped, HistoryTyped
<1>2. CASE Stops(c)
  <2>1. /\ task[c] # Idle /\ task' = [task EXCEPT ![c] = Idle]
        /\ UNCHANGED events \/ events' = [events EXCEPT ![task[c].e] = Tail(@)]
        /\ retries' \in 0 .. MaxRetries
    BY <1>2, StopsCommit
  <2>2. JobsTyped'
    BY <2>1 DEF JobsTyped
  <2>3. task[c].e \in Entities /\ events[task[c].e] # <<>>
    BY <2>1 DEF JobsTyped, InTurn, Sound, Job
  <2>4. EventsTyped' /\ \A f \in Entities \ {task[c].e} : events'[f] = events[f]
    BY <1>0, <2>1, <2>3, LogStays
  <2>5. ASSUME NEW d \in Consumers, task'[d] # Idle
        PROVE  /\ events'[task'[d].e] # <<>>
               /\ \A b \in Consumers \ {d} : task'[b] # Idle => task'[b].e # task'[d].e
    <3>1. d # c /\ task'[d] = task[d]
      BY <2>1, <2>5 DEF JobsTyped
    <3>2. task[d].e \in Entities \ {task[c].e} /\ events[task[d].e] # <<>>
      BY <2>1, <2>5, <3>1 DEF JobsTyped, InTurn, Sound, Job
    <3>3. \A b \in Consumers : task'[b] # Idle => task'[b] = task[b]
      BY <2>1 DEF JobsTyped
    <3> QED BY <2>4, <2>5, <3>1, <3>2, <3>3 DEF InTurn
  <2> QED BY <2>1, <2>2, <2>4, <2>5 DEF InTurn
<1> QED BY <1>1, <1>2, WorkingFacts

\* An instance that takes an event has one of an entity nobody else has in hand.
LEMMA TakeTyped ==
  ASSUME Shape, JobsTyped, EventsTyped, InTurn, HistoryTyped,
         NEW c \in Consumers, NEW e \in Entities, Index(c, e) \/ TakeDeleted(c, e)
  PROVE  JobsTyped' /\ InTurn' /\ EventsTyped' /\ retries' \in 0 .. MaxRetries
<1>1. CanTake(c, e) /\ UNCHANGED staged
  BY DEF Index, TakeDeleted, source
<1>2. CASE UNCHANGED <<events, retries>> /\ \E j : task' = [task EXCEPT ![c] = j] /\ Sound(j) /\ j.e = e
  <2>1. PICK j : task' = [task EXCEPT ![c] = j] /\ Sound(j) /\ j.e = e
    BY <1>2
  <2>2. JobsTyped'
    BY <2>1 DEF JobsTyped, Sound
  <2>3. InTurn'
    BY <1>1, <1>2, <2>1 DEF JobsTyped, InTurn, CanTake, Busy
  <2> QED BY <1>1, <1>2, <2>2, <2>3 DEF EventsTyped, HistoryTyped
<1>3. CASE Commit(e) /\ UNCHANGED task
  <2>1. events[e] # <<>> /\ (UNCHANGED events \/ events' = [events EXCEPT ![e] = Tail(@)])
    BY <1>1, <1>3 DEF CanTake, Commit
  <2>2. EventsTyped' /\ \A f \in Entities \ {e} : events'[f] = events[f]
    BY <1>1, <2>1, LogStays
  <2>3. \A d \in Consumers : task[d] # Idle => task[d].e \in Entities \ {e}
    BY <1>1 DEF CanTake, Busy, JobsTyped, Sound, Job
  <2>4. InTurn'
    BY <1>3, <2>2, <2>3 DEF InTurn
  <2>5. retries' \in 0 .. MaxRetries
    BY <1>3, ResolutionAssumption DEF Commit, HistoryTyped
  <2> QED BY <1>3, <2>2, <2>4, <2>5 DEF JobsTyped
<1>4. CASE Index(c, e)
  <2>1. PICK j : j = NewJob("match", e) /\ task' = [task EXCEPT ![c] = j]
    BY <1>4 DEF Index, Step
  <2>2. Sound(j) /\ j.e = e
    BY <2>1 DEF NewJob, Sound, Job, Steps
  <2> QED BY <1>2, <1>4, <2>1, <2>2 DEF Index
<1>5. CASE TakeDeleted(c, e) /\ Clusters({e}) # {}
  <2>1. Clusters({e}) \in SUBSET Merged
    BY DEF Clusters
  <2>2. PICK n \in Merged : n = Oldest(Clusters({e}))
    BY <1>5, <2>1, OldestOf
  <2>3. PICK j : j = [NewJob("remove", e) EXCEPT !.into = n] /\ task' = [task EXCEPT ![c] = j]
    BY <1>5, <2>2 DEF TakeDeleted, Step
  <2>4. n # Nowhere
    BY ResolutionAssumption DEF Merged, Nowhere
  <2>5. Sound(j) /\ j.e = e
    BY <2>3, <2>4 DEF NewJob, Sound, Job, Steps
  <2>6. UNCHANGED <<events, retries>>
    BY <1>5 DEF TakeDeleted
  <2> QED BY <1>2, <2>3, <2>5, <2>6
<1>6. CASE TakeDeleted(c, e) /\ Clusters({e}) = {}
  BY <1>3, <1>6 DEF TakeDeleted
<1> QED BY <1>4, <1>5, <1>6

\* What the integrations and the relationship consumer do.
Outside ==
    \/ \E p \in Feed : Upsert(p[1], p[2])
    \/ \E e \in Entities : SoftDeleteStaged(e)
    \/ \E r \in Relations : StageRelationship(r) \/ TakeRelationship(r)
    \/ PutRelationship

LEMMA OutsideTyped ==
  ASSUME Shape, JobsTyped, EventsTyped, InTurn, HistoryTyped, Outside
  PROVE  JobsTyped' /\ InTurn' /\ EventsTyped' /\ retries' \in 0 .. MaxRetries
<1>1. UNCHANGED <<task, retries>>
  BY DEF Outside, Upsert, SoftDeleteStaged, StageRelationship, TakeRelationship, PutRelationship
<1>2. EventsTyped' /\ \A e \in Entities : events[e] # <<>> => events'[e] # <<>>
  <2>1. ASSUME NEW e \in Entities, NEW row \in Row, staged' = [staged EXCEPT ![e] = row],
               events' = [events EXCEPT ![e] = Append(@, row)] \/ events' = [events EXCEPT ![e] = @ \o <<row, row>>]
        PROVE  EventsTyped' /\ \A f \in Entities : events[f] # <<>> => events'[f] # <<>>
    <3>1. PICK s \in Seq(Row) : s = events[e]
      BY DEF EventsTyped
    <3>2. Append(s, row) \in Seq(Row) /\ Append(s, row) # <<>>
      BY <3>1
    <3>3. s \o <<row, row>> \in Seq(Row) /\ s \o <<row, row>> # <<>>
      BY <3>1
    <3> QED BY <2>1, <3>1, <3>2, <3>3 DEF EventsTyped
  <2>2. ASSUME NEW p \in Feed, Upsert(p[1], p[2])
        PROVE  EventsTyped' /\ \A e \in Entities : events[e] # <<>> => events'[e] # <<>>
    <3>1. p[1] \in Entities /\ p[2] \in Values
      BY ResolutionAssumption
    <3>2. PICK row \in Row : row = [data |-> p[2], deleted |-> FALSE]
      BY <3>1 DEF Row
    <3>3. /\ staged' = [staged EXCEPT ![p[1]] = row]
          /\ \/ events' = [events EXCEPT ![p[1]] = Append(@, row)]
             \/ events' = [events EXCEPT ![p[1]] = @ \o <<row, row>>]
      BY <2>2, <3>2 DEF Upsert
    <3> QED BY <2>1, <3>1, <3>3
  <2>3. ASSUME NEW e \in Entities, SoftDeleteStaged(e)
        PROVE  EventsTyped' /\ \A f \in Entities : events[f] # <<>> => events'[f] # <<>>
    <3>1. staged[e] \in Row
      BY <2>3 DEF SoftDeleteStaged, IsLive, EventsTyped
    <3>2. PICK row \in Row : row = [staged[e] EXCEPT !.deleted = TRUE]
      BY <3>1 DEF Row
    <3>3. staged' = [staged EXCEPT ![e] = row] /\ staged'[e] = row
      BY <2>3, <3>2 DEF SoftDeleteStaged, EventsTyped
    <3>4. events' = [events EXCEPT ![e] = Append(@, row)]
      BY <2>3, <3>3 DEF SoftDeleteStaged
    <3> QED BY <2>1, <3>3, <3>4
  <2>4. ASSUME (\E r \in Relations : StageRelationship(r) \/ TakeRelationship(r)) \/ PutRelationship
        PROVE  UNCHANGED <<staged, events>>
    BY <2>4 DEF StageRelationship, TakeRelationship, PutRelationship, source
  <2> QED BY <2>2, <2>3, <2>4 DEF Outside, EventsTyped
<1>3. JobsTyped'
  BY <1>1 DEF JobsTyped
<1>4. InTurn'
  BY <1>1, <1>2 DEF InTurn, JobsTyped, Sound, Job
<1> QED BY <1>1, <1>2, <1>3, <1>4 DEF HistoryTyped

-----------------------------------------------------------------------------
(* Types: the tables *)

\* The tables but the edges and the clusters.
LEMMA RowsStep ==
  ASSUME EventsTyped, TablesTyped, [Next]_vars
  PROVE  /\ index' \in [Entities -> Values \cup {NoValue}]
         /\ merged' \in [Merged -> {"none", "live", "deleted"}]
<1>1. ASSUME NEW c \in Consumers, NEW e \in Entities, Index(c, e)
      PROVE  index' \in [Entities -> Values \cup {NoValue}] /\ UNCHANGED merged
  <2>1. Head(events[e]) \in Row
    <3>1. PICK s \in Seq(Row) : s = events[e] /\ s # <<>>
      BY <1>1 DEF EventsTyped, Index, CanTake
    <3> QED BY <3>1
  <2>2. PICK v \in Values : index' = [index EXCEPT ![e] = v]
    BY <1>1, <2>1 DEF Index, Row
  <2> QED BY <1>1, <2>2 DEF TablesTyped, Index
<1>2. ASSUME NEW c \in Consumers, Create(c) \/ Drop(c) \/ Bury(c)
      PROVE  merged' \in [Merged -> {"none", "live", "deleted"}] /\ UNCHANGED index
  BY <1>2 DEF TablesTyped, Create, Drop, Bury, SoftDelete
<1>3. ASSUME NEW c \in Consumers,
             \/ FindMatches(c) \/ Load(c) \/ FindClusters(c) \/ FindSingle(c) \/ UpdateThenAdd(c)
             \/ Add(c) \/ Move(c) \/ Rewire(c) \/ Finish(c)
             \/ MergeFails(c) \/ Relate(c) \/ FindEnd(c) \/ PutEdge(c) \/ Related(c)
             \/ Remove(c) \/ CheckMembers(c) \/ Cascade(c) \/ Fault(c)
      PROVE  UNCHANGED <<index, merged>>
  BY <1>3 DEF FindMatches, Load, FindClusters, FindSingle, UpdateThenAdd, Add, Move, Rewire, Finish,
              MergeFails, Fails, Relate, FindEnd, PutEdge, Related, Remove, CheckMembers, Cascade, Fault, tables
<1>4. ASSUME Outside \/ (\E c \in Consumers, e \in Entities : TakeDeleted(c, e)) \/ UNCHANGED vars
      PROVE  UNCHANGED <<index, merged>>
  BY <1>4 DEF Outside, Upsert, SoftDeleteStaged, StageRelationship, TakeRelationship, PutRelationship, TakeDeleted,
              tables, vars
<1> QED BY <1>1, <1>2, <1>3, <1>4 DEF TablesTyped, Next, Outside, Merge, Delete

\* A removed row of a cluster is one of a merged entity: RemoveFromCluster is called with one.
LEMMA RemovedStep ==
  ASSUME JobsTyped, TablesTyped, [Next]_vars
  PROVE  removed' \subseteq Merged \X Entities
<1>1. ASSUME NEW c \in Consumers, Add(c) PROVE removed' \subseteq removed
  BY <1>1 DEF Add, AddToCluster
<1>2. ASSUME NEW c \in Consumers, Remove(c) PROVE removed' \subseteq Merged \X Entities
  <2>1. task[c].into \in Merged /\ task[c].e \in Entities
    BY <1>2 DEF JobsTyped, Sound, Job, Remove, At
  <2>2. removed' \subseteq removed \cup {<<task[c].into, task[c].e>>}
    BY <1>2 DEF Remove, RemoveFromCluster
  <2> QED BY <2>1, <2>2 DEF TablesTyped
<1>3. ASSUME NEW c \in Consumers,
             \/ FindMatches(c) \/ Load(c) \/ FindClusters(c) \/ FindSingle(c) \/ Create(c) \/ UpdateThenAdd(c)
             \/ Move(c) \/ Rewire(c) \/ Drop(c) \/ Finish(c)
             \/ MergeFails(c) \/ Relate(c) \/ FindEnd(c) \/ PutEdge(c) \/ Related(c)
             \/ CheckMembers(c) \/ Bury(c) \/ Cascade(c) \/ Fault(c)
      PROVE  UNCHANGED removed
  BY <1>3 DEF FindMatches, Load, FindClusters, FindSingle, Create, UpdateThenAdd, Move, Rewire, Drop, Finish,
              MergeFails, Fails, Relate, FindEnd, PutEdge, Related, CheckMembers, Bury, Cascade, Fault, tables
<1>4. ASSUME \/ Outside \/ UNCHANGED vars
             \/ \E c \in Consumers, e \in Entities : Index(c, e) \/ TakeDeleted(c, e)
      PROVE  UNCHANGED removed
  BY <1>4 DEF Outside, Upsert, SoftDeleteStaged, StageRelationship, TakeRelationship, PutRelationship, Index,
              TakeDeleted, tables, vars
<1> QED BY <1>1, <1>2, <1>3, <1>4 DEF TablesTyped, Next, Outside, Merge, Delete

\* Both ends of an edge are merged entities, wherever a consolidation moves it.
LEMMA EdgesStep ==
  ASSUME JobsTyped, TablesTyped, [Next]_vars
  PROVE  edges' \subseteq Merged \X Merged
<1>1. ASSUME NEW c \in Consumers, Rewire(c) PROVE edges' \subseteq Merged \X Merged
  <2>1. PICK m, n : m = Oldest(task[c].from) /\ n = task[c].into
    OBVIOUS
  <2>2. n \in Merged
    BY <1>1, <2>1 DEF JobsTyped, Sound, Job, Rewire, At
  <2> DEFINE swap(x) == IF x = m THEN n ELSE x
  <2>3. edges' = {<<swap(p[1]), swap(p[2])>> : p \in edges}
    BY <1>1, <2>1 DEF Rewire, RewireMergedEntity
  <2>4. \A p \in edges : p[1] \in Merged /\ p[2] \in Merged
    BY DEF TablesTyped
  <2> QED BY <2>2, <2>3, <2>4
<1>2. ASSUME NEW c \in Consumers, PutEdge(c) PROVE edges' \subseteq Merged \X Merged
  <2>1. task[c].pair \in Merged \X Merged
    BY <1>2 DEF JobsTyped, Sound, Job, PutEdge, At
  <2> QED BY <1>2, <2>1 DEF TablesTyped, PutEdge
<1>3. ASSUME NEW c \in Consumers, Cascade(c) PROVE edges' \subseteq edges
  BY <1>3 DEF Cascade, SoftDeleteByMergedEntityID
<1>4. CASE PutRelationship
  BY <1>4 DEF PutRelationship, TablesTyped
<1>5. ASSUME NEW c \in Consumers,
             \/ FindMatches(c) \/ Load(c) \/ FindClusters(c) \/ FindSingle(c) \/ Create(c) \/ UpdateThenAdd(c)
             \/ Add(c) \/ Move(c) \/ Drop(c) \/ Finish(c) \/ MergeFails(c) \/ Relate(c) \/ FindEnd(c) \/ Related(c)
             \/ Remove(c) \/ CheckMembers(c) \/ Bury(c) \/ Fault(c)
      PROVE  UNCHANGED edges
  BY <1>5 DEF FindMatches, Load, FindClusters, FindSingle, Create, UpdateThenAdd, Add, Move, Drop, Finish,
              MergeFails, Fails, Relate, FindEnd, Related, Remove, CheckMembers, Bury, Fault, tables
<1>6. ASSUME \/ \E p \in Feed : Upsert(p[1], p[2])
             \/ \E e \in Entities : SoftDeleteStaged(e)
             \/ \E r \in Relations : StageRelationship(r) \/ TakeRelationship(r)
             \/ \E c \in Consumers, e \in Entities : Index(c, e) \/ TakeDeleted(c, e)
             \/ UNCHANGED vars
      PROVE  UNCHANGED edges
  BY <1>6 DEF Upsert, SoftDeleteStaged, StageRelationship, TakeRelationship, Index, TakeDeleted, tables, vars
<1> QED BY <1>1, <1>2, <1>3, <1>4, <1>5, <1>6 DEF TablesTyped, Next, Merge, Delete

\* What only the relationship consumer and the integrations write.
LEMMA RelationshipsStep ==
  ASSUME TablesTyped, HistoryTyped, [Next]_vars
  PROVE  /\ relTask' \in {Idle} \cup (Merged \X Merged)
         /\ relEvents' \subseteq rules' /\ writes' \in 0 .. MaxWrites
<1>1. ASSUME NEW r \in Relations, TakeRelationship(r)
      PROVE  relTask' \in {Idle} \cup (Merged \X Merged) /\ relEvents' \subseteq rules' /\ UNCHANGED writes
  <2>1. MergedEnds(r) \subseteq Merged \X Merged
    BY DEF MergedEnds, Clusters
  <2>2. MergedEnds(r) # {} => (CHOOSE p \in MergedEnds(r) : TRUE) \in MergedEnds(r)
    OBVIOUS
  <2> QED BY <1>1, <2>1, <2>2 DEF TakeRelationship, HistoryTyped, source
<1>2. ASSUME NEW r \in Relations, StageRelationship(r)
      PROVE  relEvents' \subseteq rules' /\ UNCHANGED <<relTask, writes>>
  BY <1>2 DEF StageRelationship, HistoryTyped, source
<1>3. CASE PutRelationship
  BY <1>3 DEF PutRelationship, HistoryTyped, source
<1>4. ASSUME \/ \E p \in Feed : Upsert(p[1], p[2])
             \/ \E e \in Entities : SoftDeleteStaged(e)
      PROVE  writes' \in 0 .. MaxWrites /\ UNCHANGED relationships
  <2>1. writes < MaxWrites /\ writes' = writes + 1 /\ UNCHANGED relationships
    BY <1>4 DEF Upsert, SoftDeleteStaged
  <2> QED BY <2>1, ResolutionAssumption DEF HistoryTyped
<1>5. ASSUME NEW c \in Consumers, Working(c) PROVE UNCHANGED <<relationships, writes>>
  BY <1>5 DEF Working, Merge, Delete, FindMatches, Load, FindClusters, FindSingle, Create, UpdateThenAdd, Add, Move,
              Rewire, Drop, Finish, MergeFails, Fails, Relate, FindEnd, PutEdge, Related, Remove, CheckMembers, Bury,
              Cascade, Fault, source
<1>6. ASSUME (\E c \in Consumers, e \in Entities : Index(c, e) \/ TakeDeleted(c, e)) \/ UNCHANGED vars
      PROVE  UNCHANGED <<relationships, writes>>
  BY <1>6 DEF Index, TakeDeleted, source, vars
<1> QED BY <1>1, <1>2, <1>3, <1>4, <1>5, <1>6 DEF TablesTyped, HistoryTyped, Next, Working, relationships

LEMMA HistoryStep ==
  ASSUME HistoryTyped, [Next]_vars
  PROVE  linked' \subseteq Entities \X Entities /\ trouble' \subseteq {"overlap", "relRace", "fault", "delete"}
<1>0. Overlaps \subseteq {"overlap", "relRace"}
  BY DEF Overlaps
<1>1. ASSUME NEW c \in Consumers, NEW e \in Entities, Index(c, e) \/ TakeDeleted(c, e)
      PROVE  linked' \subseteq Entities \X Entities /\ trouble' \subseteq trouble \cup Overlaps
  <2>1. CASE Index(c, e)
    <3>1. PICK v : linked' = linked \cup {<<e, f>> : f \in Others(e, v, Valid)}
                                   \cup {<<f, e>> : f \in {g \in Entities \ {e} : <<index[g], v>> \in Valid}}
      BY <2>1 DEF Index
    <3> DEFINE F == Others(e, v, Valid)
               G == {g \in Entities \ {e} : <<index[g], v>> \in Valid}
    <3>2. F \subseteq Entities /\ G \subseteq Entities
      BY DEF Others
    <3>3. linked' = linked \cup {<<e, f>> : f \in F} \cup {<<f, e>> : f \in G}
      BY <3>1
    <3> HIDE DEF F, G
    <3>4. {<<e, f>> : f \in F} \subseteq Entities \X Entities /\ {<<f, e>> : f \in G} \subseteq Entities \X Entities
      BY <3>2
    <3>5. linked' \subseteq Entities \X Entities
      BY <3>3, <3>4 DEF HistoryTyped
    <3> QED BY <2>1, <3>5 DEF Index
  <2>2. CASE TakeDeleted(c, e)
    BY <2>2 DEF TakeDeleted, HistoryTyped
  <2> QED BY <1>1, <2>1, <2>2
<1>2. ASSUME NEW c \in Consumers, Working(c)
      PROVE  UNCHANGED linked /\ trouble' \subseteq trouble \cup {"fault"}
  BY <1>2 DEF Working, Merge, Delete, FindMatches, Load, FindClusters, FindSingle, Create, UpdateThenAdd, Add, Move,
              Rewire, Drop, Finish, MergeFails, Fails, Relate, FindEnd, PutEdge, Related, Remove, CheckMembers, Bury,
              Cascade, Fault, history
<1>3. ASSUME Outside \/ UNCHANGED vars
      PROVE  UNCHANGED linked /\ trouble' \subseteq trouble \cup {"relRace", "delete"}
  BY <1>3 DEF Outside, Upsert, SoftDeleteStaged, StageRelationship, TakeRelationship, PutRelationship, history, vars
<1> QED BY <1>0, <1>1, <1>2, <1>3 DEF HistoryTyped, Next, Outside, Working

LEMMA ResolutionTypedStep ==
  ASSUME LInv, ResolutionTyped, [Next]_vars
  PROVE  ResolutionTyped'
<1>1. JobsTyped' /\ InTurn' /\ EventsTyped' /\ retries' \in 0 .. MaxRetries
  <2>1. CASE Outside
    BY <2>1, OutsideTyped DEF ResolutionTyped
  <2>2. ASSUME NEW c \in Consumers, NEW e \in Entities, Index(c, e) \/ TakeDeleted(c, e)
        PROVE  JobsTyped' /\ InTurn' /\ EventsTyped' /\ retries' \in 0 .. MaxRetries
    BY <2>2, TakeTyped DEF ResolutionTyped
  <2>3. ASSUME NEW c \in Consumers, Working(c)
        PROVE  JobsTyped' /\ InTurn' /\ EventsTyped' /\ retries' \in 0 .. MaxRetries
    BY <2>3, JobsStep DEF ResolutionTyped
  <2>4. CASE UNCHANGED vars
    BY <2>4 DEF ResolutionTyped, JobsTyped, InTurn, EventsTyped, HistoryTyped, vars, source
  <2> QED BY <2>1, <2>2, <2>3, <2>4 DEF Next, Outside, Working
<1>2. rules \subseteq Relations
  BY DEF ResolutionTyped, HistoryTyped
<1>3. Shape' /\ rules' \subseteq Relations
  BY <1>2, LInvStep, RulesStep DEF LInv
<1>4. TablesTyped'
  BY RowsStep, RemovedStep, EdgesStep, RelationshipsStep DEF ResolutionTyped, TablesTyped
<1>5. HistoryTyped'
  BY <1>1, <1>3, RelationshipsStep, HistoryStep DEF ResolutionTyped, HistoryTyped
<1> QED BY <1>1, <1>3, <1>4, <1>5 DEF ResolutionTyped

\* For any entities, values, match rules, relationships and instances, whatever
\* these interleave and wherever they die, the state is well typed: a consolidation
\* and a deletion always have a merged entity to write to, both ends of an edge are
\* merged entities, and a handler's event is in the log until the handler ends.
THEOREM ResolutionTypes == Spec => []TypeOK
<1> DEFINE I == LInv /\ ResolutionTyped
<1>1. Init => I
  BY InitLInv, InitResolutionTyped
<1>2. I /\ [Next]_vars => I'
  <2>1. ResolutionTyped => rules \subseteq Relations
    BY DEF ResolutionTyped, HistoryTyped
  <2> QED BY <2>1, LInvStep, ResolutionTypedStep
<1>3. I => TypeOK
  BY DEF ResolutionTyped, Shape, JobsTyped, EventsTyped, TablesTyped, HistoryTyped, TypeOK
<1> HIDE DEF I
<1> QED BY <1>1, <1>2, <1>3, PTL DEF Spec

=============================================================================
