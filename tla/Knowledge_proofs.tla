--------------------------- MODULE Knowledge_proofs ---------------------------
(***************************************************************************)
(* Proofs about the navigation of a partition, for any units, documents,   *)
(* questions and model replies, any number of writers and readers: rebuilds*)
(* are due, the saved graph is grounded, the index leads to the pages, and *)
(* no question is given a unit revoked before it began.                    *)
(*                                                                         *)
(* Shape says what every call is made of; GraphInv, PagesInv, LeadInv and  *)
(* FoundInv are inductive beside it.  The lemmas named after an action say *)
(* what it makes of the call of the thread that takes it.                  *)
(***************************************************************************)
EXTENDS Knowledge, Foundations

\* The conditions under which the reader of a rebuild may go on.
Building == {"scan", "save", "clean"}

\* Only these steps touch the marker, the lock and the counters.
LEMMA LocksFrame ==
    ASSUME Next
    PROVE  \/ \E t \in Writers : MarkDirty(t)
           \/ \E t \in Readers : TakeLock(t)
           \/ \E t \in Threads : MarkClean(t)
           \/ UNCHANGED <<dirty, lock, marks, rebuilds>>
BY DEF Next, WriterStep, ReaderStep, Build, Ingest, Revoke, Refresh, Ask, ScanForGraph, SaveGraph, DistilPages,
       ReadBase, ClearPages, PutPage, PutIndex, DropPage, ListSurvivors, LoadGraph, MatchPages, FetchPage,
       FetchedAll, Resolve, Keeps, Begin

LockInv ==
    /\ marks \in Nat /\ rebuilds \in Nat
    /\ OneRebuildPerMark
    /\ dirty /\ lock = None => rebuilds < marks

LEMMA LockInit == ASSUME Init PROVE LockInv
BY DEF Init, LockInv, OneRebuildPerMark

LEMMA LockStep == ASSUME LockInv, [Next]_vars PROVE LockInv'
<1>1. CASE UNCHANGED <<dirty, lock, marks, rebuilds>>
  BY <1>1 DEF LockInv, OneRebuildPerMark
<1>2. ASSUME NEW t \in Writers, MarkDirty(t) PROVE LockInv'
  BY <1>2 DEF LockInv, OneRebuildPerMark, MarkDirty
<1>3. ASSUME NEW t \in Readers, TakeLock(t) PROVE LockInv'
  <2>1. None \notin Readers
    BY KnowledgeAssumption
  <2> QED BY <1>3, <2>1 DEF LockInv, OneRebuildPerMark, TakeLock
<1>4. ASSUME NEW t \in Threads, MarkClean(t) PROVE LockInv'
  BY <1>4 DEF LockInv, OneRebuildPerMark, MarkClean, Keeps
<1> QED
  BY <1>1, <1>2, <1>3, <1>4, LocksFrame DEF vars

\* graph/store.py, ensure_current: for any number of writers and readers, a rebuild by a
\* reader uses up a marker of its own, so no state is distilled twice.
THEOREM RebuildsAreDue == Spec => []OneRebuildPerMark
<1>1. Spec => []LockInv
  BY LockInit, LockStep, PTL DEF Spec
<1>2. LockInv => OneRebuildPerMark
  BY DEF LockInv
<1> QED BY <1>1, <1>2, PTL
-----------------------------------------------------------------------------
(* What a thread's call is *)

FieldNames == {"pc", "op", "doc", "snap", "draft", "todo", "base", "query", "score", "found"}

Fields(c) == c = [f \in FieldNames |-> c[f]]

Shape ==
    /\ call = [t \in Threads |-> call[t]]
    /\ \A t \in Threads : Fields(call[t])

\* Thread t's call becomes r, all others stay.
Becomes(t, r) ==
    /\ call' = [s \in Threads |-> IF s = t THEN r ELSE call[s]]
    /\ Fields(r)

\* An update of one thread's call, in the form the steps below use.
LEMMA Updated ==
    ASSUME Shape, NEW t \in Threads, NEW r, Fields(r), call' = [call EXCEPT ![t] = r]
    PROVE  Becomes(t, r)
BY DEF Shape, Becomes

LEMMA IdleFields == Fields(Idle)
BY DEF Fields, FieldNames, Idle

\* What every action makes of the call of the thread that takes it.
LEMMA ShapeInit == ASSUME Init PROVE Shape
BY IdleFields DEF Init, Shape

Started(pc, op, doc, query) ==
    [pc |-> pc, op |-> op, doc |-> doc, snap |-> {}, draft |-> NoGraph,
     todo |-> <<>>, base |-> <<>>, query |-> query, score |-> <<>>, found |-> <<>>]

LEMMA StartedFields == \A pc, op, doc, query : Fields(Started(pc, op, doc, query))
BY DEF Fields, FieldNames, Started

\* The steps that begin a call.
LEMMA BeginSteps ==
    ASSUME Shape, NEW t \in Threads
    PROVE  /\ \A d \in Docs : Ingest(t, d) => Becomes(t, Started("mark", "ingest", d, {}))
           /\ \A d \in Docs : Revoke(t, d) => Becomes(t, Started("scan", "revoke", d, {}))
           /\ Refresh(t) => Becomes(t, Started("scan", "refresh", None, {}))
           /\ \A q, op : Ask(t, op, q) => Becomes(t, Started(IF op = "graph" THEN "lock" ELSE "match", op, None, q))
<1> PICK i : i = Idle
  OBVIOUS
<1>0. /\ i.pc = "idle" /\ i.op = "none" /\ i.doc = None /\ i.snap = {} /\ i.draft = NoGraph
      /\ i.todo = <<>> /\ i.base = <<>> /\ i.query = {} /\ i.score = <<>> /\ i.found = <<>>
  BY DEF Idle
<1>00. Fields(i)
  BY IdleFields
<1>1. ASSUME NEW d, NEW r, r = [i EXCEPT !.pc = "mark", !.op = "ingest", !.doc = d]
      PROVE  r = Started("mark", "ingest", d, {})
  BY <1>0, <1>00, <1>1 DEF Fields, FieldNames, Started
<1>2. ASSUME NEW d, NEW r, r = [i EXCEPT !.pc = "scan", !.op = "revoke", !.doc = d]
      PROVE  r = Started("scan", "revoke", d, {})
  BY <1>0, <1>00, <1>2 DEF Fields, FieldNames, Started
<1>3. ASSUME NEW r, r = [i EXCEPT !.pc = "scan", !.op = "refresh"]
      PROVE  r = Started("scan", "refresh", None, {})
  BY <1>0, <1>00, <1>3 DEF Fields, FieldNames, Started
<1>4. ASSUME NEW p, NEW q, NEW op, NEW r, r = [i EXCEPT !.pc = p, !.op = op, !.query = q]
      PROVE  r = Started(p, op, None, q)
  BY <1>0, <1>00, <1>4 DEF Fields, FieldNames, Started
<1>5. ASSUME NEW d \in Docs, Ingest(t, d) PROVE Becomes(t, Started("mark", "ingest", d, {}))
  <2>1. call' = [call EXCEPT ![t] = Started("mark", "ingest", d, {})]
    BY <1>1, <1>5 DEF Ingest, Begin
  <2> QED BY <2>1, StartedFields, Updated
<1>6. ASSUME NEW d \in Docs, Revoke(t, d) PROVE Becomes(t, Started("scan", "revoke", d, {}))
  <2>1. call' = [call EXCEPT ![t] = Started("scan", "revoke", d, {})]
    BY <1>2, <1>6 DEF Revoke, Begin
  <2> QED BY <2>1, StartedFields, Updated
<1>7. ASSUME Refresh(t) PROVE Becomes(t, Started("scan", "refresh", None, {}))
  <2>1. call' = [call EXCEPT ![t] = Started("scan", "refresh", None, {})]
    BY <1>3, <1>7 DEF Refresh, Begin
  <2> QED BY <2>1, StartedFields, Updated
<1>8. ASSUME NEW q, NEW op, Ask(t, op, q)
      PROVE  Becomes(t, Started(IF op = "graph" THEN "lock" ELSE "match", op, None, q))
  <2>1. call' = [call EXCEPT ![t] = Started(IF op = "graph" THEN "lock" ELSE "match", op, None, q)]
    <3> PICK p : p = IF op = "graph" THEN "lock" ELSE "match"
      OBVIOUS
    <3>1. call' = [call EXCEPT ![t] = [i EXCEPT !.pc = p, !.op = op, !.query = q]]
      BY <1>8 DEF Ask, Begin
    <3> QED BY <3>1, <1>4
  <2> QED BY <2>1, StartedFields, Updated
<1> QED
  BY <1>5, <1>6, <1>7, <1>8

LEMMA MarkDirtyMakes ==
    ASSUME Shape, NEW t \in Threads, MarkDirty(t)
    PROVE  \E r : /\ Becomes(t, r)
                  /\ r.pc = "distil"
                  /\ r.op = call[t].op /\ r.doc = call[t].doc /\ r.snap = call[t].snap /\ r.draft = call[t].draft /\ r.todo = call[t].todo /\ r.base = call[t].base /\ r.query = call[t].query /\ r.score = call[t].score /\ r.found = call[t].found
<1> PICK r : r = [call[t] EXCEPT !.pc = "distil"]
  OBVIOUS
<1>1. call' = [call EXCEPT ![t] = r]
  BY DEF MarkDirty, Goto, Shape
<1>2. Fields(call[t])
  BY DEF Shape
<1>3. Fields(r) /\ r.pc = "distil"
      /\ r.op = call[t].op /\ r.doc = call[t].doc /\ r.snap = call[t].snap /\ r.draft = call[t].draft /\ r.todo = call[t].todo /\ r.base = call[t].base /\ r.query = call[t].query /\ r.score = call[t].score /\ r.found = call[t].found
  BY <1>2 DEF Fields, FieldNames
<1> QED
  BY <1>1, <1>3, Updated

LEMMA TakeLockMakes ==
    ASSUME Shape, NEW t \in Threads, TakeLock(t)
    PROVE  \E r : /\ Becomes(t, r)
                  /\ r.pc = (IF dirty THEN "scan" ELSE "load")
                  /\ r.op = call[t].op /\ r.doc = call[t].doc /\ r.snap = call[t].snap /\ r.draft = call[t].draft /\ r.todo = call[t].todo /\ r.base = call[t].base /\ r.query = call[t].query /\ r.score = call[t].score /\ r.found = call[t].found
<1> PICK v_pc : v_pc = (IF dirty THEN "scan" ELSE "load")
  OBVIOUS
<1> PICK r : r = [call[t] EXCEPT !.pc = v_pc]
  OBVIOUS
<1>1. call' = [call EXCEPT ![t] = r]
  BY DEF TakeLock, Goto, Shape
<1>2. Fields(call[t])
  BY DEF Shape
<1>3. Fields(r) /\ r.pc = v_pc
      /\ r.op = call[t].op /\ r.doc = call[t].doc /\ r.snap = call[t].snap /\ r.draft = call[t].draft /\ r.todo = call[t].todo /\ r.base = call[t].base /\ r.query = call[t].query /\ r.score = call[t].score /\ r.found = call[t].found
  BY <1>2 DEF Fields, FieldNames
<1> QED
  BY <1>1, <1>3, Updated

LEMMA ClearPagesMakes ==
    ASSUME Shape, NEW t \in Threads, ClearPages(t)
    PROVE  \E r : /\ Becomes(t, r)
                  /\ r.pc = "pages"
                  /\ r.op = call[t].op /\ r.doc = call[t].doc /\ r.snap = call[t].snap /\ r.draft = call[t].draft /\ r.todo = call[t].todo /\ r.base = call[t].base /\ r.query = call[t].query /\ r.score = call[t].score /\ r.found = call[t].found
<1> PICK r : r = [call[t] EXCEPT !.pc = "pages"]
  OBVIOUS
<1>1. call' = [call EXCEPT ![t] = r]
  BY DEF ClearPages, Goto, Shape
<1>2. Fields(call[t])
  BY DEF Shape
<1>3. Fields(r) /\ r.pc = "pages"
      /\ r.op = call[t].op /\ r.doc = call[t].doc /\ r.snap = call[t].snap /\ r.draft = call[t].draft /\ r.todo = call[t].todo /\ r.base = call[t].base /\ r.query = call[t].query /\ r.score = call[t].score /\ r.found = call[t].found
  BY <1>2 DEF Fields, FieldNames
<1> QED
  BY <1>1, <1>3, Updated

LEMMA DropPageMakes ==
    ASSUME Shape, NEW t \in Threads, DropPage(t)
    PROVE  \E r : /\ Becomes(t, r)
                  /\ r.pc = "list"
                  /\ r.op = call[t].op /\ r.doc = call[t].doc /\ r.snap = call[t].snap /\ r.draft = call[t].draft /\ r.todo = call[t].todo /\ r.base = call[t].base /\ r.query = call[t].query /\ r.score = call[t].score /\ r.found = call[t].found
<1> PICK r : r = [call[t] EXCEPT !.pc = "list"]
  OBVIOUS
<1>1. call' = [call EXCEPT ![t] = r]
  BY DEF DropPage, Goto, Shape
<1>2. Fields(call[t])
  BY DEF Shape
<1>3. Fields(r) /\ r.pc = "list"
      /\ r.op = call[t].op /\ r.doc = call[t].doc /\ r.snap = call[t].snap /\ r.draft = call[t].draft /\ r.todo = call[t].todo /\ r.base = call[t].base /\ r.query = call[t].query /\ r.score = call[t].score /\ r.found = call[t].found
  BY <1>2 DEF Fields, FieldNames
<1> QED
  BY <1>1, <1>3, Updated

LEMMA FetchedAllMakes ==
    ASSUME Shape, NEW t \in Threads, FetchedAll(t)
    PROVE  \E r : /\ Becomes(t, r)
                  /\ r.pc = "resolve"
                  /\ r.op = call[t].op /\ r.doc = call[t].doc /\ r.snap = call[t].snap /\ r.draft = call[t].draft /\ r.todo = call[t].todo /\ r.base = call[t].base /\ r.query = call[t].query /\ r.score = call[t].score /\ r.found = call[t].found
<1> PICK r : r = [call[t] EXCEPT !.pc = "resolve"]
  OBVIOUS
<1>1. call' = [call EXCEPT ![t] = r]
  BY DEF FetchedAll, Goto, Shape
<1>2. Fields(call[t])
  BY DEF Shape
<1>3. Fields(r) /\ r.pc = "resolve"
      /\ r.op = call[t].op /\ r.doc = call[t].doc /\ r.snap = call[t].snap /\ r.draft = call[t].draft /\ r.todo = call[t].todo /\ r.base = call[t].base /\ r.query = call[t].query /\ r.score = call[t].score /\ r.found = call[t].found
  BY <1>2 DEF Fields, FieldNames
<1> QED
  BY <1>1, <1>3, Updated

LEMMA MarkCleanMakes ==
    ASSUME Shape, NEW t \in Threads, MarkClean(t)
    PROVE  \E r : /\ Becomes(t, r)
                  /\ r.pc = (CASE call[t].op = "graph" -> "load" [] call[t].op = "revoke" -> "drop" [] OTHER -> "distil")
                  /\ r.op = call[t].op /\ r.doc = call[t].doc /\ r.snap = call[t].snap /\ r.draft = call[t].draft /\ r.todo = call[t].todo /\ r.base = call[t].base /\ r.query = call[t].query /\ r.score = call[t].score /\ r.found = call[t].found
<1> PICK v_pc : v_pc = (CASE call[t].op = "graph" -> "load" [] call[t].op = "revoke" -> "drop" [] OTHER -> "distil")
  OBVIOUS
<1> PICK r : r = [call[t] EXCEPT !.pc = v_pc]
  OBVIOUS
<1>1. call' = [call EXCEPT ![t] = r]
  BY DEF MarkClean, Goto, Shape
<1>2. Fields(call[t])
  BY DEF Shape
<1>3. Fields(r) /\ r.pc = v_pc
      /\ r.op = call[t].op /\ r.doc = call[t].doc /\ r.snap = call[t].snap /\ r.draft = call[t].draft /\ r.todo = call[t].todo /\ r.base = call[t].base /\ r.query = call[t].query /\ r.score = call[t].score /\ r.found = call[t].found
  BY <1>2 DEF Fields, FieldNames
<1> QED
  BY <1>1, <1>3, Updated

LEMMA SaveGraphMakes ==
    ASSUME Shape, NEW t \in Threads, SaveGraph(t)
    PROVE  \E r : /\ Becomes(t, r)
                  /\ r.pc = "clean" /\ r.draft = NoGraph /\ r.snap = {}
                  /\ r.op = call[t].op /\ r.doc = call[t].doc /\ r.todo = call[t].todo /\ r.base = call[t].base /\ r.query = call[t].query /\ r.score = call[t].score /\ r.found = call[t].found
<1> PICK v_draft : v_draft = NoGraph
  OBVIOUS
<1> PICK v_snap : v_snap = {}
  OBVIOUS
<1> PICK r : r = [call[t] EXCEPT !.pc = "clean", !.draft = v_draft, !.snap = v_snap]
  OBVIOUS
<1>1. call' = [call EXCEPT ![t] = r]
  BY DEF SaveGraph, Goto, Shape
<1>2. Fields(call[t])
  BY DEF Shape
<1>3. Fields(r) /\ r.pc = "clean" /\ r.draft = v_draft /\ r.snap = v_snap
      /\ r.op = call[t].op /\ r.doc = call[t].doc /\ r.todo = call[t].todo /\ r.base = call[t].base /\ r.query = call[t].query /\ r.score = call[t].score /\ r.found = call[t].found
  BY <1>2 DEF Fields, FieldNames
<1> QED
  BY <1>1, <1>3, Updated

LEMMA ReadBaseMakes ==
    ASSUME Shape, NEW t \in Threads, ReadBase(t)
    PROVE  \E r : /\ Becomes(t, r)
                  /\ r.pc = "pages" /\ r.base = index
                  /\ r.op = call[t].op /\ r.doc = call[t].doc /\ r.snap = call[t].snap /\ r.draft = call[t].draft /\ r.todo = call[t].todo /\ r.query = call[t].query /\ r.score = call[t].score /\ r.found = call[t].found
<1> PICK v_base : v_base = index
  OBVIOUS
<1> PICK r : r = [call[t] EXCEPT !.pc = "pages", !.base = v_base]
  OBVIOUS
<1>1. call' = [call EXCEPT ![t] = r]
  BY DEF ReadBase, Goto, Shape
<1>2. Fields(call[t])
  BY DEF Shape
<1>3. Fields(r) /\ r.pc = "pages" /\ r.base = v_base
      /\ r.op = call[t].op /\ r.doc = call[t].doc /\ r.snap = call[t].snap /\ r.draft = call[t].draft /\ r.todo = call[t].todo /\ r.query = call[t].query /\ r.score = call[t].score /\ r.found = call[t].found
  BY <1>2 DEF Fields, FieldNames
<1> QED
  BY <1>1, <1>3, Updated

LEMMA PutPageMakes ==
    ASSUME Shape, NEW t \in Threads, PutPage(t)
    PROVE  \E r : /\ Becomes(t, r)
                  /\ r.todo = Tail(call[t].todo) /\ r.base = (Put(call[t].base, Head(call[t].todo).id, IndexEntry(Head(call[t].todo))))
                  /\ r.pc = call[t].pc /\ r.op = call[t].op /\ r.doc = call[t].doc /\ r.snap = call[t].snap /\ r.draft = call[t].draft /\ r.query = call[t].query /\ r.score = call[t].score /\ r.found = call[t].found
<1> PICK v_todo : v_todo = Tail(call[t].todo)
  OBVIOUS
<1> PICK v_base : v_base = (Put(call[t].base, Head(call[t].todo).id, IndexEntry(Head(call[t].todo))))
  OBVIOUS
<1> PICK r : r = [call[t] EXCEPT !.todo = v_todo, !.base = v_base]
  OBVIOUS
<1>1. call' = [call EXCEPT ![t] = r]
  BY DEF PutPage, Goto, Shape
<1>2. Fields(call[t])
  BY DEF Shape
<1>3. Fields(r) /\ r.todo = v_todo /\ r.base = v_base
      /\ r.pc = call[t].pc /\ r.op = call[t].op /\ r.doc = call[t].doc /\ r.snap = call[t].snap /\ r.draft = call[t].draft /\ r.query = call[t].query /\ r.score = call[t].score /\ r.found = call[t].found
  BY <1>2 DEF Fields, FieldNames
<1> QED
  BY <1>1, <1>3, Updated

LEMMA ListSurvivorsMakes ==
    ASSUME Shape, NEW t \in Threads, ListSurvivors(t)
    PROVE  \E r : /\ Becomes(t, r)
                  /\ r.pc = "pages" /\ r.base = (Without(index, {PageOf[call[t].doc]}))
                  /\ r.op = call[t].op /\ r.doc = call[t].doc /\ r.snap = call[t].snap /\ r.draft = call[t].draft /\ r.todo = call[t].todo /\ r.query = call[t].query /\ r.score = call[t].score /\ r.found = call[t].found
<1> PICK v_base : v_base = (Without(index, {PageOf[call[t].doc]}))
  OBVIOUS
<1> PICK r : r = [call[t] EXCEPT !.pc = "pages", !.base = v_base]
  OBVIOUS
<1>1. call' = [call EXCEPT ![t] = r]
  BY DEF ListSurvivors, Goto, Shape
<1>2. Fields(call[t])
  BY DEF Shape
<1>3. Fields(r) /\ r.pc = "pages" /\ r.base = v_base
      /\ r.op = call[t].op /\ r.doc = call[t].doc /\ r.snap = call[t].snap /\ r.draft = call[t].draft /\ r.todo = call[t].todo /\ r.query = call[t].query /\ r.score = call[t].score /\ r.found = call[t].found
  BY <1>2 DEF Fields, FieldNames
<1> QED
  BY <1>1, <1>3, Updated

LEMMA LoadGraphMakes ==
    ASSUME Shape, NEW t \in Threads, LoadGraph(t)
    PROVE  \E r : /\ Becomes(t, r)
                  /\ r.pc = "resolve" /\ r.score = (NodeScores(graph, call[t].query))
                  /\ r.op = call[t].op /\ r.doc = call[t].doc /\ r.snap = call[t].snap /\ r.draft = call[t].draft /\ r.todo = call[t].todo /\ r.base = call[t].base /\ r.query = call[t].query /\ r.found = call[t].found
<1> PICK v_score : v_score = (NodeScores(graph, call[t].query))
  OBVIOUS
<1> PICK r : r = [call[t] EXCEPT !.pc = "resolve", !.score = v_score]
  OBVIOUS
<1>1. call' = [call EXCEPT ![t] = r]
  BY DEF LoadGraph, Goto, Shape
<1>2. Fields(call[t])
  BY DEF Shape
<1>3. Fields(r) /\ r.pc = "resolve" /\ r.score = v_score
      /\ r.op = call[t].op /\ r.doc = call[t].doc /\ r.snap = call[t].snap /\ r.draft = call[t].draft /\ r.todo = call[t].todo /\ r.base = call[t].base /\ r.query = call[t].query /\ r.found = call[t].found
  BY <1>2 DEF Fields, FieldNames
<1> QED
  BY <1>1, <1>3, Updated

LEMMA MatchPagesMakes ==
    ASSUME Shape, NEW t \in Threads, MatchPages(t)
    PROVE  \E r : /\ Becomes(t, r)
                  /\ r.pc = "fetch" /\ r.base = (PageScores(index, call[t].query))
                  /\ r.op = call[t].op /\ r.doc = call[t].doc /\ r.snap = call[t].snap /\ r.draft = call[t].draft /\ r.todo = call[t].todo /\ r.query = call[t].query /\ r.score = call[t].score /\ r.found = call[t].found
<1> PICK v_base : v_base = (PageScores(index, call[t].query))
  OBVIOUS
<1> PICK r : r = [call[t] EXCEPT !.pc = "fetch", !.base = v_base]
  OBVIOUS
<1>1. call' = [call EXCEPT ![t] = r]
  BY DEF MatchPages, Goto, Shape
<1>2. Fields(call[t])
  BY DEF Shape
<1>3. Fields(r) /\ r.pc = "fetch" /\ r.base = v_base
      /\ r.op = call[t].op /\ r.doc = call[t].doc /\ r.snap = call[t].snap /\ r.draft = call[t].draft /\ r.todo = call[t].todo /\ r.query = call[t].query /\ r.score = call[t].score /\ r.found = call[t].found
  BY <1>2 DEF Fields, FieldNames
<1> QED
  BY <1>1, <1>3, Updated



LEMMA ScanForGraphMakes ==
    ASSUME Shape, NEW t \in Threads, ScanForGraph(t)
    PROVE  \E r : /\ Becomes(t, r)
                  /\ r.pc = "save" /\ r.draft \in GraphsFrom(rows) /\ r.snap = rows
                  /\ r.op = call[t].op /\ r.doc = call[t].doc /\ r.todo = call[t].todo /\ r.base = call[t].base /\ r.query = call[t].query /\ r.score = call[t].score /\ r.found = call[t].found
<1> PICK g \in GraphsFrom(rows) : call' = [call EXCEPT ![t] = [@ EXCEPT !.pc = "save", !.draft = g, !.snap = rows]]
  BY DEF ScanForGraph
<1> PICK r : r = [call[t] EXCEPT !.pc = "save", !.draft = g, !.snap = rows]
  OBVIOUS
<1>1. call' = [call EXCEPT ![t] = r]
  BY DEF Shape
<1>2. Fields(call[t])
  BY DEF Shape
<1>3. /\ Fields(r) /\ r.pc = "save" /\ r.draft = g /\ r.snap = rows
      /\ r.op = call[t].op /\ r.doc = call[t].doc /\ r.todo = call[t].todo /\ r.base = call[t].base /\ r.query = call[t].query /\ r.score = call[t].score /\ r.found = call[t].found
  BY <1>2 DEF Fields, FieldNames
<1> QED
  BY <1>1, <1>3, Updated

\* The rows a distiller of pages is given, and the documents they are of.
Scope(t) == IF call[t].op = "ingest" THEN UnitsOf(rows, call[t].doc) ELSE rows
ScopeDocs(t) == IF call[t].op = "ingest" THEN {call[t].doc} ELSE {DocOf[u] : u \in rows}

LEMMA DistilPagesMakes ==
    ASSUME Shape, NEW t \in Threads, DistilPages(t)
    PROVE  \E r : /\ Becomes(t, r)
                  /\ r.pc = (IF call[t].op = "ingest" THEN "base" ELSE "clear")
                  /\ r.todo \in PagesFrom(Scope(t), ScopeDocs(t))
                  /\ r.op = call[t].op /\ r.doc = call[t].doc /\ r.snap = call[t].snap /\ r.draft = call[t].draft /\ r.base = call[t].base /\ r.query = call[t].query /\ r.score = call[t].score /\ r.found = call[t].found
<1> PICK p : p = IF call[t].op = "ingest" THEN "base" ELSE "clear"
  OBVIOUS
<1>1. \E todo \in PagesFrom(Scope(t), ScopeDocs(t)) : call' = [call EXCEPT ![t] = [@ EXCEPT !.todo = todo, !.pc = p]]
  <2>1. CASE call[t].op = "ingest"
    BY <2>1 DEF DistilPages, Scope, ScopeDocs
  <2>2. CASE call[t].op # "ingest"
    BY <2>2 DEF DistilPages, Scope, ScopeDocs
  <2> QED BY <2>1, <2>2
<1>2. PICK todo \in PagesFrom(Scope(t), ScopeDocs(t)) : call' = [call EXCEPT ![t] = [@ EXCEPT !.todo = todo, !.pc = p]]
  BY <1>1
<1> PICK r : r = [call[t] EXCEPT !.todo = todo, !.pc = p]
  OBVIOUS
<1>3. call' = [call EXCEPT ![t] = r]
  BY <1>2 DEF Shape
<1>4. Fields(call[t])
  BY DEF Shape
<1>5. /\ Fields(r) /\ r.pc = p /\ r.todo = todo
      /\ r.op = call[t].op /\ r.doc = call[t].doc /\ r.snap = call[t].snap /\ r.draft = call[t].draft /\ r.base = call[t].base /\ r.query = call[t].query /\ r.score = call[t].score /\ r.found = call[t].found
  BY <1>4 DEF Fields, FieldNames
<1> QED
  BY <1>3, <1>5, Updated

\* What the page of p scores the units it names, beside what they score already.
BestWith(t, p, page) ==
    [u \in page \cup DOMAIN call[t].score |->
        Max({call[t].score[v] : v \in {u} \cap DOMAIN call[t].score} \cup {call[t].base[p] : v \in {u} \cap page})]

PageRefs(p) == IF Slug[p] \in DOMAIN pages THEN pages[Slug[p]].refs ELSE {}

LEMMA FetchPageMakes ==
    ASSUME Shape, NEW t \in Threads, FetchPage(t)
    PROVE  \E r, p : /\ Becomes(t, r)
                     /\ p \in DOMAIN call[t].base
                     /\ r.score = BestWith(t, p, PageRefs(p)) /\ r.base = Without(call[t].base, {p})
                     /\ r.pc = call[t].pc /\ r.op = call[t].op /\ r.doc = call[t].doc /\ r.snap = call[t].snap /\ r.draft = call[t].draft /\ r.todo = call[t].todo /\ r.query = call[t].query /\ r.found = call[t].found
<1> PICK p \in DOMAIN call[t].base :
        call' = [call EXCEPT ![t] = [@ EXCEPT !.score = BestWith(t, p, PageRefs(p)), !.base = Without(call[t].base, {p})]]
  BY DEF FetchPage, BestWith, PageRefs
<1> PICK v_score : v_score = BestWith(t, p, PageRefs(p))
  OBVIOUS
<1> PICK v_base : v_base = Without(call[t].base, {p})
  OBVIOUS
<1> PICK r : r = [call[t] EXCEPT !.score = v_score, !.base = v_base]
  OBVIOUS
<1>1. call' = [call EXCEPT ![t] = r]
  BY DEF Shape
<1>2. Fields(call[t])
  BY DEF Shape
<1>3. /\ Fields(r) /\ r.score = v_score /\ r.base = v_base
      /\ r.pc = call[t].pc /\ r.op = call[t].op /\ r.doc = call[t].doc /\ r.snap = call[t].snap /\ r.draft = call[t].draft /\ r.todo = call[t].todo /\ r.query = call[t].query /\ r.found = call[t].found
  BY <1>2 DEF Fields, FieldNames
<1> QED
  BY <1>1, <1>3, Updated

LEMMA PutIndexMakes ==
    ASSUME Shape, NEW t \in Threads, PutIndex(t)
    PROVE  Becomes(t, Started("idle", "none", None, {}))
<1>1. Idle = Started("idle", "none", None, {})
  BY DEF Idle, Started
<1>2. call' = [call EXCEPT ![t] = Idle]
  BY DEF PutIndex
<1> QED
  BY <1>1, <1>2, StartedFields, Updated

LEMMA ResolveMakes ==
    ASSUME Shape, NEW t \in Threads, Resolve(t)
    PROVE  \E r : /\ Becomes(t, r)
                  /\ r.pc = "idle" /\ r.found = Candidates(call[t].score, rows)
                  /\ r.op = "none" /\ r.doc = None /\ r.snap = {} /\ r.draft = NoGraph
                  /\ r.todo = <<>> /\ r.base = <<>> /\ r.query = {} /\ r.score = <<>>
<1> PICK i : i = Idle
  OBVIOUS
<1> PICK found : found = Candidates(call[t].score, rows)
  OBVIOUS
<1> PICK r : r = [i EXCEPT !.found = found]
  OBVIOUS
<1>0. /\ i.pc = "idle" /\ i.op = "none" /\ i.doc = None /\ i.snap = {} /\ i.draft = NoGraph
      /\ i.todo = <<>> /\ i.base = <<>> /\ i.query = {} /\ i.score = <<>> /\ i.found = <<>>
  BY DEF Idle
<1>1. call' = [call EXCEPT ![t] = r]
  BY DEF Resolve
<1>2. /\ Fields(r) /\ r.found = found
      /\ r.pc = i.pc /\ r.op = i.op /\ r.doc = i.doc /\ r.snap = i.snap /\ r.draft = i.draft
      /\ r.todo = i.todo /\ r.base = i.base /\ r.query = i.query /\ r.score = i.score
  BY IdleFields DEF Fields, FieldNames
<1> QED
  BY <1>0, <1>1, <1>2, Updated



LEMMA BecomesShape ==
    ASSUME Shape, NEW t \in Threads, NEW r, Becomes(t, r)
    PROVE  Shape'
BY DEF Shape, Becomes

\* A call has its ten fields, whatever a thread does.
LEMMA ShapeStep ==
    ASSUME Shape, [Next]_vars
    PROVE  Shape'
<1>1. CASE UNCHANGED vars
  BY <1>1 DEF Shape, Fields, vars
<1>2. ASSUME NEW t \in Writers, WriterStep(t)
      PROVE  Shape'
  <2>0. t \in Threads
    BY DEF Threads
  <2>1. ASSUME NEW d \in Docs, Ingest(t, d) PROVE Shape'
    BY <2>0, <2>1, BecomesShape, BeginSteps
  <2>2. ASSUME NEW d \in Docs, Revoke(t, d) PROVE Shape'
    BY <2>0, <2>2, BecomesShape, BeginSteps
  <2>3. ASSUME Refresh(t) PROVE Shape'
    BY <2>0, <2>3, BecomesShape, BeginSteps
  <2>4. ASSUME MarkDirty(t) PROVE Shape'
    BY <2>0, <2>4, BecomesShape, MarkDirtyMakes
  <2>5. ASSUME DistilPages(t) PROVE Shape'
    BY <2>0, <2>5, BecomesShape, DistilPagesMakes
  <2>6. ASSUME ReadBase(t) PROVE Shape'
    BY <2>0, <2>6, BecomesShape, ReadBaseMakes
  <2>7. ASSUME ClearPages(t) PROVE Shape'
    BY <2>0, <2>7, BecomesShape, ClearPagesMakes
  <2>8. ASSUME PutPage(t) PROVE Shape'
    BY <2>0, <2>8, BecomesShape, PutPageMakes
  <2>9. ASSUME PutIndex(t) PROVE Shape'
    BY <2>0, <2>9, BecomesShape, PutIndexMakes
  <2>10. ASSUME DropPage(t) PROVE Shape'
    BY <2>0, <2>10, BecomesShape, DropPageMakes
  <2>11. ASSUME ListSurvivors(t) PROVE Shape'
    BY <2>0, <2>11, BecomesShape, ListSurvivorsMakes
  <2> QED
    BY <1>2, <2>1, <2>2, <2>3, <2>4, <2>5, <2>6, <2>7, <2>8, <2>9, <2>10, <2>11 DEF WriterStep
<1>3. ASSUME NEW t \in Readers, ReaderStep(t)
      PROVE  Shape'
  <2>0. t \in Threads
    BY DEF Threads
  <2>1. ASSUME NEW q, NEW op, Ask(t, op, q) PROVE Shape'
    BY <2>0, <2>1, BecomesShape, BeginSteps
  <2>2. ASSUME TakeLock(t) PROVE Shape'
    BY <2>0, <2>2, BecomesShape, TakeLockMakes
  <2>3. ASSUME LoadGraph(t) PROVE Shape'
    BY <2>0, <2>3, BecomesShape, LoadGraphMakes
  <2>4. ASSUME MatchPages(t) PROVE Shape'
    BY <2>0, <2>4, BecomesShape, MatchPagesMakes
  <2>5. ASSUME FetchPage(t) PROVE Shape'
    BY <2>0, <2>5, BecomesShape, FetchPageMakes
  <2>6. ASSUME FetchedAll(t) PROVE Shape'
    BY <2>0, <2>6, BecomesShape, FetchedAllMakes
  <2>7. ASSUME Resolve(t) PROVE Shape'
    BY <2>0, <2>7, BecomesShape, ResolveMakes
  <2> QED
    BY <1>3, <2>1, <2>2, <2>3, <2>4, <2>5, <2>6, <2>7 DEF ReaderStep
<1>4. ASSUME NEW t \in Threads, Build(t)
      PROVE  Shape'
  BY <1>4, BecomesShape, ScanForGraphMakes, SaveGraphMakes, MarkCleanMakes DEF Build
<1> QED
  BY <1>1, <1>2, <1>3, <1>4 DEF Next

-----------------------------------------------------------------------------
(* The graph *)

Labels(g) == {n.label : n \in g.nodes}

GraphOK(g) ==
    /\ IsFiniteSet(g.nodes)
    /\ \A n \in g.nodes : n.refs # {} /\ n.refs \subseteq Units
    /\ \A e \in g.edges : {e.source, e.target} \subseteq Labels(g) /\ e.weight > 0

LEMMA NoGraphOK == GraphOK(NoGraph)
BY FS_EmptySet DEF GraphOK, NoGraph

\* The deterministic graph stands on the units it was built from.
LEMMA CoMentionOK ==
    ASSUME NEW snap, snap \subseteq Units
    PROVE  GraphOK(CoMention(snap))
<1> DEFINE both(v, w) == {u \in snap : {v, w} \subseteq Says[u]}
           said == UNION {Says[u] : u \in snap}
           node(w) == [label |-> w, refs |-> {u \in snap : w \in Says[u]}]
           edge(p) == [source |-> p[1], target |-> p[2], weight |-> Cardinality(both(p[1], p[2]))]
           pairs == {q \in said \X said : Place(q[1]) < Place(q[2]) /\ both(q[1], q[2]) # {}}
           nodes == {node(w) : w \in said}
           edges == {edge(p) : p \in pairs}
<1>1. CoMention(snap) = [nodes |-> nodes, edges |-> edges]
  BY DEF CoMention
<1>2. IsFiniteSet(nodes)
  <2>1. said \subseteq Vocabulary
    BY CorpusAssumption
  <2>2. IsFiniteSet(said)
    BY <2>1, CorpusAssumption, FS_Subset
  <2> PICK f : f = [w \in said |-> node(w)]
    OBVIOUS
  <2>3. nodes = Image(f, said) /\ OnDomain(f, said)
    BY DEF Image, OnDomain
  <2> HIDE DEF nodes, said
  <2> QED BY <2>2, <2>3, FiniteImage
<1>3. ASSUME NEW w \in said PROVE node(w).refs # {} /\ node(w).refs \subseteq Units
  OBVIOUS
<1>4. {n.label : n \in nodes} = said
  <2>1. \A w \in said : node(w) \in nodes /\ node(w).label = w
    OBVIOUS
  <2>2. \A n \in nodes : n.label \in said
    OBVIOUS
  <2> HIDE DEF nodes, said, node
  <2> QED BY <2>1, <2>2
<1>5. ASSUME NEW p \in pairs
      PROVE  {edge(p).source, edge(p).target} \subseteq said /\ edge(p).weight > 0
  <2>1. p[1] \in said /\ p[2] \in said /\ both(p[1], p[2]) # {}
    OBVIOUS
  <2>2. both(p[1], p[2]) \subseteq Units
    OBVIOUS
  <2> PICK b : b = both(p[1], p[2])
    OBVIOUS
  <2>3. IsFiniteSet(b) /\ Cardinality(b) \in Nat /\ Cardinality(b) # 0
    BY <2>1, <2>2, CorpusAssumption, FS_Subset, FS_CardinalityType, FS_EmptySet
  <2> HIDE DEF pairs, said
  <2> QED BY <2>1, <2>3
<1> PICK g : g = CoMention(snap)
  OBVIOUS
<1>6. g.nodes = nodes /\ g.edges = edges
  BY <1>1
<1>7. \A n \in g.nodes : n.refs # {} /\ n.refs \subseteq Units
  BY <1>3, <1>6
<1>8. \A e \in g.edges : {e.source, e.target} \subseteq Labels(g) /\ e.weight > 0
  <2>1. Labels(g) = said
    BY <1>4, <1>6 DEF Labels
  <2> HIDE DEF pairs, said, edge
  <2> QED BY <1>5, <1>6, <2>1
<1> HIDE DEF nodes
<1> QED
  BY <1>2, <1>6, <1>7, <1>8 DEF GraphOK

\* What is kept of a model's reply does as well.
LEMMA GroundedOK ==
    ASSUME NEW snap, snap \subseteq Units, NEW reply \in GraphReplies
    PROVE  GraphOK(Grounded(reply, snap))
<1> DEFINE kept(e) == [label |-> e.label, refs |-> e.refs \cap snap]
           all == {kept(e) : e \in reply.entities}
           nodes == {n \in all : n.label # None /\ n.refs # {}}
           labels == {n.label : n \in nodes}
           edge(r) == [source |-> r.source, target |-> r.target, weight |-> Max({r.weight, 1})]
           relations == {s \in reply.relations : {s.source, s.target} \subseteq labels}
<1>1. Grounded(reply, snap) = [nodes |-> nodes, edges |-> {edge(r) : r \in relations}]
  BY DEF Grounded
<1>2. IsFiniteSet(nodes)
  <2>1. IsFiniteSet(reply.entities)
    BY ReplyAssumption
  <2> PICK f : f = [e \in reply.entities |-> kept(e)]
    OBVIOUS
  <2>2. all = Image(f, reply.entities) /\ OnDomain(f, reply.entities)
    BY DEF Image, OnDomain
  <2>3. IsFiniteSet(all)
    <3> HIDE DEF all
    <3> QED BY <2>1, <2>2, FiniteImage
  <2>4. nodes \in SUBSET all
    OBVIOUS
  <2> HIDE DEF nodes, all
  <2> QED BY <2>3, <2>4, FS_Subset
<1>3. \A n \in nodes : n.refs # {} /\ n.refs \subseteq Units
  OBVIOUS
<1>4. ASSUME NEW r \in relations
      PROVE  {edge(r).source, edge(r).target} \subseteq labels /\ edge(r).weight > 0
  <2>1. r.weight \in Int
    BY ReplyAssumption
  <2>2. Max({r.weight, 1}) > 0
    <3>1. \E x \in {r.weight, 1} : \A y \in {r.weight, 1} : x >= y
      BY <2>1
    <3>2. Max({r.weight, 1}) \in {r.weight, 1} /\ \A y \in {r.weight, 1} : Max({r.weight, 1}) >= y
      BY <3>1 DEF Max
    <3> QED BY <2>1, <3>2
  <2>3. {r.source, r.target} \subseteq labels
    OBVIOUS
  <2> HIDE DEF labels
  <2> QED BY <2>2, <2>3
<1> PICK g : g = Grounded(reply, snap)
  OBVIOUS
<1>5. g.nodes = nodes /\ g.edges = {edge(r) : r \in relations}
  BY <1>1
<1>6. \A e \in g.edges : {e.source, e.target} \subseteq Labels(g) /\ e.weight > 0
  <2>1. Labels(g) = labels
    BY <1>5 DEF Labels
  <2> HIDE DEF relations, labels, edge
  <2> QED BY <1>4, <1>5, <2>1
<1> HIDE DEF nodes
<1> QED
  BY <1>2, <1>3, <1>5, <1>6 DEF GraphOK

LEMMA GraphsFromOK ==
    ASSUME NEW snap, snap \subseteq Units, NEW g \in GraphsFrom(snap)
    PROVE  GraphOK(g)
<1>1. g = CoMention(snap) \/ \E reply \in GraphReplies : g = Grounded(reply, snap)
  BY DEF GraphsFrom
<1> QED
  BY <1>1, CoMentionOK, GroundedOK


GraphInv ==
    /\ rows \subseteq Units
    /\ GraphOK(graph)
    /\ \A t \in Threads : GraphOK(call[t].draft)

LEMMA GraphInit == ASSUME Init PROVE GraphInv
<1>1. \A t \in Threads : call[t].draft = NoGraph
  BY DEF Init, Idle
<1> QED
  BY <1>1, NoGraphOK DEF Init, GraphInv

\* The graph and the drafts change only where a graph is built.
LEMMA GraphFrame ==
    ASSUME Next
    PROVE  \/ \E t \in Threads : SaveGraph(t)
           \/ UNCHANGED graph
BY DEF Next, WriterStep, ReaderStep, Build, Ingest, Revoke, Refresh, Ask, ScanForGraph, MarkDirty, TakeLock,
       MarkClean, DistilPages, ReadBase, ClearPages, PutPage, PutIndex, DropPage, ListSurvivors, LoadGraph,
       MatchPages, FetchPage, FetchedAll, Resolve

LEMMA RowsFrame ==
    ASSUME Next
    PROVE  \/ \E t \in Writers, d \in Docs : Ingest(t, d) \/ Revoke(t, d)
           \/ UNCHANGED rows
BY DEF Next, WriterStep, ReaderStep, Build, Refresh, Ask, ScanForGraph, SaveGraph, MarkDirty, TakeLock,
       MarkClean, DistilPages, ReadBase, ClearPages, PutPage, PutIndex, DropPage, ListSurvivors, LoadGraph,
       MatchPages, FetchPage, FetchedAll, Resolve

LEMMA DraftBecomes ==
    ASSUME GraphInv, NEW t \in Threads, NEW r, Becomes(t, r), GraphOK(r.draft)
    PROVE  \A s \in Threads : GraphOK(call'[s].draft)
BY DEF Becomes, GraphInv

\* The saved graph and the drafts stay grounded.
LEMMA GraphStep == ASSUME Shape, GraphInv, [Next]_vars PROVE GraphInv'
<1>0. CASE UNCHANGED vars
  BY <1>0 DEF GraphInv, vars
<1> SUFFICES ASSUME Next PROVE GraphInv'
  BY <1>0
<1>1. rows' \subseteq Units
  BY RowsFrame DEF GraphInv, Ingest, Revoke, UnitsOf
<1>2. GraphOK(graph')
  BY GraphFrame DEF GraphInv, SaveGraph
<1>3. \A t \in Threads : GraphOK(call[t].draft)
  BY DEF GraphInv
<1>4. \A g \in GraphsFrom(rows) : GraphOK(g)
  BY GraphsFromOK DEF GraphInv
<1>5. \A pc, op, doc, query : Started(pc, op, doc, query).draft = NoGraph
  BY DEF Started
<1>10. \A s \in Threads : GraphOK(call'[s].draft)
  <2>1. ASSUME NEW t \in Writers, WriterStep(t)
        PROVE  \A s \in Threads : GraphOK(call'[s].draft)
    <3>0. t \in Threads
      BY DEF Threads
    <3>1. ASSUME NEW d \in Docs, Ingest(t, d) PROVE \A s \in Threads : GraphOK(call'[s].draft)
      BY <3>0, <3>1, <1>5, NoGraphOK, DraftBecomes, BeginSteps
    <3>2. ASSUME NEW d \in Docs, Revoke(t, d) PROVE \A s \in Threads : GraphOK(call'[s].draft)
      BY <3>0, <3>2, <1>5, NoGraphOK, DraftBecomes, BeginSteps
    <3>3. ASSUME Refresh(t) PROVE \A s \in Threads : GraphOK(call'[s].draft)
      BY <3>0, <3>3, <1>5, NoGraphOK, DraftBecomes, BeginSteps
    <3>4. ASSUME MarkDirty(t) PROVE \A s \in Threads : GraphOK(call'[s].draft)
      BY <3>0, <3>4, <1>3, DraftBecomes, MarkDirtyMakes
    <3>5. ASSUME DistilPages(t) PROVE \A s \in Threads : GraphOK(call'[s].draft)
      BY <3>0, <3>5, <1>3, DraftBecomes, DistilPagesMakes
    <3>6. ASSUME ReadBase(t) PROVE \A s \in Threads : GraphOK(call'[s].draft)
      BY <3>0, <3>6, <1>3, DraftBecomes, ReadBaseMakes
    <3>7. ASSUME ClearPages(t) PROVE \A s \in Threads : GraphOK(call'[s].draft)
      BY <3>0, <3>7, <1>3, DraftBecomes, ClearPagesMakes
    <3>8. ASSUME PutPage(t) PROVE \A s \in Threads : GraphOK(call'[s].draft)
      BY <3>0, <3>8, <1>3, DraftBecomes, PutPageMakes
    <3>9. ASSUME PutIndex(t) PROVE \A s \in Threads : GraphOK(call'[s].draft)
      BY <3>0, <3>9, <1>5, NoGraphOK, DraftBecomes, PutIndexMakes
    <3>10. ASSUME DropPage(t) PROVE \A s \in Threads : GraphOK(call'[s].draft)
      BY <3>0, <3>10, <1>3, DraftBecomes, DropPageMakes
    <3>11. ASSUME ListSurvivors(t) PROVE \A s \in Threads : GraphOK(call'[s].draft)
      BY <3>0, <3>11, <1>3, DraftBecomes, ListSurvivorsMakes
    <3> QED
      BY <2>1, <3>1, <3>2, <3>3, <3>4, <3>5, <3>6, <3>7, <3>8, <3>9, <3>10, <3>11 DEF WriterStep
  <2>2. ASSUME NEW t \in Readers, ReaderStep(t)
        PROVE  \A s \in Threads : GraphOK(call'[s].draft)
    <3>0. t \in Threads
      BY DEF Threads
    <3>1. ASSUME NEW q, NEW op, Ask(t, op, q) PROVE \A s \in Threads : GraphOK(call'[s].draft)
      BY <3>0, <3>1, <1>5, NoGraphOK, DraftBecomes, BeginSteps
    <3>2. ASSUME TakeLock(t) PROVE \A s \in Threads : GraphOK(call'[s].draft)
      BY <3>0, <3>2, <1>3, DraftBecomes, TakeLockMakes
    <3>3. ASSUME LoadGraph(t) PROVE \A s \in Threads : GraphOK(call'[s].draft)
      BY <3>0, <3>3, <1>3, DraftBecomes, LoadGraphMakes
    <3>4. ASSUME MatchPages(t) PROVE \A s \in Threads : GraphOK(call'[s].draft)
      BY <3>0, <3>4, <1>3, DraftBecomes, MatchPagesMakes
    <3>5. ASSUME FetchPage(t) PROVE \A s \in Threads : GraphOK(call'[s].draft)
      BY <3>0, <3>5, <1>3, DraftBecomes, FetchPageMakes
    <3>6. ASSUME FetchedAll(t) PROVE \A s \in Threads : GraphOK(call'[s].draft)
      BY <3>0, <3>6, <1>3, DraftBecomes, FetchedAllMakes
    <3>7. ASSUME Resolve(t) PROVE \A s \in Threads : GraphOK(call'[s].draft)
      BY <3>0, <3>7, NoGraphOK, DraftBecomes, ResolveMakes
    <3> QED
      BY <2>2, <3>1, <3>2, <3>3, <3>4, <3>5, <3>6, <3>7 DEF ReaderStep
  <2>3. ASSUME NEW t \in Threads, Build(t)
        PROVE  \A s \in Threads : GraphOK(call'[s].draft)
    <3>0. t \in Threads
      BY DEF Threads
    <3>1. ASSUME ScanForGraph(t) PROVE \A s \in Threads : GraphOK(call'[s].draft)
      BY <3>0, <3>1, <1>4, DraftBecomes, ScanForGraphMakes
    <3>2. ASSUME SaveGraph(t) PROVE \A s \in Threads : GraphOK(call'[s].draft)
      BY <3>0, <3>2, NoGraphOK, DraftBecomes, SaveGraphMakes
    <3>3. ASSUME MarkClean(t) PROVE \A s \in Threads : GraphOK(call'[s].draft)
      BY <3>0, <3>3, <1>3, DraftBecomes, MarkCleanMakes
    <3> QED
      BY <2>3, <3>1, <3>2, <3>3 DEF Build
  <2> QED
    BY <2>1, <2>2, <2>3 DEF Next
<1> QED
  BY <1>1, <1>2, <1>10 DEF GraphInv

\* graph/distill.py: whatever the model replies, and whoever rebuilds the graph beside
\* whom, every node of the saved graph stands on units, every edge joins two of its nodes.
THEOREM GraphStaysGrounded == Spec => []GraphGrounded
<1>1. Spec => [](Shape /\ GraphInv)
  BY ShapeInit, ShapeStep, GraphInit, GraphStep, PTL DEF Spec
<1>2. GraphInv => GraphGrounded
  BY DEF GraphInv, GraphOK, GraphGrounded, Labels
<1> QED
  BY <1>1, <1>2, PTL


-----------------------------------------------------------------------------
(* The pages *)

\* What may be written: pages of known ids that name units of the corpus.
PageOK(p) == p.id \in PageIds /\ p.refs \subseteq Units

TodoOK(s) == \E S : s \in Seq(S) /\ \A p \in S : PageOK(p)

LEMMA EmptyTodo == TodoOK(<<>>)
<1> PICK S : S = {}
  OBVIOUS
<1>1. <<>> \in Seq(S) /\ \A p \in S : PageOK(p)
  OBVIOUS
<1> QED BY <1>1, Zenon DEF TodoOK

\* What is left to write is still fit to be written.
LEMMA TailTodo ==
    ASSUME NEW s, TodoOK(s), s # <<>>
    PROVE  TodoOK(Tail(s)) /\ PageOK(Head(s))
<1>1. PICK S : s \in Seq(S) /\ \A p \in S : PageOK(p)
  BY DEF TodoOK
<1>2. Tail(s) \in Seq(S) /\ Head(s) \in S
  BY <1>1
<1> QED BY <1>1, <1>2 DEF TodoOK

\* The deterministic pages are fit to be written.
LEMMA OwnPagesOK ==
    ASSUME NEW snap, snap \subseteq Units, NEW docs, docs \subseteq Docs
    PROVE  TodoOK(SetToSeq({DeterministicPage(d, snap) : d \in docs}))
<1> DEFINE S == {DeterministicPage(d, snap) : d \in docs}
<1>1. IsFiniteSet(S)
  <2>1. IsFiniteSet(docs)
    BY CorpusAssumption, FS_Subset
  <2> PICK f : f = [d \in docs |-> DeterministicPage(d, snap)]
    OBVIOUS
  <2>2. S = Image(f, docs) /\ OnDomain(f, docs)
    BY DEF Image, OnDomain
  <2> HIDE DEF S
  <2> QED BY <2>1, <2>2, FiniteImage
<1>2. \A p \in S : PageOK(p)
  <2> SUFFICES ASSUME NEW d \in docs PROVE PageOK(DeterministicPage(d, snap))
    OBVIOUS
  <2>1. PageOf[d] \in PageIds
    BY CorpusAssumption
  <2> QED BY <2>1 DEF PageOK, DeterministicPage, UnitsOf
<1> HIDE DEF S
<1>3. Cardinality(S) \in Nat /\ ExistsBijection(1..Cardinality(S), S)
  BY <1>1, FS_CardinalityType
<1>4. \E f \in [1..Cardinality(S) -> S] : IsInjective(f)
  BY <1>3 DEF ExistsBijection, Bijection, Injection, Surjection
<1>5. SetToSeq(S) \in [1..Cardinality(S) -> S]
  BY <1>4 DEF SetToSeq
<1>6. SetToSeq(S) \in Seq(S)
  BY <1>3, <1>5
<1> QED
  BY <1>2, <1>6 DEF TodoOK, S

\* What is kept of a model's pages is fit to be written.
LEMMA SanitisedOK ==
    ASSUME NEW snap, snap \subseteq Units, NEW reply \in PageReplies
    PROVE  TodoOK(Sanitised(reply, snap))
<1> DEFINE T == ToSet(reply)
           Named == {p \in T : p.id # None}
           named == Within(reply, Named)
           first == {i \in DOMAIN named : \A j \in 1..(i - 1) : named[j].id # named[i].id}
           places == [i \in DOMAIN named |-> i]
           fresh == Within(places, first)
           cut(p) == [p EXCEPT !.refs = @ \cap snap]
           S == {cut(p) : p \in Named}
<1>1. Sanitised(reply, snap) = [i \in DOMAIN fresh |-> cut(named[fresh[i]])]
  BY DEF Sanitised
<1>2. reply \in Seq(T)
  BY ReplyAssumption
<1>3. named \in Seq(T) /\ Elements(named) \subseteq Named
  <2> HIDE DEF T, Named
  <2> QED BY <1>2, WithinIs
<1>4. places \in Seq(DOMAIN named)
  <2> HIDE DEF named
  <2>1. Len(named) \in Nat /\ DOMAIN named = 1..Len(named)
    BY <1>3
  <2> QED BY <2>1
<1>5. fresh \in Seq(DOMAIN named)
  <2> HIDE DEF named, places, first
  <2> QED BY <1>4, WithinIs
<1>6. ASSUME NEW i \in DOMAIN fresh PROVE cut(named[fresh[i]]) \in S
  <2> HIDE DEF fresh, cut
  <2>1. fresh[i] \in DOMAIN named
    BY <1>5
  <2>2. named[fresh[i]] \in Named
    BY <1>3, <2>1 DEF Elements
  <2> QED BY <2>2
<1>7. Sanitised(reply, snap) \in Seq(S)
  <2> HIDE DEF fresh, S, cut
  <2>1. Len(fresh) \in Nat /\ DOMAIN fresh = 1..Len(fresh)
    BY <1>5
  <2> QED BY <1>1, <1>6, <2>1
<1>8. ASSUME NEW p \in Named PROVE PageOK(cut(p))
  <2>1. /\ p = [id |-> p.id, words |-> p.words, links |-> p.links, refs |-> p.refs]
        /\ p.id \in PageIds
    BY ReplyAssumption
  <2>2. cut(p).id = p.id /\ cut(p).refs = p.refs \cap snap
    BY <2>1
  <2> HIDE DEF cut
  <2> QED BY <2>1, <2>2 DEF PageOK
<1>9. \A p \in S : PageOK(p)
  BY <1>8
<1> HIDE DEF S
<1> QED
  BY <1>7, <1>9 DEF TodoOK

LEMMA PagesFromOK ==
    ASSUME NEW snap, snap \subseteq Units, NEW docs, docs \subseteq Docs, NEW todo \in PagesFrom(snap, docs)
    PROVE  TodoOK(todo)
<1>1. \/ todo = SetToSeq({DeterministicPage(d, snap) : d \in docs})
      \/ \E reply \in PageReplies : todo = Sanitised(reply, snap)
  BY DEF PagesFrom
<1> QED
  BY <1>1, OwnPagesOK, SanitisedOK

LEMMA PutIs ==
    ASSUME NEW f, NEW k, NEW v
    PROVE  /\ DOMAIN Put(f, k, v) = DOMAIN f \cup {k}
           /\ Put(f, k, v)[k] = v
           /\ \A x \in DOMAIN f : x # k => Put(f, k, v)[x] = f[x]
BY DEF Put

PagesInv ==
    /\ \A t \in Threads : /\ TodoOK(call[t].todo)
                          /\ call[t].op \in {"ingest", "revoke"} => call[t].doc \in Docs
    /\ \A f \in DOMAIN pages : PageOK(pages[f])

LEMMA PagesInit == ASSUME Init PROVE PagesInv
<1>1. \A t \in Threads : call[t].todo = <<>> /\ call[t].op = "none"
  BY DEF Init, Idle
<1>2. DOMAIN pages = {}
  BY DEF Init
<1> QED
  BY <1>1, <1>2, EmptyTodo DEF PagesInv

LEMMA PagesFrame ==
    ASSUME Next
    PROVE  \/ \E t \in Writers : ClearPages(t) \/ PutPage(t) \/ DropPage(t)
           \/ UNCHANGED pages
BY DEF Next, WriterStep, ReaderStep, Build, Ingest, Revoke, Refresh, Ask, ScanForGraph, SaveGraph, MarkDirty,
       TakeLock, MarkClean, DistilPages, ReadBase, PutIndex, ListSurvivors, LoadGraph,
       MatchPages, FetchPage, FetchedAll, Resolve

CallOK(c) == TodoOK(c.todo) /\ (c.op \in {"ingest", "revoke"} => c.doc \in Docs)

LEMMA CallBecomes ==
    ASSUME PagesInv, NEW t \in Threads, NEW r, Becomes(t, r), CallOK(r)
    PROVE  \A s \in Threads : CallOK(call'[s])
BY DEF Becomes, PagesInv, CallOK

\* The page files name known ids and units of the corpus.
LEMMA PagesStep == ASSUME Shape, GraphInv, PagesInv, [Next]_vars PROVE PagesInv'
<1>0. CASE UNCHANGED vars
  BY <1>0 DEF PagesInv, vars, PageOK
<1> SUFFICES ASSUME Next PROVE PagesInv'
  BY <1>0
<1>1. \A t \in Threads : CallOK(call[t])
  BY DEF PagesInv, CallOK
<1>2. ASSUME NEW op, NEW doc, NEW pc, NEW query, op \in {"ingest", "revoke"} => doc \in Docs
      PROVE  CallOK(Started(pc, op, doc, query))
  BY <1>2, EmptyTodo DEF CallOK, Started
<1>3. ASSUME NEW t \in Threads PROVE Scope(t) \subseteq Units /\ ScopeDocs(t) \subseteq Docs
  <2>1. rows \subseteq Units /\ \A u \in rows : DocOf[u] \in Docs
    BY CorpusAssumption DEF GraphInv
  <2>2. call[t].op = "ingest" => call[t].doc \in Docs
    BY <1>1 DEF CallOK
  <2> QED BY <2>1, <2>2 DEF Scope, ScopeDocs, UnitsOf
<1>4. ASSUME NEW t \in Threads, NEW r, r.todo = call[t].todo, r.op = call[t].op, r.doc = call[t].doc
      PROVE  CallOK(r)
  BY <1>1, <1>4 DEF CallOK
<1>10. \A s \in Threads : CallOK(call'[s])
  <2>1. ASSUME NEW t \in Writers, WriterStep(t)
        PROVE  \A s \in Threads : CallOK(call'[s])
    <3>0. t \in Threads
      BY DEF Threads
    <3>1. ASSUME NEW d \in Docs, Ingest(t, d) PROVE \A s \in Threads : CallOK(call'[s])
      BY <3>0, <3>1, <1>2, CallBecomes, BeginSteps
    <3>2. ASSUME NEW d \in Docs, Revoke(t, d) PROVE \A s \in Threads : CallOK(call'[s])
      BY <3>0, <3>2, <1>2, CallBecomes, BeginSteps
    <3>3. ASSUME Refresh(t) PROVE \A s \in Threads : CallOK(call'[s])
      BY <3>0, <3>3, <1>2, CallBecomes, BeginSteps
    <3>4. ASSUME MarkDirty(t) PROVE \A s \in Threads : CallOK(call'[s])
      BY <3>0, <3>4, <1>4, CallBecomes, MarkDirtyMakes
    <3>5. ASSUME DistilPages(t) PROVE \A s \in Threads : CallOK(call'[s])
      BY <3>0, <3>5, <1>1, <1>3, PagesFromOK, CallBecomes, DistilPagesMakes DEF CallOK
    <3>6. ASSUME ReadBase(t) PROVE \A s \in Threads : CallOK(call'[s])
      BY <3>0, <3>6, <1>4, CallBecomes, ReadBaseMakes
    <3>7. ASSUME ClearPages(t) PROVE \A s \in Threads : CallOK(call'[s])
      BY <3>0, <3>7, <1>4, CallBecomes, ClearPagesMakes
    <3>8. ASSUME PutPage(t) PROVE \A s \in Threads : CallOK(call'[s])
      <4>1. TodoOK(call[t].todo) /\ call[t].todo # <<>>
        BY <3>0, <3>8, <1>1 DEF CallOK, PutPage
      <4>2. TodoOK(Tail(call[t].todo))
        BY <4>1, TailTodo
      <4>3. PICK r : Becomes(t, r) /\ r.todo = Tail(call[t].todo) /\ r.op = call[t].op /\ r.doc = call[t].doc
        BY <3>0, <3>8, PutPageMakes
      <4>4. CallOK(r)
        BY <3>0, <1>1, <4>2, <4>3 DEF CallOK
      <4> QED BY <3>0, <4>3, <4>4, CallBecomes
    <3>9. ASSUME PutIndex(t) PROVE \A s \in Threads : CallOK(call'[s])
      BY <3>0, <3>9, <1>2, CallBecomes, PutIndexMakes
    <3>10. ASSUME DropPage(t) PROVE \A s \in Threads : CallOK(call'[s])
      BY <3>0, <3>10, <1>4, CallBecomes, DropPageMakes
    <3>11. ASSUME ListSurvivors(t) PROVE \A s \in Threads : CallOK(call'[s])
      BY <3>0, <3>11, <1>4, CallBecomes, ListSurvivorsMakes
    <3> QED
      BY <2>1, <3>1, <3>2, <3>3, <3>4, <3>5, <3>6, <3>7, <3>8, <3>9, <3>10, <3>11 DEF WriterStep
  <2>2. ASSUME NEW t \in Readers, ReaderStep(t)
        PROVE  \A s \in Threads : CallOK(call'[s])
    <3>0. t \in Threads
      BY DEF Threads
    <3>1. ASSUME NEW q, NEW op \in {"graph", "wiki"}, Ask(t, op, q) PROVE \A s \in Threads : CallOK(call'[s])
      BY <3>0, <3>1, <1>2, CallBecomes, BeginSteps
    <3>2. ASSUME TakeLock(t) PROVE \A s \in Threads : CallOK(call'[s])
      BY <3>0, <3>2, <1>4, CallBecomes, TakeLockMakes
    <3>3. ASSUME LoadGraph(t) PROVE \A s \in Threads : CallOK(call'[s])
      BY <3>0, <3>3, <1>4, CallBecomes, LoadGraphMakes
    <3>4. ASSUME MatchPages(t) PROVE \A s \in Threads : CallOK(call'[s])
      BY <3>0, <3>4, <1>4, CallBecomes, MatchPagesMakes
    <3>5. ASSUME FetchPage(t) PROVE \A s \in Threads : CallOK(call'[s])
      BY <3>0, <3>5, <1>4, CallBecomes, FetchPageMakes
    <3>6. ASSUME FetchedAll(t) PROVE \A s \in Threads : CallOK(call'[s])
      BY <3>0, <3>6, <1>4, CallBecomes, FetchedAllMakes
    <3>7. ASSUME Resolve(t) PROVE \A s \in Threads : CallOK(call'[s])
      BY <3>0, <3>7, EmptyTodo, CallBecomes, ResolveMakes DEF CallOK
    <3> QED
      BY <2>2, <3>1, <3>2, <3>3, <3>4, <3>5, <3>6, <3>7 DEF ReaderStep
  <2>3. ASSUME NEW t \in Threads, Build(t)
        PROVE  \A s \in Threads : CallOK(call'[s])
    <3>0. t \in Threads
      BY DEF Threads
    <3>1. ASSUME ScanForGraph(t) PROVE \A s \in Threads : CallOK(call'[s])
      BY <3>0, <3>1, <1>4, CallBecomes, ScanForGraphMakes
    <3>2. ASSUME SaveGraph(t) PROVE \A s \in Threads : CallOK(call'[s])
      BY <3>0, <3>2, <1>4, CallBecomes, SaveGraphMakes
    <3>3. ASSUME MarkClean(t) PROVE \A s \in Threads : CallOK(call'[s])
      BY <3>0, <3>3, <1>4, CallBecomes, MarkCleanMakes
    <3> QED
      BY <2>3, <3>1, <3>2, <3>3 DEF Build
  <2> QED
    BY <2>1, <2>2, <2>3 DEF Next
<1>11. \A f \in DOMAIN pages' : PageOK(pages'[f])
  <2>0. \A f \in DOMAIN pages : PageOK(pages[f])
    BY DEF PagesInv
  <2>1. ASSUME NEW t \in Writers, ClearPages(t) PROVE \A f \in DOMAIN pages' : PageOK(pages'[f])
    BY <2>1 DEF ClearPages
  <2>2. ASSUME NEW t \in Writers, PutPage(t) PROVE \A f \in DOMAIN pages' : PageOK(pages'[f])
    <3> PICK page : page = Head(call[t].todo)
      OBVIOUS
    <3>1. pages' = Put(pages, Slug[page.id], page)
      BY <2>2 DEF PutPage
    <3>2. PageOK(page)
      BY <2>2, TailTodo DEF PutPage, PagesInv, Threads
    <3>3. \A f \in DOMAIN pages' : pages'[f] = page \/ (f \in DOMAIN pages /\ pages'[f] = pages[f])
      BY <3>1 DEF Put
    <3> QED BY <2>0, <3>2, <3>3
  <2>3. ASSUME NEW t \in Writers, DropPage(t) PROVE \A f \in DOMAIN pages' : PageOK(pages'[f])
    <3>1. PICK ks : pages' = Without(pages, ks)
      BY <2>3 DEF DropPage
    <3>2. DOMAIN pages' \subseteq DOMAIN pages /\ \A f \in DOMAIN pages' : pages'[f] = pages[f]
      BY <3>1 DEF Without
    <3> QED BY <2>0, <3>2
  <2> QED BY <2>0, <2>1, <2>2, <2>3, PagesFrame
<1>12. PagesInv' <=> /\ \A s \in Threads : CallOK(call'[s])
                     /\ \A f \in DOMAIN pages' : PageOK(pages'[f])
  BY DEF PagesInv, CallOK, PageOK
<1> QED
  BY <1>10, <1>11, <1>12


-----------------------------------------------------------------------------
(* The index leads to the pages *)

SoleWriter == \E w : Writers = {w}

\* No two pages share a file, and removing one's file removes no other's.
DistinctFiles ==
    \A p, q \in PageIds : p # q => Slug[p] # Slug[q] /\ Slug[q] \notin Under[Slug[p]]

Leads(ix, pg, p) ==
    /\ p \in PageIds
    /\ Slug[p] \in DOMAIN pg
    /\ pg[Slug[p]].id = p
    /\ IndexEntry(pg[Slug[p]]) = ix[p]

Leading(ix, pg, S) == \A p \in S : Leads(ix, pg, p)

\* What a writer whose call is c has made of index and pages so far.
WriterAt(c, ix, pg) ==
    /\ c.pc \notin {"pages", "list"} => Leading(ix, pg, DOMAIN ix)
    /\ c.pc = "list" => Leading(ix, pg, DOMAIN ix \ {PageOf[c.doc]})
    /\ c.pc = "pages" => Leading(c.base, pg, DOMAIN c.base)
    /\ c.pc # "pages" => DOMAIN c.base = {}
    /\ c.pc = "drop" => c.op = "revoke"

LeadInv == \A w \in Writers : WriterAt(call[w], index, pages)

LEMMA LeadInit == ASSUME Init PROVE LeadInv
<1>1. \A t \in Threads : call[t].pc = "idle" /\ DOMAIN call[t].base = {}
  BY DEF Init, Idle
<1>2. DOMAIN index = {}
  BY DEF Init
<1> QED
  BY <1>1, <1>2 DEF LeadInv, WriterAt, Leading, Threads

LEMMA LeadBecomes ==
    ASSUME SoleWriter, NEW t \in Writers, NEW r, Becomes(t, r), WriterAt(r, index', pages')
    PROVE  LeadInv'
<1>1. \A w \in Writers : w = t
  BY DEF SoleWriter
<1>2. call'[t] = r
  BY DEF Becomes, Threads
<1> QED
  BY <1>1, <1>2 DEF LeadInv

LEMMA LeadOther ==
    ASSUME LeadInv, NEW t \in Readers, NEW r, Becomes(t, r), index' = index, pages' = pages
    PROVE  LeadInv'
<1>1. \A w \in Writers : call'[w] = call[w]
  BY KnowledgeAssumption DEF Becomes, Threads
<1> QED
  BY <1>1 DEF LeadInv

\* A call that goes on to r, with index and pages as they were.
LEMMA LeadKeeps ==
    ASSUME LeadInv, NEW t \in Writers, NEW r,
           call[t].pc \notin {"pages", "list"}, r.pc \notin {"pages", "list"}, DOMAIN r.base = {},
           r.pc = "drop" => r.op = "revoke"
    PROVE  WriterAt(r, index, pages)
BY DEF LeadInv, WriterAt

\* Beside one writer, index and pages stay with one another; while it rewrites pages the
\* index it is about to put does.
LEMMA LeadStep == ASSUME SoleWriter, DistinctFiles, Shape, PagesInv, LeadInv, [Next]_vars PROVE LeadInv'
<1>0. CASE UNCHANGED vars
  BY <1>0 DEF LeadInv, vars
<1> SUFFICES ASSUME Next PROVE LeadInv'
  BY <1>0
<1>a. ASSUME NEW pc, NEW op, NEW doc, NEW query
      PROVE  /\ Started(pc, op, doc, query).pc = pc /\ Started(pc, op, doc, query).op = op
             /\ DOMAIN Started(pc, op, doc, query).base = {}
  BY DEF Started
<1>b. ASSUME NEW t \in Writers
      PROVE  call[t].pc # "pages" => DOMAIN call[t].base = {}
  BY DEF LeadInv, WriterAt
<1>1. ASSUME NEW t \in Writers, WriterStep(t)
      PROVE  LeadInv'
  <2>0. t \in Threads
    BY DEF Threads
  <2>1. ASSUME NEW d \in Docs, Ingest(t, d) PROVE LeadInv'
    <3>1. Becomes(t, Started("mark", "ingest", d, {}))
      BY <2>0, <2>1, BeginSteps
    <3>2. call[t].pc = "idle" /\ index' = index /\ pages' = pages
      BY <2>1 DEF Ingest, Begin, At
    <3>3. WriterAt(Started("mark", "ingest", d, {}), index, pages)
      BY <3>2, <1>a, LeadKeeps
    <3> QED BY <3>1, <3>2, <3>3, LeadBecomes
  <2>2. ASSUME NEW d \in Docs, Revoke(t, d) PROVE LeadInv'
    <3>1. Becomes(t, Started("scan", "revoke", d, {}))
      BY <2>0, <2>2, BeginSteps
    <3>2. call[t].pc = "idle" /\ index' = index /\ pages' = pages
      BY <2>2 DEF Revoke, Begin, At
    <3>3. WriterAt(Started("scan", "revoke", d, {}), index, pages)
      BY <3>2, <1>a, LeadKeeps
    <3> QED BY <3>1, <3>2, <3>3, LeadBecomes
  <2>3. ASSUME Refresh(t) PROVE LeadInv'
    <3>1. Becomes(t, Started("scan", "refresh", None, {}))
      BY <2>0, <2>3, BeginSteps
    <3>2. call[t].pc = "idle" /\ index' = index /\ pages' = pages
      BY <2>3 DEF Refresh, Begin, At
    <3>3. WriterAt(Started("scan", "refresh", None, {}), index, pages)
      BY <3>2, <1>a, LeadKeeps
    <3> QED BY <3>1, <3>2, <3>3, LeadBecomes
  <2>4. ASSUME MarkDirty(t) PROVE LeadInv'
    <3>1. PICK r : /\ Becomes(t, r) /\ r.base = call[t].base /\ r.op = call[t].op
                   /\ r.pc \notin {"pages", "list"} /\ (r.pc = "drop" => r.op = "revoke")
      BY <2>0, <2>4, MarkDirtyMakes
    <3>2. call[t].pc \notin {"pages", "list"} /\ index' = index /\ pages' = pages
      BY <2>4 DEF MarkDirty, At
    <3>3. WriterAt(r, index, pages)
      BY <3>1, <3>2, <1>b, LeadKeeps
    <3> QED BY <3>1, <3>2, <3>3, LeadBecomes
  <2>5. ASSUME DistilPages(t) PROVE LeadInv'
    <3>1. PICK r : /\ Becomes(t, r) /\ r.base = call[t].base /\ r.op = call[t].op
                   /\ r.pc \notin {"pages", "list"} /\ (r.pc = "drop" => r.op = "revoke")
      BY <2>0, <2>5, DistilPagesMakes
    <3>2. call[t].pc \notin {"pages", "list"} /\ index' = index /\ pages' = pages
      BY <2>5 DEF DistilPages, At
    <3>3. WriterAt(r, index, pages)
      BY <3>1, <3>2, <1>b, LeadKeeps
    <3> QED BY <3>1, <3>2, <3>3, LeadBecomes
  <2>6. ASSUME ReadBase(t) PROVE LeadInv'
    <3>1. PICK r : Becomes(t, r) /\ r.base = index /\ r.pc = "pages"
      BY <2>0, <2>6, ReadBaseMakes
    <3>2. call[t].pc = "base" /\ index' = index /\ pages' = pages
      BY <2>6 DEF ReadBase, At
    <3>3. WriterAt(r, index, pages)
      BY <3>1, <3>2 DEF LeadInv, WriterAt
    <3> QED BY <3>1, <3>2, <3>3, LeadBecomes
  <2>7. ASSUME ClearPages(t) PROVE LeadInv'
    <3>1. PICK r : Becomes(t, r) /\ r.base = call[t].base /\ r.pc = "pages"
      BY <2>0, <2>7, ClearPagesMakes
    <3>2. call[t].pc = "clear"
      BY <2>7 DEF ClearPages, At
    <3>3. DOMAIN r.base = {}
      BY <3>1, <3>2, <1>b
    <3>4. WriterAt(r, index', pages')
      BY <3>1, <3>3 DEF WriterAt, Leading
    <3> QED BY <3>1, <3>4, LeadBecomes
  <2>8. ASSUME PutPage(t) PROVE LeadInv'
    <3> PICK c : c = call[t]
      OBVIOUS
    <3> PICK page : page = Head(c.todo)
      OBVIOUS
    <3>1. PICK r : Becomes(t, r) /\ r.base = Put(c.base, page.id, IndexEntry(page)) /\ r.pc = c.pc
      BY <2>0, <2>8, PutPageMakes
    <3>2. c.pc = "pages" /\ pages' = Put(pages, Slug[page.id], page)
      BY <2>8 DEF PutPage, At
    <3>3. page.id \in PageIds
      BY <2>0, <2>8, TailTodo DEF PutPage, PagesInv, PageOK
    <3>4. Leading(c.base, pages, DOMAIN c.base)
      BY <3>2 DEF LeadInv, WriterAt
    <3>5. ASSUME NEW p \in DOMAIN r.base PROVE Leads(r.base, pages', p)
      <4>1. CASE p = page.id
        <5>1. r.base[p] = IndexEntry(page)
          BY <3>1, <3>5, <4>1 DEF Put
        <5>2. Slug[p] \in DOMAIN pages' /\ pages'[Slug[p]] = page
          BY <3>2, <4>1 DEF Put
        <5> QED BY <3>3, <4>1, <5>1, <5>2 DEF Leads
      <4>2. CASE p # page.id
        <5>1. p \in DOMAIN c.base /\ r.base[p] = c.base[p]
          BY <3>1, <3>5, <4>2 DEF Put
        <5>2. Leads(c.base, pages, p)
          BY <3>4, <5>1 DEF Leading
        <5>3. Slug[p] # Slug[page.id]
          BY <3>3, <4>2, <5>2 DEF DistinctFiles, Leads
        <5>4. Slug[p] \in DOMAIN pages' /\ pages'[Slug[p]] = pages[Slug[p]]
          BY <3>2, <5>2, <5>3 DEF Put, Leads
        <5> QED BY <5>1, <5>2, <5>4 DEF Leads
      <4> QED BY <4>1, <4>2
    <3>6. WriterAt(r, index', pages')
      BY <3>1, <3>2, <3>5 DEF WriterAt, Leading
    <3> QED BY <3>1, <3>6, LeadBecomes
  <2>9. ASSUME PutIndex(t) PROVE LeadInv'
    <3>1. Becomes(t, Started("idle", "none", None, {}))
      BY <2>0, <2>9, PutIndexMakes
    <3>2. call[t].pc = "pages" /\ index' = call[t].base /\ pages' = pages
      BY <2>9 DEF PutIndex, At
    <3>3. Leading(index', pages', DOMAIN index')
      BY <3>2 DEF LeadInv, WriterAt
    <3>4. WriterAt(Started("idle", "none", None, {}), index', pages')
      BY <3>3, <1>a DEF WriterAt
    <3> QED BY <3>1, <3>4, LeadBecomes
  <2>10. ASSUME DropPage(t) PROVE LeadInv'
    <3>1. PICK r : Becomes(t, r) /\ r.base = call[t].base /\ r.pc = "list" /\ r.doc = call[t].doc
      BY <2>0, <2>10, DropPageMakes
    <3> PICK own : own = PageOf[call[t].doc]
      OBVIOUS
    <3>2. call[t].pc = "drop" /\ index' = index /\ pages' = Without(pages, Under[Slug[own]])
      BY <2>10 DEF DropPage, At
    <3>3. own \in PageIds
      BY <2>0, <3>2, CorpusAssumption DEF LeadInv, WriterAt, PagesInv
    <3>4. Leading(index, pages, DOMAIN index)
      BY <3>2 DEF LeadInv, WriterAt
    <3>5. ASSUME NEW p \in DOMAIN index \ {own} PROVE Leads(index, pages', p)
      <4>1. Leads(index, pages, p)
        BY <3>4 DEF Leading
      <4>2. Slug[p] \notin Under[Slug[own]]
        BY <3>3, <4>1 DEF DistinctFiles, Leads
      <4>3. Slug[p] \in DOMAIN pages' /\ pages'[Slug[p]] = pages[Slug[p]]
        BY <3>2, <4>1, <4>2 DEF Without, Leads
      <4> QED BY <4>1, <4>3 DEF Leads
    <3>6. DOMAIN r.base = {}
      BY <3>1, <3>2, <1>b
    <3>7. WriterAt(r, index', pages')
      BY <3>1, <3>2, <3>5, <3>6 DEF WriterAt, Leading
    <3> QED BY <3>1, <3>7, LeadBecomes
  <2>11. ASSUME ListSurvivors(t) PROVE LeadInv'
    <3> PICK own : own = PageOf[call[t].doc]
      OBVIOUS
    <3>1. PICK r : Becomes(t, r) /\ r.base = Without(index, {own}) /\ r.pc = "pages"
      BY <2>0, <2>11, ListSurvivorsMakes
    <3>2. call[t].pc = "list" /\ index' = index /\ pages' = pages
      BY <2>11 DEF ListSurvivors, At
    <3>3. Leading(index, pages, DOMAIN index \ {own})
      BY <3>2 DEF LeadInv, WriterAt
    <3>4. DOMAIN r.base = DOMAIN index \ {own} /\ \A p \in DOMAIN r.base : r.base[p] = index[p]
      BY <3>1 DEF Without
    <3>5. Leading(r.base, pages, DOMAIN r.base)
      BY <3>3, <3>4 DEF Leading, Leads
    <3>6. WriterAt(r, index', pages')
      BY <3>1, <3>2, <3>5 DEF WriterAt
    <3> QED BY <3>1, <3>6, LeadBecomes
  <2> QED
    BY <1>1, <2>1, <2>2, <2>3, <2>4, <2>5, <2>6, <2>7, <2>8, <2>9, <2>10, <2>11 DEF WriterStep
<1>2. ASSUME NEW t \in Readers, ReaderStep(t)
      PROVE  LeadInv'
  <2>0. t \in Threads
    BY DEF Threads
  <2>1. ASSUME NEW q, NEW op, Ask(t, op, q) PROVE LeadInv'
    BY <2>0, <2>1, LeadOther, BeginSteps DEF Ask, Begin, Keeps
  <2>2. ASSUME TakeLock(t) PROVE LeadInv'
    BY <2>0, <2>2, LeadOther, TakeLockMakes DEF TakeLock, Begin, Keeps
  <2>3. ASSUME LoadGraph(t) PROVE LeadInv'
    BY <2>0, <2>3, LeadOther, LoadGraphMakes DEF LoadGraph, Begin, Keeps
  <2>4. ASSUME MatchPages(t) PROVE LeadInv'
    BY <2>0, <2>4, LeadOther, MatchPagesMakes DEF MatchPages, Begin, Keeps
  <2>5. ASSUME FetchPage(t) PROVE LeadInv'
    BY <2>0, <2>5, LeadOther, FetchPageMakes DEF FetchPage, Begin, Keeps
  <2>6. ASSUME FetchedAll(t) PROVE LeadInv'
    BY <2>0, <2>6, LeadOther, FetchedAllMakes DEF FetchedAll, Begin, Keeps
  <2>7. ASSUME Resolve(t) PROVE LeadInv'
    BY <2>0, <2>7, LeadOther, ResolveMakes DEF Resolve, Begin, Keeps
  <2> QED
    BY <1>2, <2>1, <2>2, <2>3, <2>4, <2>5, <2>6, <2>7 DEF ReaderStep
<1>3. ASSUME NEW t \in Readers, Build(t)
      PROVE  LeadInv'
  <2>0. t \in Threads
    BY DEF Threads
  <2>1. ASSUME ScanForGraph(t) PROVE LeadInv'
    BY <2>0, <2>1, LeadOther, ScanForGraphMakes DEF ScanForGraph, Begin, Keeps
  <2>2. ASSUME SaveGraph(t) PROVE LeadInv'
    BY <2>0, <2>2, LeadOther, SaveGraphMakes DEF SaveGraph, Begin, Keeps
  <2>3. ASSUME MarkClean(t) PROVE LeadInv'
    BY <2>0, <2>3, LeadOther, MarkCleanMakes DEF MarkClean, Begin, Keeps
  <2> QED
    BY <1>3, <2>1, <2>2, <2>3 DEF Build
<1>4. ASSUME NEW t \in Writers, Build(t)
      PROVE  LeadInv'
  <2>0. t \in Threads
    BY DEF Threads
  <2>1. ASSUME ScanForGraph(t) PROVE LeadInv'
    <3>1. PICK r : /\ Becomes(t, r) /\ r.base = call[t].base /\ r.op = call[t].op
                   /\ r.pc \notin {"pages", "list"} /\ (r.pc = "drop" => r.op = "revoke")
      BY <2>0, <2>1, ScanForGraphMakes
    <3>2. call[t].pc \notin {"pages", "list"} /\ index' = index /\ pages' = pages
      BY <2>1 DEF ScanForGraph, At
    <3>3. WriterAt(r, index, pages)
      BY <3>1, <3>2, <1>b, LeadKeeps
    <3> QED BY <3>1, <3>2, <3>3, LeadBecomes
  <2>2. ASSUME SaveGraph(t) PROVE LeadInv'
    <3>1. PICK r : /\ Becomes(t, r) /\ r.base = call[t].base /\ r.op = call[t].op
                   /\ r.pc \notin {"pages", "list"} /\ (r.pc = "drop" => r.op = "revoke")
      BY <2>0, <2>2, SaveGraphMakes
    <3>2. call[t].pc \notin {"pages", "list"} /\ index' = index /\ pages' = pages
      BY <2>2 DEF SaveGraph, At
    <3>3. WriterAt(r, index, pages)
      BY <3>1, <3>2, <1>b, LeadKeeps
    <3> QED BY <3>1, <3>2, <3>3, LeadBecomes
  <2>3. ASSUME MarkClean(t) PROVE LeadInv'
    <3>1. PICK r : /\ Becomes(t, r) /\ r.base = call[t].base /\ r.op = call[t].op
                   /\ r.pc \notin {"pages", "list"} /\ (r.pc = "drop" => r.op = "revoke")
      BY <2>0, <2>3, MarkCleanMakes
    <3>2. call[t].pc \notin {"pages", "list"} /\ index' = index /\ pages' = pages
      BY <2>3 DEF MarkClean, At
    <3>3. WriterAt(r, index, pages)
      BY <3>1, <3>2, <1>b, LeadKeeps
    <3> QED BY <3>1, <3>2, <3>3, LeadBecomes
  <2> QED
    BY <1>4, <2>1, <2>2, <2>3 DEF Build
<1> QED
  BY <1>1, <1>2, <1>3, <1>4 DEF Next, Threads

\* wiki/store.py: beside one writer, and where no two pages share a file, the light index
\* never misleads: what it says of a page is what the file under that page's name says.
THEOREM IndexLeads ==
    ASSUME SoleWriter, DistinctFiles
    PROVE  Spec => []IndexedPagesLead
<1>1. Spec => [](Shape /\ GraphInv /\ PagesInv /\ LeadInv)
  BY ShapeInit, ShapeStep, GraphInit, GraphStep, PagesInit, PagesStep, LeadInit, LeadStep, PTL DEF Spec
<1>2. LeadInv => IndexedPagesLead
  <2> SUFFICES ASSUME LeadInv, \A t \in Writers : At(t, "idle")
               PROVE  \A p \in DOMAIN index : Leads(index, pages, p)
    BY DEF IndexedPagesLead, Leads
  <2>1. PICK w : Writers = {w}
    BY DEF SoleWriter
  <2> QED BY <2>1 DEF LeadInv, WriterAt, At, Leading
<1> QED
  BY <1>1, <1>2, PTL

\* What navigates the corpus leads to what there is, page by page and node by node.
THEOREM NavigationIsGrounded ==
    ASSUME SoleWriter, DistinctFiles
    PROVE  Spec => []NavigationGrounded
BY IndexLeads, GraphStaysGrounded, PTL DEF NavigationGrounded

-----------------------------------------------------------------------------
(* What is found *)

\* The greatest element of a nonempty bounded set of numbers is one of its elements.
LEMMA MaxIs ==
    ASSUME NEW S, S # {}, S \subseteq Nat, NEW b \in Nat, \A x \in S : x <= b
    PROVE  Max(S) \in S
<1> DEFINE T == {n \in Nat : \A x \in S : x <= n}
<1>1. PICK n \in T : \A m \in T : n <= m
  <2>1. T # {} /\ T \subseteq Nat
    OBVIOUS
  <2> HIDE DEF T
  <2> QED BY <2>1, NatMin
<1>2. n \in S
  <2>1. PICK x \in S : TRUE
    OBVIOUS
  <2>2. CASE n = 0
    BY <2>1, <2>2
  <2>3. CASE n # 0
    <3>1. n - 1 \in Nat /\ n - 1 \notin T
      BY <1>1, <2>3
    <3>2. PICK y \in S : ~(y <= n - 1)
      BY <3>1
    <3> QED BY <3>2
  <2> QED BY <2>2, <2>3
<1>3. \E x \in S : \A y \in S : x >= y
  BY <1>2
<1> QED
  BY <1>3 DEF Max

LEMMA MinIs ==
    ASSUME NEW a \in Nat, NEW b \in Nat
    PROVE  Min({a, b}) \in {a, b} /\ Min({a, b}) <= a /\ Min({a, b}) <= b
<1>1. \E x \in {a, b} : \A y \in {a, b} : x <= y
  <2>1. CASE a <= b BY <2>1
  <2>2. CASE b <= a BY <2>2
  <2> QED BY <2>1, <2>2
<1> QED
  BY <1>1 DEF Min

\* A score of units of the corpus, each a number.
ScoreOK(s) == DOMAIN s \subseteq Units /\ \A u \in DOMAIN s : s[u] \in Nat

LEMMA NoScoreOK == ScoreOK(<<>>)
<1>1. DOMAIN <<>> = {}
  OBVIOUS
<1> QED
  BY <1>1 DEF ScoreOK

\* Every unit the graph scores is one of the corpus, and its score a number.
LEMMA NodeScoresOK ==
    ASSUME NEW g, GraphOK(g), NEW q
    PROVE  ScoreOK(NodeScores(g, q))
<1> DEFINE nodes == {n \in g.nodes : n.label \in q}
           At1(u) == {n \in nodes : u \in n.refs}
<1>1. \A u : IsFiniteSet(At1(u))
  <2> TAKE u
  <2>1. At1(u) \in SUBSET g.nodes /\ IsFiniteSet(g.nodes)
    BY DEF GraphOK
  <2> HIDE DEF At1, nodes
  <2> QED BY <2>1, FS_Subset
<1>2. \A u : Cardinality(At1(u)) \in Nat
  <2> TAKE u
  <2> HIDE DEF At1, nodes
  <2> QED BY <1>1, FS_CardinalityType
<1>3. UNION {n.refs : n \in nodes} \subseteq Units
  BY DEF GraphOK
<1>4. NodeScores(g, q) = [u \in UNION {n.refs : n \in nodes} |-> Cardinality(At1(u))]
  BY DEF NodeScores
<1> HIDE DEF nodes, At1
<1> QED
  BY <1>2, <1>3, <1>4 DEF ScoreOK

\* The pages that match score numbers.
LEMMA PageScoresOK ==
    ASSUME NEW ix, NEW q, IsFiniteSet(q)
    PROVE  \A p \in DOMAIN PageScores(ix, q) : PageScores(ix, q)[p] \in Nat
<1> DEFINE shared(p) == q \cap ix[p].words
           hits(p) == Cardinality(shared(p))
           matched == {p \in DOMAIN ix : hits(p) > 0}
           linked == UNION {ix[m].links : m \in matched}
           vouched(p) == {2 * hits(m) : m \in matched \cap {p}}
                         \cup {hits(m) : m \in {n \in matched : p \in ix[n].links}}
<1>1. Cardinality(q) \in Nat /\ \A p : hits(p) \in Nat /\ hits(p) <= Cardinality(q)
  <2>1. Cardinality(q) \in Nat
    BY FS_CardinalityType
  <2>2. ASSUME NEW p PROVE hits(p) \in Nat /\ hits(p) <= Cardinality(q)
    <3>1. shared(p) \in SUBSET q
      OBVIOUS
    <3> HIDE DEF shared
    <3>2. IsFiniteSet(shared(p)) /\ Cardinality(shared(p)) <= Cardinality(q)
      BY <3>1, FS_Subset
    <3> QED BY <3>2, FS_CardinalityType
  <2> HIDE DEF hits
  <2> QED BY <2>1, <2>2
<1> DEFINE b == 2 * Cardinality(q)
<1>2. ASSUME NEW p \in matched \cup linked PROVE Max(vouched(p)) \in Nat
  <2> HIDE DEF hits
  <2>1. vouched(p) # {}
    OBVIOUS
  <2>2. vouched(p) \subseteq Nat
    BY <1>1
  <2>3. b \in Nat /\ \A x \in vouched(p) : x <= b
    BY <1>1
  <2> HIDE DEF vouched, b
  <2>4. Max(vouched(p)) \in vouched(p)
    BY <2>1, <2>2, <2>3, MaxIs
  <2> QED BY <2>2, <2>4
<1>3. PageScores(ix, q) = [p \in matched \cup linked |-> Max(vouched(p))]
  BY DEF PageScores
<1> HIDE DEF vouched, matched, linked
<1> QED
  BY <1>2, <1>3

LEMMA PageRefsOK == ASSUME PagesInv, NEW p PROVE PageRefs(p) \subseteq Units
BY DEF PagesInv, PageRefs, PageOK

\* Fetching one more page keeps the scores in order.
LEMMA BestOK ==
    ASSUME NEW t \in Threads, ScoreOK(call[t].score), NEW p \in DOMAIN call[t].base,
           call[t].base[p] \in Nat, NEW page, page \subseteq Units
    PROVE  ScoreOK(BestWith(t, p, page))
<1> DEFINE score == call[t].score
           v == call[t].base[p]
           known(u) == {score[w] : w \in {u} \cap DOMAIN score} \cup {v : w \in {u} \cap page}
<1>1. ASSUME NEW u \in page \cup DOMAIN score PROVE Max(known(u)) \in Nat
  <2>1. known(u) # {}
    OBVIOUS
  <2>2. known(u) \subseteq Nat
    BY DEF ScoreOK
  <2>3. \E b \in Nat : \A x \in known(u) : x <= b
    <3>1. CASE u \in DOMAIN score
      <4>1. score[u] \in Nat /\ v \in Nat
        BY <3>1 DEF ScoreOK
      <4>2. known(u) \subseteq {score[u], v}
        OBVIOUS
      <4>3. score[u] + v \in Nat /\ \A x \in {score[u], v} : x <= score[u] + v
        BY <4>1
      <4> HIDE DEF known
      <4> QED BY <4>2, <4>3
    <3>2. CASE u \notin DOMAIN score
      <4>1. known(u) \subseteq {v}
        BY <3>2
      <4>2. v \in Nat
        OBVIOUS
      <4> HIDE DEF known, v
      <4> QED BY <4>1, <4>2
    <3> QED BY <3>1, <3>2
  <2> HIDE DEF known
  <2>4. Max(known(u)) \in known(u)
    BY <2>1, <2>2, <2>3, MaxIs
  <2> QED BY <2>2, <2>4
<1>2. BestWith(t, p, page) = [u \in page \cup DOMAIN score |-> Max(known(u))]
  BY DEF BestWith
<1> HIDE DEF known
<1> QED
  BY <1>1, <1>2 DEF ScoreOK

\* Ranking and cutting give nothing that was not to be ranked.
LEMMA RankedIn ==
    ASSUME NEW units, units \subseteq Units, NEW score, \A u \in units : score[u] \in Nat
    PROVE  ToSet(Ranked(score, units)) \subseteq units
<1> DEFINE R == {e \in units \X units : \/ score[e[1]] > score[e[2]]
                                        \/ score[e[1]] = score[e[2]] /\ UnitOrder[e[1]] < UnitOrder[e[2]]}
           above(u) == {v \in units : score[v] > score[u]
                                      \/ (score[v] = score[u] /\ UnitOrder[v] < UnitOrder[u])}
           n == Cardinality(units)
           all == [i \in 1..n |-> CHOOSE u \in units : Cardinality(above(u)) = i - 1]
           m == Min({Limit, Len(all)})
<1>1. IsFiniteSet(units) /\ n \in Nat
  <2>1. units \in SUBSET Units /\ IsFiniteSet(Units)
    BY CorpusAssumption
  <2> QED BY <2>1, FS_Subset, FS_CardinalityType
<1>2. StrictOrder(R, units)
  <2>1. \A u \in units : UnitOrder[u] \in Nat /\ score[u] \in Nat
    BY CorpusAssumption
  <2>2. \A u, v \in units : UnitOrder[u] = UnitOrder[v] => u = v
    BY CorpusAssumption
  <2>3. \A u, v \in units : <<u, v>> \in R <=> \/ score[u] > score[v]
                                               \/ score[u] = score[v] /\ UnitOrder[u] < UnitOrder[v]
    OBVIOUS
  <2> HIDE DEF R
  <2> QED BY <2>1, <2>2, <2>3 DEF StrictOrder
<1>3. \A u \in units : above(u) = Above(R, units, u)
  BY DEF Above
<1>4. \A i \in 1..n : \E u \in units : Cardinality(above(u)) = i - 1
  <2> HIDE DEF R, above
  <2>1. \A i \in 1..n : \E u \in units : Cardinality(Above(R, units, u)) = i - 1
    BY <1>1, <1>2, Ranking
  <2> QED BY <2>1, <1>3
<1>5. all \in Seq(units) /\ Len(all) = n
  <2>1. ASSUME NEW i \in 1..n PROVE (CHOOSE u \in units : Cardinality(above(u)) = i - 1) \in units
    <3> HIDE DEF above, n
    <3> QED BY <1>4
  <2> HIDE DEF above, n
  <2>2. all \in [1..n -> units]
    BY <2>1
  <2> HIDE DEF all
  <2> QED BY <2>2, <1>1
<1>6. Limit \in Nat
  BY KnowledgeAssumption
<1>7. Ranked(score, units) = SubSeq(all, 1, m)
  BY DEF Ranked
<1>8. m \in Nat /\ m <= Len(all)
  <2> HIDE DEF all
  <2>1. Len(all) \in Nat BY <1>5, <1>1
  <2> QED BY <2>1, <1>6, MinIs
<1> HIDE DEF all, m, n, above
<1>9. SubSeq(all, 1, m) \in Seq(units)
  BY <1>5, <1>8
<1> QED
  BY <1>7, <1>9 DEF ToSet

-----------------------------------------------------------------------------
\* What a reader whose call is c has, where away have been absent since it began.
ReaderAt(c, away, live) ==
    /\ c.pc # "idle" => away \cap live = {}
    /\ c.pc = "idle" => ToSet(c.found) \cap away = {}
    /\ ScoreOK(c.score) /\ IsFiniteSet(c.query)
    /\ c.pc = "fetch" => \A p \in DOMAIN c.base : c.base[p] \in Nat

FoundInv ==
    /\ gone = [t \in Threads |-> gone[t]]
    /\ \A t \in Readers : ReaderAt(call[t], gone[t], rows)

LEMMA FoundInit == ASSUME Init PROVE FoundInv
<1>1. \A t \in Readers : /\ call[t].pc = "idle" /\ call[t].found = <<>> /\ call[t].score = <<>>
                         /\ call[t].query = {}
  BY DEF Init, Idle, Threads
<1>2. ToSet(<<>>) = {} /\ IsFiniteSet({})
  BY FS_EmptySet DEF ToSet
<1> QED
  BY <1>1, <1>2, NoScoreOK DEF Init, FoundInv, ReaderAt

\* Only an ingest and the start of a question change what has been absent.
LEMMA GoneFrame ==
    ASSUME Next
    PROVE  \/ \E t \in Writers, d \in Docs : Ingest(t, d)
           \/ \E t \in Readers, op \in {"graph", "wiki"}, q \in Questions : Ask(t, op, q)
           \/ UNCHANGED gone
BY DEF Next, WriterStep, ReaderStep, Build, Revoke, Refresh, ScanForGraph, SaveGraph, MarkDirty, TakeLock,
       MarkClean, DistilPages, ReadBase, ClearPages, PutPage, PutIndex, DropPage, ListSurvivors, LoadGraph,
       MatchPages, FetchPage, FetchedAll, Resolve, Keeps

LEMMA GoneStep == ASSUME FoundInv, Next PROVE gone' = [t \in Threads |-> gone'[t]]
<1>1. ASSUME NEW t \in Writers, NEW d \in Docs, Ingest(t, d) PROVE gone' = [s \in Threads |-> gone'[s]]
  BY <1>1 DEF Ingest
<1>2. ASSUME NEW t \in Readers, NEW op, NEW q, Ask(t, op, q) PROVE gone' = [s \in Threads |-> gone'[s]]
  BY <1>2 DEF Ask, FoundInv
<1> QED
  BY <1>1, <1>2, GoneFrame DEF FoundInv

\* A reader that takes no part in the step.
LEMMA ReaderWaits ==
    ASSUME FoundInv, NEW s \in Readers, call'[s] = call[s],
           gone'[s] \subseteq gone[s], gone'[s] \cap rows' \subseteq gone[s] \cap rows
    PROVE  ReaderAt(call'[s], gone'[s], rows')
BY DEF FoundInv, ReaderAt

\* A step of one thread leaves the calls of the others.
LEMMA OthersWait ==
    ASSUME NEW t \in Threads, NEW r, Becomes(t, r), NEW s \in Readers, s # t
    PROVE  call'[s] = call[s]
BY DEF Becomes, Threads

\* What a step of the writer leaves a reader with.
LEMMA WriterLeaves ==
    ASSUME FoundInv, NEW t \in Writers, WriterStep(t), NEW s \in Readers
    PROVE  gone'[s] \subseteq gone[s] /\ gone'[s] \cap rows' \subseteq gone[s] \cap rows
<1>1. ASSUME NEW d \in Docs, Ingest(t, d)
      PROVE  gone'[s] \subseteq gone[s] /\ gone'[s] \cap rows' \subseteq gone[s] \cap rows
  BY <1>1 DEF Ingest, Threads
<1>2. ASSUME NEW d \in Docs, Revoke(t, d)
      PROVE  gone'[s] \subseteq gone[s] /\ gone'[s] \cap rows' \subseteq gone[s] \cap rows
  BY <1>2 DEF Revoke
<1>3. (\E d \in Docs : Ingest(t, d) \/ Revoke(t, d)) \/ UNCHANGED <<rows, gone>>
  BY DEF WriterStep, Refresh, MarkDirty, DistilPages, ReadBase, ClearPages, PutPage, PutIndex, DropPage,
         ListSurvivors, Keeps
<1> QED
  BY <1>1, <1>2, <1>3

LEMMA ReaderStays ==
    ASSUME FoundInv, NEW t \in Readers, NEW r, r.pc # "idle", call[t].pc # "idle",
           r.score = call[t].score, r.query = call[t].query, r.pc # "fetch"
    PROVE  ReaderAt(r, gone[t], rows)
BY DEF FoundInv, ReaderAt

LEMMA FoundBecomes ==
    ASSUME FoundInv, NEW t \in Readers, NEW r, Becomes(t, r), UNCHANGED <<rows, gone>>,
           ReaderAt(r, gone[t], rows)
    PROVE  \A s \in Readers : ReaderAt(call'[s], gone'[s], rows')
<1> SUFFICES ASSUME NEW s \in Readers PROVE ReaderAt(call'[s], gone'[s], rows')
  OBVIOUS
<1>1. t \in Threads /\ s \in Threads
  BY DEF Threads
<1>2. CASE s = t
  <2>1. call'[s] = r
    BY <1>1, <1>2 DEF Becomes
  <2> QED BY <2>1, <1>2
<1>3. CASE s # t
  <2>1. call'[s] = call[s]
    BY <1>1, <1>3, OthersWait
  <2> QED BY <2>1, ReaderWaits
<1> QED BY <1>2, <1>3

\* What has been absent since a question began is in no candidate it ends with.
LEMMA FoundStep == ASSUME Shape, GraphInv, PagesInv, FoundInv, [Next]_vars PROVE FoundInv'
<1>0. CASE UNCHANGED vars
  BY <1>0 DEF FoundInv, vars
<1> SUFFICES ASSUME Next PROVE FoundInv'
  BY <1>0
<1>1. ASSUME NEW t \in Writers, WriterStep(t)
      PROVE  \A s \in Readers : ReaderAt(call'[s], gone'[s], rows')
  <2>0. t \in Threads
    BY DEF Threads
  <2> SUFFICES ASSUME NEW s \in Readers PROVE ReaderAt(call'[s], gone'[s], rows')
    OBVIOUS
  <2>1. s # t
    BY KnowledgeAssumption
  <2>2. \A r : Becomes(t, r) => call'[s] = call[s]
    BY <2>0, <2>1, OthersWait
  <2>3. call'[s] = call[s]
    <3>1. ASSUME NEW d \in Docs, Ingest(t, d) PROVE call'[s] = call[s]
      BY <2>0, <2>2, <3>1, BeginSteps
    <3>2. ASSUME NEW d \in Docs, Revoke(t, d) PROVE call'[s] = call[s]
      BY <2>0, <2>2, <3>2, BeginSteps
    <3>3. ASSUME Refresh(t) PROVE call'[s] = call[s]
      BY <2>0, <2>2, <3>3, BeginSteps
    <3>4. ASSUME MarkDirty(t) PROVE call'[s] = call[s]
      BY <2>0, <2>2, <3>4, MarkDirtyMakes
    <3>5. ASSUME DistilPages(t) PROVE call'[s] = call[s]
      BY <2>0, <2>2, <3>5, DistilPagesMakes
    <3>6. ASSUME ReadBase(t) PROVE call'[s] = call[s]
      BY <2>0, <2>2, <3>6, ReadBaseMakes
    <3>7. ASSUME ClearPages(t) PROVE call'[s] = call[s]
      BY <2>0, <2>2, <3>7, ClearPagesMakes
    <3>8. ASSUME PutPage(t) PROVE call'[s] = call[s]
      BY <2>0, <2>2, <3>8, PutPageMakes
    <3>9. ASSUME PutIndex(t) PROVE call'[s] = call[s]
      BY <2>0, <2>2, <3>9, PutIndexMakes
    <3>10. ASSUME DropPage(t) PROVE call'[s] = call[s]
      BY <2>0, <2>2, <3>10, DropPageMakes
    <3>11. ASSUME ListSurvivors(t) PROVE call'[s] = call[s]
      BY <2>0, <2>2, <3>11, ListSurvivorsMakes
    <3> QED
      BY <1>1, <3>1, <3>2, <3>3, <3>4, <3>5, <3>6, <3>7, <3>8, <3>9, <3>10, <3>11 DEF WriterStep
  <2> QED BY <1>1, <2>3, WriterLeaves, ReaderWaits
<1>2. ASSUME NEW t \in Readers, ReaderStep(t)
      PROVE  \A s \in Readers : ReaderAt(call'[s], gone'[s], rows')
  <2>0. t \in Threads
    BY DEF Threads
  <2>1. ASSUME NEW q \in Questions, NEW op \in {"graph", "wiki"}, Ask(t, op, q) PROVE \A s \in Readers : ReaderAt(call'[s], gone'[s], rows')
    <3> SUFFICES ASSUME NEW s \in Readers PROVE ReaderAt(call'[s], gone'[s], rows')
      OBVIOUS
    <3>0. rows' = rows /\ gone' = [gone EXCEPT ![t] = Units \ rows]
      BY <2>1 DEF Ask
    <3>1. Becomes(t, Started(IF op = "graph" THEN "lock" ELSE "match", op, None, q))
      BY <2>0, <2>1, BeginSteps
    <3>2. CASE s = t
      <4>1. call'[t] = Started(IF op = "graph" THEN "lock" ELSE "match", op, None, q)
        BY <2>0, <3>1 DEF Becomes
      <4>2. /\ call'[t].pc \in {"lock", "match"}
            /\ call'[t].score = <<>> /\ call'[t].query = q
        BY <4>1 DEF Started
      <4>3. gone'[t] = Units \ rows
        BY <2>0, <3>0 DEF FoundInv
      <4>4. IsFiniteSet(q)
        BY CorpusAssumption
      <4> QED BY <3>0, <3>2, <4>2, <4>3, <4>4, NoScoreOK DEF ReaderAt
    <3>3. CASE s # t
      <4>1. call'[s] = call[s]
        BY <2>0, <3>1, <3>3, OthersWait
      <4>2. gone'[s] = gone[s]
        BY <3>0, <3>3 DEF FoundInv
      <4> QED BY <3>0, <4>1, <4>2, ReaderWaits
    <3> QED BY <3>2, <3>3
  <2>2. ASSUME TakeLock(t) PROVE \A s \in Readers : ReaderAt(call'[s], gone'[s], rows')
    <3>0. UNCHANGED <<rows, gone>> /\ call[t].pc # "idle"
      BY <2>2 DEF TakeLock, At, Keeps
    <3>1. PICK r : Becomes(t, r) /\ r.pc \in {"scan", "load"} /\ r.score = call[t].score /\ r.query = call[t].query
      BY <2>0, <2>2, TakeLockMakes
    <3> QED BY <3>0, <3>1, ReaderStays, FoundBecomes
  <2>3. ASSUME LoadGraph(t) PROVE \A s \in Readers : ReaderAt(call'[s], gone'[s], rows')
    <3>0. UNCHANGED <<rows, gone>> /\ call[t].pc # "idle"
      BY <2>3 DEF LoadGraph, At, Keeps
    <3>1. PICK r : /\ Becomes(t, r) /\ r.pc = "resolve" /\ r.query = call[t].query
                   /\ r.score = NodeScores(graph, call[t].query)
      BY <2>0, <2>3, LoadGraphMakes
    <3>2. ScoreOK(r.score)
      BY <3>1, NodeScoresOK DEF GraphInv
    <3>3. ReaderAt(r, gone[t], rows)
      BY <3>0, <3>1, <3>2 DEF FoundInv, ReaderAt
    <3> QED BY <3>0, <3>1, <3>3, FoundBecomes
  <2>4. ASSUME MatchPages(t) PROVE \A s \in Readers : ReaderAt(call'[s], gone'[s], rows')
    <3>0. UNCHANGED <<rows, gone>> /\ call[t].pc # "idle"
      BY <2>4 DEF MatchPages, At, Keeps
    <3>1. PICK r : /\ Becomes(t, r) /\ r.pc = "fetch" /\ r.query = call[t].query
                   /\ r.score = call[t].score /\ r.base = PageScores(index, call[t].query)
      BY <2>0, <2>4, MatchPagesMakes
    <3>2. \A p \in DOMAIN r.base : r.base[p] \in Nat
      BY <3>1, PageScoresOK DEF FoundInv, ReaderAt
    <3>3. ReaderAt(r, gone[t], rows)
      BY <3>0, <3>1, <3>2 DEF FoundInv, ReaderAt
    <3> QED BY <3>0, <3>1, <3>3, FoundBecomes
  <2>5. ASSUME FetchPage(t) PROVE \A s \in Readers : ReaderAt(call'[s], gone'[s], rows')
    <3>0. UNCHANGED <<rows, gone>> /\ call[t].pc # "idle"
      BY <2>5 DEF FetchPage, At, Keeps
    <3>1. PICK r, p : /\ Becomes(t, r) /\ p \in DOMAIN call[t].base
                      /\ r.score = BestWith(t, p, PageRefs(p)) /\ r.base = Without(call[t].base, {p})
                      /\ r.pc = call[t].pc /\ r.query = call[t].query
      BY <2>0, <2>5, FetchPageMakes
    <3>2. call[t].pc = "fetch"
      BY <2>5 DEF FetchPage, At
    <3>3. ScoreOK(call[t].score) /\ \A x \in DOMAIN call[t].base : call[t].base[x] \in Nat
      BY <3>2 DEF FoundInv, ReaderAt
    <3>4. ScoreOK(r.score)
      BY <2>0, <3>1, <3>3, PageRefsOK, BestOK
    <3>5. \A x \in DOMAIN r.base : r.base[x] \in Nat
      <4>1. /\ DOMAIN r.base = DOMAIN call[t].base \ {p}
            /\ \A x \in DOMAIN call[t].base \ {p} : r.base[x] = call[t].base[x]
        BY <3>1 DEF Without
      <4> QED BY <4>1, <3>3
    <3>6. ReaderAt(r, gone[t], rows)
      BY <3>0, <3>1, <3>4, <3>5 DEF FoundInv, ReaderAt
    <3> QED BY <3>0, <3>1, <3>6, FoundBecomes
  <2>6. ASSUME FetchedAll(t) PROVE \A s \in Readers : ReaderAt(call'[s], gone'[s], rows')
    <3>0. UNCHANGED <<rows, gone>> /\ call[t].pc # "idle"
      BY <2>6 DEF FetchedAll, At, Keeps
    <3>1. PICK r : Becomes(t, r) /\ r.pc = "resolve" /\ r.score = call[t].score /\ r.query = call[t].query
      BY <2>0, <2>6, FetchedAllMakes
    <3> QED BY <3>0, <3>1, ReaderStays, FoundBecomes
  <2>7. ASSUME Resolve(t) PROVE \A s \in Readers : ReaderAt(call'[s], gone'[s], rows')
    <3>0. UNCHANGED <<rows, gone>> /\ call[t].pc # "idle"
      BY <2>7 DEF Resolve, At, Keeps
    <3>1. PICK r : /\ Becomes(t, r) /\ r.pc = "idle" /\ r.found = Candidates(call[t].score, rows)
                   /\ r.query = {} /\ r.score = <<>>
      BY <2>0, <2>7, ResolveMakes
    <3>2. ToSet(r.found) \subseteq rows
      <4> DEFINE units == rows \cap DOMAIN call[t].score
      <4>1. ScoreOK(call[t].score)
        BY DEF FoundInv, ReaderAt
      <4>2. units \subseteq Units /\ \A u \in units : call[t].score[u] \in Nat
        BY <4>1 DEF ScoreOK
      <4>3. r.found = Ranked(call[t].score, units)
        BY <3>1 DEF Candidates
      <4> HIDE DEF units
      <4>4. ToSet(Ranked(call[t].score, units)) \subseteq units
        BY <4>2, RankedIn
      <4> QED BY <4>3, <4>4 DEF units
    <3>3. gone[t] \cap rows = {}
      BY <3>0 DEF FoundInv, ReaderAt
    <3>4. ReaderAt(r, gone[t], rows)
      BY <3>1, <3>2, <3>3, NoScoreOK, FS_EmptySet DEF ReaderAt
    <3> QED BY <3>0, <3>1, <3>4, FoundBecomes
  <2> QED
    BY <1>2, <2>1, <2>2, <2>3, <2>4, <2>5, <2>6, <2>7 DEF ReaderStep
<1>3. ASSUME NEW t \in Threads, Build(t)
      PROVE  \A s \in Readers : ReaderAt(call'[s], gone'[s], rows')
  <2>0. UNCHANGED <<rows, gone>> /\ call[t].pc # "idle"
    BY <1>3 DEF Build, ScanForGraph, SaveGraph, MarkClean, At, Keeps
  <2>1. \E r : /\ Becomes(t, r) /\ r.pc \notin {"idle", "fetch"}
               /\ r.score = call[t].score /\ r.query = call[t].query
    <3>1. ASSUME ScanForGraph(t) PROVE \E r : /\ Becomes(t, r) /\ r.pc \notin {"idle", "fetch"}
                                             /\ r.score = call[t].score /\ r.query = call[t].query
      BY <3>1, ScanForGraphMakes
    <3>2. ASSUME SaveGraph(t) PROVE \E r : /\ Becomes(t, r) /\ r.pc \notin {"idle", "fetch"}
                                          /\ r.score = call[t].score /\ r.query = call[t].query
      BY <3>2, SaveGraphMakes
    <3>3. ASSUME MarkClean(t) PROVE \E r : /\ Becomes(t, r) /\ r.pc \notin {"idle", "fetch"}
                                          /\ r.score = call[t].score /\ r.query = call[t].query
      <4>1. PICK r : /\ Becomes(t, r)
                     /\ r.pc = (CASE call[t].op = "graph" -> "load" [] call[t].op = "revoke" -> "drop"
                                  [] OTHER -> "distil")
                     /\ r.score = call[t].score /\ r.query = call[t].query
        BY <3>3, MarkCleanMakes
      <4>2. r.pc \in {"load", "drop", "distil"}
        BY <4>1
      <4> QED BY <4>1, <4>2
    <3> QED BY <1>3, <3>1, <3>2, <3>3 DEF Build
  <2>2. PICK r : /\ Becomes(t, r) /\ r.pc \notin {"idle", "fetch"}
                 /\ r.score = call[t].score /\ r.query = call[t].query
    BY <2>1
  <2>3. CASE t \in Readers
    BY <2>0, <2>2, <2>3, ReaderStays, FoundBecomes
  <2>4. CASE t \notin Readers
    <3> SUFFICES ASSUME NEW s \in Readers PROVE ReaderAt(call'[s], gone'[s], rows')
      OBVIOUS
    <3>1. call'[s] = call[s]
      BY <2>2, <2>4, OthersWait
    <3> QED BY <2>0, <3>1, ReaderWaits
  <2> QED BY <2>3, <2>4
<1>4. \A s \in Readers : ReaderAt(call'[s], gone'[s], rows')
  BY <1>1, <1>2, <1>3 DEF Next
<1> QED
  BY <1>4, GoneStep DEF FoundInv

\* wiki/store.py and graph/retrieve.py: navigation is never evidence. However many questions
\* and rebuilds run beside the writer, no answer is given a unit that was out of the index
\* from the moment it was asked to the moment its candidates were resolved.
THEOREM RevokedIsNotFound == Spec => []RevokedNotFound
<1>1. Init => Shape /\ GraphInv /\ PagesInv /\ FoundInv
  BY ShapeInit, GraphInit, PagesInit, FoundInit
<1>2. Shape /\ GraphInv /\ PagesInv /\ FoundInv /\ [Next]_vars
      => Shape' /\ GraphInv' /\ PagesInv' /\ FoundInv'
  BY ShapeStep, GraphStep, PagesStep, FoundStep
<1>3. FoundInv => RevokedNotFound
  BY DEF FoundInv, ReaderAt, RevokedNotFound, At
<1> QED
  BY <1>1, <1>2, <1>3, PTL DEF Spec
=============================================================================
