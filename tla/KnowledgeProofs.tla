---------------------------- MODULE KnowledgeProofs ----------------------------
(***************************************************************************)
(* From documents to accepted claims and to technical deltas, for any      *)
(* batches of documents and whatever is posted.  What an import reads it   *)
(* saves over an index that may have changed, so what holds of the index   *)
(* has to hold of every copy.  A stage may be run on an older file of the  *)
(* stage before: of one client, all that the files rest on are claims of   *)
(* the index at different times, of which one includes the other.          *)
(***************************************************************************)
EXTENDS TechnicalChain, FiniteSetTheorems, SequenceTheorems, WellFoundedInduction, TLAPS

-----------------------------------------------------------------------------
(* DOCUMENTS.  The index                                                   *)

IsDoc(d) ==
    /\ d = [k \in {"id", "paper", "number", "revision", "type", "role", "superseded", "at"} |-> d[k]]
    /\ d.revision \in Nat /\ d.superseded \in BOOLEAN

\* Of every number one document is current, and it is the newest.
Newest(docs) ==
    \A d \in docs :
      /\ IsDoc(d)
      /\ \E e \in docs : e.number = d.number /\ ~e.superseded
      /\ ~d.superseded =>
           \A e \in docs : e.number = d.number /\ e # d => e.superseded /\ e.revision <= d.revision

\* A document that is current was read, or it was said that it could not be.
WasRead(d, pages, results) ==
    \/ \E p \in pages : p.doc = d.id
    \/ \E r \in results : r.outcome = "failed" /\ r.session = d.at /\ r.file = d.paper.file

DocsOK(docs, pages, results) ==
    Newest(docs) /\ \A d \in docs : ~d.superseded => WasRead(d, pages, results)

IsReading(st) == st = [k \in {"docs", "pages", "results", "known", "at"} |-> st[k]]

IsPath(p) == p.revision \in Nat /\ IsFiniteSet(p.says)

\* What an import holds.
ImportOK(q) ==
    q.pc = "import" =>
      /\ q = [k \in {"pc", "left", "read"} |-> q[k]]
      /\ \A p \in q.left : IsPath(p)
      /\ IsReading(q.read)
      /\ DocsOK(q.read.docs, q.read.pages, q.read.results)

\* What a request holds that runs stages.
RunOK(q) ==
    q.pc = "run" => q = [k \in {"pc", "todo", "given", "made", "manifest"} |-> q[k]]

KnowledgeShape ==
    /\ load.clients \subseteq Clients
    /\ DOMAIN client = Clients
    /\ \A c \in Clients \ load.clients : client[c] = Idle

IndexInv ==
    /\ KnowledgeShape
    /\ DocsOK(index.docs, index.pages, index.results)
    /\ \A c \in load.clients : ImportOK(client[c]) /\ RunOK(client[c])

\* More pages and results are as good.
LEMMA StillRead ==
  ASSUME NEW d, NEW pages, NEW results, WasRead(d, pages, results),
         NEW more, pages \subseteq more, NEW others, results \subseteq others
  PROVE  WasRead(d, more, others)
  BY DEF WasRead

\* A document that is superseded is what it was otherwise.
LEMMA Superseded ==
  ASSUME NEW d, IsDoc(d)
  PROVE  LET e == [d EXCEPT !.superseded = TRUE]
         IN  /\ IsDoc(e) /\ e.superseded
             /\ e.number = d.number /\ e.revision = d.revision
  BY DEF IsDoc

\* A document that is newer than the current one of its number takes its place.
LEMMA NewestWithNewer ==
  ASSUME NEW docs, Newest(docs), NEW new, IsDoc(new), ~new.superseded,
         NEW replaced,
         \A x \in replaced :
            \E d \in docs : /\ x = IF d.number = new.number /\ ~d.superseded
                                   THEN [d EXCEPT !.superseded = TRUE] ELSE d,
         \A d \in docs :
            (IF d.number = new.number /\ ~d.superseded
             THEN [d EXCEPT !.superseded = TRUE] ELSE d) \in replaced,
         \A d \in docs : d.number = new.number /\ ~d.superseded => d.revision <= new.revision
  PROVE  Newest(replaced \cup {new})
  <1>1. \A x \in replaced :
           \E d \in docs : /\ IsDoc(x) /\ x.number = d.number /\ x.revision = d.revision
                           /\ x.number = new.number => x.superseded
                           /\ x.number # new.number => x = d
    <2> TAKE x \in replaced
    <2> PICK d \in docs : x = IF d.number = new.number /\ ~d.superseded
                              THEN [d EXCEPT !.superseded = TRUE] ELSE d
      OBVIOUS
    <2>1. IsDoc(d)
      BY DEF Newest
    <2> QED
      BY <2>1, Superseded DEF IsDoc
  <1>2. \A d \in docs : d.number = new.number => d.revision <= new.revision
    <2> SUFFICES ASSUME NEW d \in docs, d.number = new.number
                 PROVE  d.revision <= new.revision
      OBVIOUS
    <2> PICK e \in docs : e.number = d.number /\ ~e.superseded
      BY DEF Newest
    <2>1. d = e \/ d.revision <= e.revision
      BY DEF Newest
    <2>2. /\ d.revision \in Nat /\ e.revision \in Nat /\ new.revision \in Nat
      BY DEF Newest, IsDoc
    <2> QED
      BY <2>1, <2>2
  <1>3. \A d \in docs : d.number # new.number => d \in replaced
    OBVIOUS
  <1> DEFINE D == replaced \cup {new}
  <1>4. \A x \in D : IsDoc(x)
    BY <1>1
  <1>5. \A x \in D : \E e \in D : e.number = x.number /\ ~e.superseded
    <2> TAKE x \in D
    <2>1. CASE x.number = new.number
      BY <2>1
    <2>2. CASE x.number # new.number
      <3>1. x \in docs
        BY <1>1, <2>2
      <3> PICK e \in docs : e.number = x.number /\ ~e.superseded
        BY <3>1 DEF Newest
      <3> QED
        BY <1>3, <2>2
    <2> QED
      BY <2>1, <2>2
  <1>6. \A x \in D : ~x.superseded =>
           \A e \in D : e.number = x.number /\ e # x => e.superseded /\ e.revision <= x.revision
    <2> SUFFICES ASSUME NEW x \in D, ~x.superseded, NEW e \in D, e.number = x.number, e # x
                 PROVE  e.superseded /\ e.revision <= x.revision
      OBVIOUS
    <2>1. CASE x.number = new.number
      <3>1. x = new
        BY <1>1, <2>1
      <3>2. e \in replaced
        BY <3>1
      <3> QED
        BY <1>1, <1>2, <2>1, <3>1, <3>2
    <2>2. CASE x.number # new.number
      <3>1. x \in docs /\ e \in docs
        BY <1>1, <2>2
      <3> QED
        BY <3>1 DEF Newest
    <2> QED
      BY <2>1, <2>2
  <1> QED
    BY <1>4, <1>5, <1>6 DEF Newest

\* A document that is older is kept as superseded.
LEMMA NewestWithOlder ==
  ASSUME NEW docs, Newest(docs), NEW new, IsDoc(new), new.superseded,
         NEW e \in docs, e.number = new.number, ~e.superseded, new.revision <= e.revision
  PROVE  Newest(docs \cup {new})
  <1>1. \A x \in docs : ~x.superseded /\ x.number = new.number => x = e
    BY DEF Newest
  <1>2. e \in docs \cup {new}
    OBVIOUS
  <1> QED
    BY <1>1, <1>2 DEF Newest

\* One path is read, and what was read stays so. (import_documents)
LEMMA IngestKeeps ==
  ASSUME NEW st, IsReading(st), DocsOK(st.docs, st.pages, st.results),
         NEW p, IsPath(p), NEW next, next = Ingest(st, p)
  PROVE  IsReading(next) /\ DocsOK(next.docs, next.pages, next.results)
  <1> DEFINE previous == {d \in st.docs : d.number = p.number /\ ~d.superseded}
             current == CHOOSE d \in previous : \A e \in previous : d.revision >= e.revision
             newer == previous = {} \/ IsNewerOrEqual(p.revision, current)
             new == [id |-> <<st.at, p.file>>, paper |-> p, number |-> p.number,
                     revision |-> p.revision, type |-> p.type, role |-> p.role,
                     superseded |-> ~newer, at |-> st.at]
             replaced == {IF previous # {} /\ newer /\ d = current
                          THEN [d EXCEPT !.superseded = TRUE] ELSE d : d \in st.docs}
             result(outcome) == [session |-> st.at, file |-> p.file, outcome |-> outcome]
             page == [doc |-> new.id, says |-> p.says, marks |-> p.marks]
             said == result(IF previous = {} THEN "imported"
                            ELSE IF newer THEN "revision" ELSE "older_revision")
  <1>1. \/ next = [st EXCEPT !.results = @ \cup {result("failed")}]
        \/ next = [st EXCEPT !.results = @ \cup {result("duplicate")}]
        \/ newer /\ next = [st EXCEPT !.docs = replaced \cup {new},
                                      !.results = @ \cup {result("failed")}]
        \/ next = [st EXCEPT !.docs = replaced \cup {new},
                             !.pages = IF newer THEN @ \cup {page} ELSE @,
                             !.known = @ \cup {p.sha},
                             !.results = @ \cup {said}]
    BY DEF Ingest
  <1>2. Newest(st.docs)
    BY DEF DocsOK
  <1>3. \A d, e \in previous : d = e
    BY <1>2 DEF Newest
  <1>4. previous # {} => current \in previous /\ previous = {current}
    <2> SUFFICES ASSUME previous # {}
                 PROVE  current \in previous /\ previous = {current}
      OBVIOUS
    <2> PICK d \in previous : TRUE
      OBVIOUS
    <2>1. \A e \in previous : d.revision >= e.revision
      BY <1>2, <1>3 DEF Newest, IsDoc
    <2>2. current \in previous
      BY <2>1
    <2> QED
      BY <1>3, <2>2
  <1>5. IsDoc(new)
    BY DEF IsDoc, IsPath
  <1>6. Newest(replaced \cup {new})
    <2>1. CASE newer
      <3>1. \A d \in st.docs : (previous # {} /\ newer /\ d = current)
                               <=> (d.number = new.number /\ ~d.superseded)
        BY <1>4, <2>1
      <3>2. \A d \in st.docs : d.number = new.number /\ ~d.superseded => d.revision <= new.revision
        <4> SUFFICES ASSUME NEW d \in st.docs, d.number = new.number, ~d.superseded
                     PROVE  d.revision <= new.revision
          OBVIOUS
        <4>1. d = current /\ previous # {}
          BY <1>4
        <4>2. p.revision >= current.revision
          BY <2>1, <4>1 DEF IsNewerOrEqual
        <4>3. d.revision \in Nat /\ p.revision \in Nat
          BY <1>2 DEF Newest, IsDoc, IsPath
        <4> QED
          BY <4>1, <4>2, <4>3
      <3>3. ~new.superseded
        BY <2>1
      <3> HIDE DEF new, newer, previous, current
      <3>4. \A x \in replaced :
               \E d \in st.docs : x = IF d.number = new.number /\ ~d.superseded
                                      THEN [d EXCEPT !.superseded = TRUE] ELSE d
        BY <3>1
      <3>5. \A d \in st.docs :
               (IF d.number = new.number /\ ~d.superseded
                THEN [d EXCEPT !.superseded = TRUE] ELSE d) \in replaced
        BY <3>1
      <3> HIDE DEF replaced
      <3> QED
        BY <1>2, <1>5, <3>2, <3>3, <3>4, <3>5, NewestWithNewer
    <2>2. CASE ~newer
      <3>1. replaced = st.docs
        BY <2>2
      <3>2. current \in st.docs /\ current.number = new.number /\ ~current.superseded
        BY <1>4, <2>2
      <3>3. new.revision <= current.revision
        BY <1>2, <2>2, <3>2 DEF IsNewerOrEqual, Newest, IsDoc, IsPath
      <3>4. new.superseded
        BY <2>2
      <3> HIDE DEF new, current, replaced, newer
      <3> QED
        BY <1>2, <1>5, <3>1, <3>2, <3>3, <3>4, NewestWithOlder
    <2> QED
      BY <2>1, <2>2
  <1>7. \A d \in replaced \cup {new} : ~d.superseded => d \in st.docs \/ (d = new /\ newer)
    <2> TAKE d \in replaced \cup {new}
    <2>1. CASE d = new
      BY <2>1
    <2>2. CASE d \in replaced
      <3> PICK e \in st.docs : d = IF previous # {} /\ newer /\ e = current
                                   THEN [e EXCEPT !.superseded = TRUE] ELSE e
        BY <2>2
      <3>1. IsDoc(e)
        BY <1>2 DEF Newest
      <3> QED
        BY <3>1, Superseded
    <2> QED
      BY <2>1, <2>2
  <1>8. \A d \in st.docs : ~d.superseded => WasRead(d, st.pages, st.results)
    BY DEF DocsOK
  <1>9. WasRead(new, st.pages \cup {page}, st.results \cup {said})
        /\ WasRead(new, st.pages, st.results \cup {result("failed")})
    <2>1. page \in st.pages \cup {page} /\ page.doc = new.id
      OBVIOUS
    <2>2. /\ result("failed").outcome = "failed" /\ result("failed").session = new.at
          /\ result("failed").file = new.paper.file
      OBVIOUS
    <2> HIDE DEF new, page, said, result
    <2> QED
      BY <2>1, <2>2 DEF WasRead
  <1> HIDE DEF new, previous, newer, current, replaced, page, said
  <1>10. CASE \/ next = [st EXCEPT !.results = @ \cup {result("failed")}]
              \/ next = [st EXCEPT !.results = @ \cup {result("duplicate")}]
    <2> HIDE DEF result
    <2>1. next.docs = st.docs /\ next.pages = st.pages /\ st.results \subseteq next.results
          /\ IsReading(next)
      BY <1>10 DEF IsReading
    <2> QED
      BY <1>2, <1>8, <2>1, StillRead DEF DocsOK
  <1>11. CASE newer /\ next = [st EXCEPT !.docs = replaced \cup {new},
                                         !.results = @ \cup {result("failed")}]
    <2> HIDE DEF result
    <2>1. /\ next.docs = replaced \cup {new} /\ next.pages = st.pages
          /\ next.results = st.results \cup {result("failed")}
          /\ IsReading(next)
      BY <1>11 DEF IsReading
    <2> QED
      BY <1>6, <1>7, <1>8, <1>9, <2>1, StillRead DEF DocsOK
  <1>12. CASE next = [st EXCEPT !.docs = replaced \cup {new},
                                !.pages = IF newer THEN @ \cup {page} ELSE @,
                                !.known = @ \cup {p.sha},
                                !.results = @ \cup {said}]
    <2>1. /\ next.docs = replaced \cup {new}
          /\ next.pages = IF newer THEN st.pages \cup {page} ELSE st.pages
          /\ next.results = st.results \cup {said}
          /\ IsReading(next)
      BY <1>12 DEF IsReading
    <2> QED
      BY <1>6, <1>7, <1>8, <1>9, <2>1, StillRead DEF DocsOK
  <1> HIDE DEF result
  <1> QED
    BY <1>1, <1>10, <1>11, <1>12

-----------------------------------------------------------------------------
(* Requests                                                                *)

\* A request of one client leaves the others as they are.
LEMMA GoesTo ==
  ASSUME KnowledgeShape, NEW c \in load.clients, NEW q, Goes(c, q), UNCHANGED load
  PROVE  /\ KnowledgeShape'
         /\ client'[c] = q
         /\ \A d \in Clients : d # c => client'[d] = client[d]
  BY DEF KnowledgeShape, Goes

\* The index stays as it is, and so do the requests but one.
LEMMA IndexByParts ==
  ASSUME IndexInv, NEW c \in load.clients, NEW q, Goes(c, q), UNCHANGED <<load, index>>,
         ImportOK(q), RunOK(q)
  PROVE  IndexInv'
  <1>1. /\ KnowledgeShape' /\ client'[c] = q
        /\ \A d \in Clients : d # c => client'[d] = client[d]
    BY GoesTo DEF IndexInv
  <1>2. \A d \in load.clients : ImportOK(client'[d]) /\ RunOK(client'[d])
    BY <1>1 DEF IndexInv, KnowledgeShape
  <1>3. DocsOK(index.docs, index.pages, index.results)'
    BY DEF IndexInv
  <1>4. (\A d \in load.clients : ImportOK(client[d]) /\ RunOK(client[d]))'
    BY <1>2
  <1> QED
    BY <1>1, <1>3, <1>4 DEF IndexInv

\* A request that has ended holds nothing.
LEMMA IdleHoldsNothing == ImportOK(Idle) /\ RunOK(Idle)
  BY DEF Idle, ImportOK, RunOK

\* Requests that run stages.
LEMMA StagesOK ==
  ASSUME NEW todo
  PROVE  ImportOK(Stages(todo)) /\ RunOK(Stages(todo))
  BY DEF Stages, ImportOK, RunOK

LEMMA ImportKeepsIndex ==
  ASSUME IndexInv, NEW c \in load.clients,
         \/ \E paths \in Batches : StartImport(c, paths)
         \/ ReadPath(c)
         \/ SaveIndex(c)
  PROVE  IndexInv'
  <1>1. ASSUME NEW paths \in Batches, StartImport(c, paths)
        PROVE  IndexInv'
    <2> DEFINE q == [pc |-> "import", left |-> paths, read |-> Opened(index, imports')]
    <2>1. Goes(c, q) /\ UNCHANGED <<load, index>>
      BY <1>1 DEF StartImport
    <2>2. ImportOK(q)
      <3>1. q.read.docs = index.docs /\ q.read.pages = index.pages
            /\ q.read.results = index.results /\ IsReading(q.read)
        BY DEF Opened, IsReading
      <3>2. \A p \in paths : IsPath(p)
        BY BatchesAssumption DEF IsPath
      <3>3. DocsOK(index.docs, index.pages, index.results)
        BY DEF IndexInv
      <3> QED
        BY <3>1, <3>2, <3>3 DEF ImportOK
    <2>3. RunOK(q)
      BY DEF RunOK
    <2> HIDE DEF q
    <2> QED
      BY <2>1, <2>2, <2>3, IndexByParts
  <1>2. CASE ReadPath(c)
    <2> DEFINE r == client[c]
    <2> PICK p \in r.left : Goes(c, [r EXCEPT !.left = @ \ {p}, !.read = Ingest(@, p)])
      BY <1>2 DEF ReadPath
    <2> DEFINE q == [r EXCEPT !.left = @ \ {p}, !.read = Ingest(@, p)]
    <2>1. UNCHANGED <<load, index>> /\ r.pc = "import"
      BY <1>2 DEF ReadPath, knowledgeDocs
    <2>2. ImportOK(r)
      BY DEF IndexInv
    <2>3. PICK next : next = Ingest(r.read, p)
      OBVIOUS
    <2>4. IsReading(next) /\ DocsOK(next.docs, next.pages, next.results)
      <3>1. IsPath(p) /\ IsReading(r.read) /\ DocsOK(r.read.docs, r.read.pages, r.read.results)
        BY <2>1, <2>2 DEF ImportOK
      <3> QED
        BY <2>3, <3>1, IngestKeeps
    <2>5. q.pc = "import" /\ q.left = r.left \ {p} /\ q.read = next
          /\ q = [k \in {"pc", "left", "read"} |-> q[k]]
      BY <2>1, <2>2, <2>3 DEF ImportOK
    <2>6. ImportOK(q) /\ RunOK(q)
      BY <2>1, <2>2, <2>4, <2>5 DEF ImportOK, RunOK
    <2> HIDE DEF q
    <2> QED
      BY <2>1, <2>6, IndexByParts DEF q
  <1>3. CASE SaveIndex(c)
    <2> DEFINE st == client[c].read
    <2>1. /\ index' = Updated(st) /\ Goes(c, Idle) /\ UNCHANGED load
          /\ client[c].pc = "import"
      BY <1>3 DEF SaveIndex, Ends
    <2>2. DocsOK(index.docs, index.pages, index.results)'
      <3>1. DocsOK(st.docs, st.pages, st.results)
        BY <2>1 DEF IndexInv, ImportOK
      <3>2. index'.docs = st.docs /\ index'.pages = st.pages /\ index'.results = st.results
        BY <2>1 DEF Updated
      <3> QED
        BY <3>1, <3>2
    <2>3. /\ KnowledgeShape' /\ client'[c] = Idle
          /\ \A d \in Clients : d # c => client'[d] = client[d]
      BY <2>1, GoesTo DEF IndexInv
    <2>4. (\A d \in load.clients : ImportOK(client[d]) /\ RunOK(client[d]))'
      BY <2>1, <2>3, IdleHoldsNothing DEF IndexInv, KnowledgeShape
    <2> QED
      BY <2>2, <2>3, <2>4 DEF IndexInv
  <1> QED
    BY <1>1, <1>2, <1>3

LEMMA StagesKeepIndex ==
  ASSUME IndexInv, NEW c \in load.clients,
         \/ StartAnalyze(c)
         \/ \E posted \in Authorities(index) : StartResolve(c, posted)
         \/ \E stage \in Commands : StartCommand(c, stage)
         \/ RunStage(c)
         \/ WriteStage(c)
  PROVE  IndexInv'
  <1> DEFINE q == client[c]
  <1>1. RunOK(q)
    BY DEF IndexInv
  <1>2. CASE StartAnalyze(c)
    BY <1>2, StagesOK, IndexByParts DEF StartAnalyze, knowledgeDocs
  <1>3. ASSUME NEW posted \in Authorities(index), StartResolve(c, posted)
        PROVE  IndexInv'
    <2> DEFINE todo == <<<<"manifest", FALSE>>, <<"resolution", FALSE>>, <<"accepted", FALSE>>>>
               new == [Stages(todo) EXCEPT !.manifest = {[hierarchy |-> <<>>, documents |-> posted]}]
    <2>1. Goes(c, new) /\ UNCHANGED <<load, index>>
      BY <1>3 DEF StartResolve, knowledgeDocs
    <2>2. ImportOK(new) /\ RunOK(new)
      <3> HIDE DEF todo
      <3> QED
        BY DEF Stages, ImportOK, RunOK
    <2> HIDE DEF new
    <2> QED
      BY <2>1, <2>2, IndexByParts
  <1>4. ASSUME NEW stage \in Commands, StartCommand(c, stage)
        PROVE  IndexInv'
    BY <1>4, StagesOK, IndexByParts DEF StartCommand, knowledgeDocs
  <1>5. CASE RunStage(c)
    <2>1. UNCHANGED <<load, index>> /\ q.pc = "run"
      BY <1>5 DEF RunStage, knowledgeDocs
    <2>2. \A todo, made :
             /\ ImportOK([q EXCEPT !.todo = todo]) /\ RunOK([q EXCEPT !.todo = todo])
             /\ ImportOK([q EXCEPT !.made = made]) /\ RunOK([q EXCEPT !.made = made])
      BY <1>1, <2>1 DEF ImportOK, RunOK
    <2>3. \E new : Goes(c, new) /\ ImportOK(new) /\ RunOK(new)
      <3>1. \/ \E todo : Goes(c, [q EXCEPT !.todo = todo])
            \/ \E made : Goes(c, [q EXCEPT !.made = made])
            \/ Goes(c, Idle)
        BY <1>5 DEF RunStage, Ends
      <3> HIDE DEF q
      <3> QED
        BY <2>2, <3>1, IdleHoldsNothing
    <2> QED
      BY <2>1, <2>3, IndexByParts
  <1>6. CASE WriteStage(c)
    <2>1. UNCHANGED <<load, index>> /\ q.pc = "run"
      BY <1>6 DEF WriteStage
    <2>2. \A todo, given :
             LET new == [q EXCEPT !.todo = todo, !.made = {}, !.given = given]
             IN  ImportOK(new) /\ RunOK(new)
      BY <1>1, <2>1 DEF ImportOK, RunOK
    <2>3. \E new : Goes(c, new) /\ ImportOK(new) /\ RunOK(new)
      <3>1. \/ \E todo, given : Goes(c, [q EXCEPT !.todo = todo, !.made = {}, !.given = given])
            \/ Goes(c, Idle)
        BY <1>6 DEF WriteStage, Ends
      <3> HIDE DEF q
      <3> QED
        BY <2>2, <3>1, IdleHoldsNothing
    <2> QED
      BY <2>1, <2>3, IndexByParts
  <1> QED
    BY <1>2, <1>3, <1>4, <1>5, <1>6

LEMMA IndexInvStep == IndexInv /\ [KnowledgeNext]_knowledgeVars => IndexInv'
  <1> SUFFICES ASSUME IndexInv, [KnowledgeNext]_knowledgeVars
               PROVE  IndexInv'
    OBVIOUS
  <1>1. CASE \E c \in load.clients :
               \/ \E paths \in Batches : StartImport(c, paths)
               \/ ReadPath(c)
               \/ SaveIndex(c)
    BY <1>1, ImportKeepsIndex
  <1>2. CASE \E c \in load.clients :
               \/ StartAnalyze(c)
               \/ \E posted \in Authorities(index) : StartResolve(c, posted)
               \/ \E stage \in Commands : StartCommand(c, stage)
               \/ RunStage(c)
               \/ WriteStage(c)
    BY <1>2, StagesKeepIndex
  <1>3. CASE Restart /\ UNCHANGED <<load, knowledgeDocs>>
    BY <1>3, IdleHoldsNothing DEF Restart, knowledgeDocs, IndexInv, KnowledgeShape
  <1>4. CASE UNCHANGED knowledgeVars
    BY <1>4 DEF knowledgeVars, IndexInv, KnowledgeShape
  <1> QED
    BY <1>1, <1>2, <1>3, <1>4 DEF KnowledgeNext

LEMMA IndexInvInit == RequestsInit /\ KnowledgeInit => IndexInv
  BY IdleHoldsNothing
  DEF RequestsInit, KnowledgeInit, NoIndex, IndexInv, KnowledgeShape, DocsOK, Newest

\* However files come in, and whatever the imports of other clients save meanwhile, the
\* current document of every number is its newest, and was read unless its import was
\* reported as failed. (import_documents)
THEOREM IndexStaysCurrent == KnowledgeSpec => []IndexIsCurrent
  <1>1. IndexInv => IndexIsCurrent
    BY DEF IndexInv, DocsOK, Newest, WasRead, IndexIsCurrent, CurrentDocs
  <1> QED
    BY <1>1, IndexInvInit, IndexInvStep, PTL DEF KnowledgeSpec

-----------------------------------------------------------------------------
(* CLAIMS.  What pages say                                                 *)

\* What is said of a document, as a candidate.
Candidate(doc, s) ==
    [doc |-> doc, value |-> s.value, sure |-> Sureness(s),
     key |-> <<s.kind, IF s.kind = "key_value" THEN s.subject ELSE s.kind, s.unit>>]

Claims(ix) == ExtractClaims(Observe(ix))

LEMMA ClaimsAreSaid ==
  ASSUME NEW ix, NEW x
  PROVE  x \in Claims(ix) <=> \E p \in ix.pages : \E s \in p.says : x = Candidate(p.doc, s)
  <1>1. x \in Claims(ix) <=> \E o \in Observe(ix) : \E s \in o.says : x = Candidate(o.doc, s)
    BY DEF Claims, ExtractClaims, Candidate
  <1>2. \A s : (\E o \in Observe(ix) : s \in o.says /\ x = Candidate(o.doc, s))
               <=> (\E p \in ix.pages : s \in p.says /\ x = Candidate(p.doc, s))
    <2> TAKE s
    <2>1. ASSUME NEW o \in Observe(ix), s \in o.says, x = Candidate(o.doc, s)
          PROVE  \E p \in ix.pages : s \in p.says /\ x = Candidate(p.doc, s)
      <3> PICK p \in ix.pages : o = [doc |-> p.doc, says |-> p.says]
        BY DEF Observe
      <3> QED
        BY <2>1
    <2>2. ASSUME NEW p \in ix.pages, s \in p.says, x = Candidate(p.doc, s)
          PROVE  \E o \in Observe(ix) : s \in o.says /\ x = Candidate(o.doc, s)
      <3> DEFINE o == [doc |-> p.doc, says |-> p.says]
      <3>1. o \in Observe(ix) /\ o.doc = p.doc /\ o.says = p.says
        BY <2>2 DEF Observe
      <3> HIDE DEF o
      <3> QED
        BY <2>2, <3>1
    <2> QED
      BY <2>1, <2>2
  <1> QED
    BY <1>1, <1>2

\* More pages, more claims.
LEMMA ClaimsGrow ==
  ASSUME NEW ix, NEW jx, ix.pages \subseteq jx.pages
  PROVE  Claims(ix) \subseteq Claims(jx)
  BY ClaimsAreSaid

\* A page says finitely much.
LEMMA OneMorePage ==
  ASSUME NEW ix, NEW jx, NEW page, jx.pages = ix.pages \cup {page},
         IsFiniteSet(Claims(ix)), IsFiniteSet(page.says)
  PROVE  IsFiniteSet(Claims(jx))
  <1> DEFINE said == {Candidate(page.doc, s) : s \in page.says}
             f == [s \in page.says |-> Candidate(page.doc, s)]
  <1>1. f \in Surjection(page.says, said)
    BY DEF Surjection
  <1>2. IsFiniteSet(said)
    BY <1>1, FS_Surjection
  <1>3. \A x : x \in Claims(jx) <=> x \in Claims(ix) \/ x \in said
    BY ClaimsAreSaid
  <1>4. Claims(jx) = Claims(ix) \cup said
    BY <1>3
  <1> HIDE DEF said
  <1>5. IsFiniteSet(Claims(ix) \cup said)
    BY <1>2, FS_Union
  <1> QED
    BY <1>4, <1>5

-----------------------------------------------------------------------------
(* Clusters                                                                *)

Members(y, key) == {m \in y : m.key = key}
ValuesOf(members) == {m.value : m \in members}

LEMMA ClusterIs ==
  ASSUME NEW y, NEW k \in Fuse(y)
  PROVE  /\ k.members = Members(y, k.key) /\ k.members # {}
         /\ k.id = ClusterId(k.key, k.members)
         /\ k.status = IF Cardinality(k.members) = 1 THEN "singleton"
                       ELSE IF Cardinality(ValuesOf(k.members)) = 1 THEN "consistent"
                       ELSE "conflicting"
         /\ k = [i \in {"id", "key", "members", "status"} |-> k[i]]
  <1> PICK key \in {m.key : m \in y} :
         LET members == {m \in y : m.key = key}
         IN  k = [id |-> ClusterId(key, members), key |-> key, members |-> members,
                  status |-> IF Cardinality(members) = 1 THEN "singleton"
                             ELSE IF Cardinality({m.value : m \in members}) = 1 THEN "consistent"
                             ELSE "conflicting"]
    BY DEF Fuse
  <1> QED
    BY DEF Members, ValuesOf

LEMMA ClusterOf ==
  ASSUME NEW y, NEW m \in y
  PROVE  \E k \in Fuse(y) : k.key = m.key /\ m \in k.members
  <1> DEFINE members == Members(y, m.key)
             k == [id |-> ClusterId(m.key, members), key |-> m.key, members |-> members,
                   status |-> IF Cardinality(members) = 1 THEN "singleton"
                              ELSE IF Cardinality({i.value : i \in members}) = 1 THEN "consistent"
                              ELSE "conflicting"]
  <1>1. k \in Fuse(y)
    BY DEF Fuse, Members
  <1>2. k.key = m.key /\ m \in k.members
    BY DEF Members
  <1> HIDE DEF k
  <1> QED
    BY <1>1, <1>2

\* An identity tells the key and the values.
LEMMA IdentityTells ==
  ASSUME NEW k, NEW l, NEW M, NEW N, ClusterId(k, M) = ClusterId(l, N)
  PROVE  /\ k = l /\ ValuesOf(M) = ValuesOf(N)
         /\ \A v \in ValuesOf(M) : Cardinality({m \in M : m.value = v})
                                   = Cardinality({m \in N : m.value = v})
  <1> DEFINE f == [v \in ValuesOf(M) |-> Cardinality({m \in M : m.value = v})]
             g == [v \in ValuesOf(N) |-> Cardinality({m \in N : m.value = v})]
  <1>1. ClusterId(k, M) = <<k, f>> /\ ClusterId(l, N) = <<l, g>>
    BY DEF ClusterId, ValuesOf
  <1>2. DOMAIN f = ValuesOf(M) /\ DOMAIN g = ValuesOf(N)
    OBVIOUS
  <1>3. /\ \A v \in ValuesOf(M) : f[v] = Cardinality({m \in M : m.value = v})
        /\ \A v \in ValuesOf(N) : g[v] = Cardinality({m \in N : m.value = v})
    OBVIOUS
  <1> HIDE DEF f, g
  <1>4. k = l /\ f = g
    <2>1. \A a, b, c, d : <<a, b>> = <<c, d>> => a = c /\ b = d
      OBVIOUS
    <2> QED
      BY <1>1, <2>1, Zenon
  <1> QED
    BY <1>2, <1>3, <1>4

\* Of candidates of which one set includes the other, a cluster has the same identity
\* only if it is the same.
LEMMA SameCluster ==
  ASSUME NEW y, NEW z, y \subseteq z, IsFiniteSet(z),
         NEW k \in Fuse(y), NEW l \in Fuse(z), k.id = l.id
  PROVE  k = l
  <1>1. ClusterId(k.key, k.members) = ClusterId(l.key, l.members)
    BY ClusterIs
  <1>2. k.key = l.key /\ ValuesOf(k.members) = ValuesOf(l.members)
        /\ \A v \in ValuesOf(k.members) : Cardinality({m \in k.members : m.value = v})
                                         = Cardinality({m \in l.members : m.value = v})
    BY <1>1, IdentityTells
  <1>3. k.members \subseteq l.members /\ l.members \subseteq z
    BY <1>2, ClusterIs DEF Members
  <1>4. ASSUME NEW m \in l.members
        PROVE  m \in k.members
    <2> DEFINE M == {i \in k.members : i.value = m.value}
               N == {i \in l.members : i.value = m.value}
    <2>1. m.value \in ValuesOf(k.members)
      BY <1>2 DEF ValuesOf
    <2>2. Cardinality(N) = Cardinality(M)
      BY <1>2, <2>1
    <2>3. IsFiniteSet(N) /\ M \in SUBSET N
      BY <1>3, FS_Subset
    <2>4. M = N
      BY <2>2, <2>3, FS_Subset
    <2> QED
      BY <2>4
  <1>5. k.members = l.members
    BY <1>3, <1>4
  <1> QED
    BY <1>2, <1>5, ClusterIs

-----------------------------------------------------------------------------
(* What is resolved                                                        *)

LEMMA LeastRank ==
  ASSUME NEW S \in SUBSET Nat, S # {}
  PROVE  Min(S) \in S /\ \A m \in S : Min(S) <= m
  <1>1. \E n \in S : \A m \in S : ~(<<m, n>> \in OpToRel(<, Nat))
    BY NatLessThanWellFounded, WFMin, Zenon
  <1>2. PICK n \in S : \A m \in S : ~(m < n)
    BY <1>1 DEF OpToRel
  <1>3. n \in S /\ \A m \in S : n <= m
    BY <1>2
  <1> QED
    BY <1>3 DEF Min

LEMMA FiniteValues ==
  ASSUME NEW M, IsFiniteSet(M)
  PROVE  IsFiniteSet(ValuesOf(M))
  <1> DEFINE f == [m \in M |-> m.value]
  <1>1. f \in Surjection(M, ValuesOf(M))
    BY DEF Surjection, ValuesOf
  <1> QED
    BY <1>1, FS_Surjection

\* The rank of a document that says a value.
LEMMA VariantIs ==
  ASSUME NEW k, NEW v, NEW m
  PROVE  /\ Variant(k, v, m).value = v
         /\ Variant(k, v, m).docs = {i.doc : i \in {i \in k.members : i.value = v}}
         /\ Variant(k, v, m).ranks \in SUBSET Nat
         /\ \A r : r \in Variant(k, v, m).ranks
                   <=> \E i \in k.members : i.value = v /\ r \in RanksOf(m, i.doc)
  <1> DEFINE docs == {i.doc : i \in {i \in k.members : i.value = v}}
             known == {e \in m.documents : e.doc \in docs}
             ranks == {i \in 1..Len(HierarchyOf(m)) : \E e \in known : e.type = HierarchyOf(m)[i]}
  <1>1. /\ Variant(k, v, m).value = v /\ Variant(k, v, m).docs = docs
        /\ Variant(k, v, m).ranks = ranks
    BY DEF Variant
  <1>2. ranks \in SUBSET Nat
    OBVIOUS
  <1>3. \A r : r \in ranks <=> \E i \in k.members : i.value = v /\ r \in RanksOf(m, i.doc)
    BY DEF RanksOf
  <1> QED
    BY <1>1, <1>2, <1>3

\* The variant that nothing outranks.
Prevails(k, v, m) ==
    \A w \in ValuesOf(k.members) \ {v} :
       /\ Variant(k, v, m).ranks # {} /\ Variant(k, w, m).ranks # {}
       /\ Best(Variant(k, v, m)) <= Best(Variant(k, w, m))

\* What is accepted of a cluster prevails over whatever else is said, and what is not
\* accepted is contested. (resolve_cluster)
LEMMA ResolvedIs ==
  ASSUME NEW y, IsFiniteSet(y), NEW k \in Fuse(y), NEW m,
         NEW d, d = ResolveCluster(k, m)
  PROVE  /\ d.cluster = k.id
         /\ d.status \in AcceptedStatuses =>
               \E v \in ValuesOf(k.members) : d.accepted = {Variant(k, v, m)} /\ Prevails(k, v, m)
         /\ d.status \notin AcceptedStatuses =>
               \E v, w \in ValuesOf(k.members) : v # w
  <1> DEFINE vs == {Variant(k, v, m) : v \in ValuesOf(k.members)}
             top == HierarchyWinners(vs)
             decided(status, winners) == [cluster |-> k.id, status |-> status, accepted |-> winners]
  <1>1. d = IF k.status = "singleton" THEN decided("accepted_complementary", vs)
            ELSE IF k.status = "consistent" THEN decided("accepted_consistent", vs)
            ELSE IF \E v \in vs : v.ranks = {} THEN decided("unresolved_missing_metadata", {})
            ELSE IF Cardinality(top) = 1 THEN decided("resolved_by_hierarchy", top)
            ELSE IF Cardinality(DateWinners(top)) = 1
            THEN decided("resolved_by_date", DateWinners(top))
            ELSE decided("unresolved_tie", {})
    BY DEF ResolveCluster, ValuesOf
  <1>2. IsFiniteSet(k.members) /\ k.members # {}
    BY ClusterIs, FS_Subset DEF Members
  <1>3. IsFiniteSet(ValuesOf(k.members)) /\ ValuesOf(k.members) # {}
    BY <1>2, FiniteValues DEF ValuesOf
  <1>4. IsFiniteSet(vs)
    <2> DEFINE f == [v \in ValuesOf(k.members) |-> Variant(k, v, m)]
    <2>1. f \in Surjection(ValuesOf(k.members), vs)
      BY DEF Surjection
    <2> QED
      BY <1>3, <2>1, FS_Surjection
  <1>5. ASSUME NEW v, ValuesOf(k.members) = {v}
        PROVE  vs = {Variant(k, v, m)} /\ Prevails(k, v, m) /\ v \in ValuesOf(k.members)
    BY <1>5 DEF Prevails
  <1>6. CASE k.status = "singleton"
    <2>1. Cardinality(k.members) = 1
      BY <1>6, ClusterIs
    <2> PICK x : k.members = {x}
      BY <1>2, <2>1, FS_Singleton
    <2>2. ValuesOf(k.members) = {x.value}
      BY DEF ValuesOf
    <2>3. d = decided("accepted_complementary", vs)
      BY <1>1, <1>6
    <2> QED
      BY SMTT(30), <1>5, <2>2, <2>3 DEF AcceptedStatuses
  <1>7. CASE k.status = "consistent"
    <2>1. Cardinality(ValuesOf(k.members)) = 1
      BY <1>7, ClusterIs
    <2> PICK v : ValuesOf(k.members) = {v}
      BY <1>3, <2>1, FS_Singleton
    <2>2. d = decided("accepted_consistent", vs)
      BY <1>1, <1>7
    <2> QED
      BY <1>5, <2>2 DEF AcceptedStatuses
  <1>8. CASE k.status # "singleton" /\ k.status # "consistent"
    <2>1. \E v, w \in ValuesOf(k.members) : v # w
      <3>1. Cardinality(ValuesOf(k.members)) # 1
        BY <1>8, ClusterIs
      <3>2. \A v : ValuesOf(k.members) # {v}
        BY <1>3, <3>1, FS_Singleton
      <3> QED
        BY <1>3, <3>2
    <2>2. ASSUME \A v \in vs : v.ranks # {}, NEW winners \in SUBSET top, Cardinality(winners) = 1
          PROVE  \E v \in ValuesOf(k.members) : winners = {Variant(k, v, m)} /\ Prevails(k, v, m)
      <3>1. winners \in SUBSET vs
        BY DEF HierarchyWinners
      <3>2. PICK t : winners = {t}
        BY <1>4, <2>2, <3>1, FS_Subset, FS_Singleton
      <3>3. t \in top /\ t \in vs
        BY <3>1, <3>2
      <3>4. PICK v \in ValuesOf(k.members) : t = Variant(k, v, m)
        BY <3>3
      <3>5. \A w \in vs : Best(t) <= Best(w)
        BY <3>3 DEF HierarchyWinners
      <3>6. \A w \in ValuesOf(k.members) : Variant(k, w, m) \in vs
        OBVIOUS
      <3> HIDE DEF vs
      <3>7. Prevails(k, v, m)
        BY <2>2, <3>4, <3>5, <3>6 DEF Prevails
      <3> QED
        BY <3>2, <3>4, <3>7
    <2>3. CASE \E v \in vs : v.ranks = {}
      <3>1. d = decided("unresolved_missing_metadata", {})
        BY <1>1, <1>8, <2>3
      <3> QED
        BY <2>1, <3>1 DEF AcceptedStatuses
    <2>4. CASE (\A v \in vs : v.ranks # {}) /\ Cardinality(top) = 1
      <3>1. d = decided("resolved_by_hierarchy", top)
        BY <1>1, <1>8, <2>4
      <3> HIDE DEF top
      <3> QED
        BY <2>2, <2>4, <3>1 DEF AcceptedStatuses
    <2>5. CASE /\ \A v \in vs : v.ranks # {}
               /\ Cardinality(top) # 1 /\ Cardinality(DateWinners(top)) = 1
      <3>1. d = decided("resolved_by_date", DateWinners(top))
        BY <1>1, <1>8, <2>5
      <3>2. DateWinners(top) \in SUBSET top
        BY DEF DateWinners
      <3> HIDE DEF top
      <3> QED
        BY <2>2, <2>5, <3>1, <3>2 DEF AcceptedStatuses
    <2>6. CASE /\ \A v \in vs : v.ranks # {}
               /\ Cardinality(top) # 1 /\ Cardinality(DateWinners(top)) # 1
      <3>1. d = decided("unresolved_tie", {})
        BY <1>1, <1>8, <2>6
      <3> QED
        BY <2>1, <3>1 DEF AcceptedStatuses
    <2> QED
      BY <2>3, <2>4, <2>5, <2>6
  <1> QED
    BY <1>6, <1>7, <1>8

-----------------------------------------------------------------------------
(* What is accepted                                                        *)

Comparable(V) ==
    /\ \A y \in V : IsFiniteSet(y)
    /\ \A y, z \in V : y \subseteq z \/ z \subseteq y

\* A decision that is of a cluster of these claims was made on that cluster, even when
\* the clusters that were resolved are of others.
LEMMA DecidedOn ==
  ASSUME NEW V, Comparable(V), NEW y \in V, NEW z \in V, NEW m,
         CanAccept(Fuse(y), Resolve(Fuse(z), m)),
         NEW d \in Resolve(Fuse(z), m).decisions
  PROVE  \E k \in Fuse(y) : /\ d = ResolveCluster(k, m)
                            /\ \A l \in Fuse(y) : l.id = d.cluster <=> l = k
  <1>1. PICK k \in Fuse(z) : d = ResolveCluster(k, m)
    BY DEF Resolve
  <1>2. d.cluster = k.id
    BY <1>1, ResolvedIs DEF Comparable
  <1>3. PICK l \in Fuse(y) : l.id = d.cluster
    BY DEF CanAccept
  <1>4. l = k
    <2>1. CASE y \subseteq z
      BY <1>2, <1>3, <2>1, SameCluster DEF Comparable
    <2>2. CASE z \subseteq y
      BY <1>2, <1>3, <2>2, SameCluster DEF Comparable
    <2> QED
      BY <2>1, <2>2 DEF Comparable
  <1>5. \A i \in Fuse(y) : i.id = d.cluster <=> i = k
    BY <1>2, <1>3, <1>4, SameCluster DEF Comparable
  <1> QED
    BY <1>1, <1>3, <1>4, <1>5

\* The claim of a decision that accepts.
LEMMA ClaimIs ==
  ASSUME NEW y, IsFiniteSet(y), NEW k \in Fuse(y), NEW m,
         NEW d, d = ResolveCluster(k, m), d.status \in AcceptedStatuses,
         \A l \in Fuse(y) : l.id = d.cluster <=> l = k,
         NEW a, a = AcceptedClaim(Fuse(y), d)
  PROVE  \E v \in ValuesOf(k.members) :
            /\ Prevails(k, v, m)
            /\ a.key = k.key /\ a.value = v /\ a.docs = Variant(k, v, m).docs
  <1>1. PICK v \in ValuesOf(k.members) : d.accepted = {Variant(k, v, m)} /\ Prevails(k, v, m)
    BY ResolvedIs
  <1>2. (CHOOSE l \in Fuse(y) : l.id = d.cluster) = k
    OBVIOUS
  <1>3. TheOnly(d.accepted) = Variant(k, v, m)
    BY <1>1 DEF TheOnly
  <1>4. a.key = k.key /\ a.value = Variant(k, v, m).value /\ a.docs = Variant(k, v, m).docs
    BY <1>2, <1>3 DEF AcceptedClaim
  <1> QED
    BY <1>1, <1>4, VariantIs

\* What prevails has a rank that nothing said otherwise comes before.
LEMMA PrevailingOutranks ==
  ASSUME NEW k, NEW v \in ValuesOf(k.members), NEW m, Prevails(k, v, m),
         NEW others, \A i : i \in others <=> i \in k.members /\ i.value # v
  PROVE  /\ \A i \in others : \E n \in others : n.value = i.value /\ RanksOf(m, n.doc) # {}
         /\ others # {} =>
               \E d \in Variant(k, v, m).docs : \E r \in RanksOf(m, d) :
                  \A i \in others : \A j \in RanksOf(m, i.doc) : r <= j
  <1>1. \A i \in others : i.value \in ValuesOf(k.members) \ {v}
    BY DEF ValuesOf
  <1>2. ASSUME NEW i \in others
        PROVE  \E n \in others : n.value = i.value /\ RanksOf(m, n.doc) # {}
    <2>1. Variant(k, i.value, m).ranks # {}
      BY <1>1 DEF Prevails
    <2>2. PICK r : r \in Variant(k, i.value, m).ranks
      BY <2>1
    <2>3. PICK n \in k.members : n.value = i.value /\ r \in RanksOf(m, n.doc)
      BY <2>2, VariantIs
    <2> QED
      BY <2>3
  <1>3. ASSUME others # {}
        PROVE  \E d \in Variant(k, v, m).docs : \E r \in RanksOf(m, d) :
                  \A i \in others : \A j \in RanksOf(m, i.doc) : r <= j
    <2> DEFINE r == Best(Variant(k, v, m))
    <2>1. Variant(k, v, m).ranks # {} /\ Variant(k, v, m).ranks \in SUBSET Nat
      BY <1>1, <1>3, VariantIs DEF Prevails
    <2>2. r \in Variant(k, v, m).ranks /\ r \in Nat
      BY <2>1, LeastRank DEF Best
    <2>3. PICK n \in k.members : n.value = v /\ r \in RanksOf(m, n.doc)
      BY <2>2, VariantIs
    <2>4. n.doc \in Variant(k, v, m).docs
      <3>1. Variant(k, v, m).docs = {i.doc : i \in {i \in k.members : i.value = v}}
        BY VariantIs
      <3> QED
        BY <2>3, <3>1
    <2>5. ASSUME NEW i \in others, NEW j \in RanksOf(m, i.doc)
          PROVE  r <= j
      <3> DEFINE w == Variant(k, i.value, m)
      <3>1. w.ranks \in SUBSET Nat /\ j \in w.ranks
        BY VariantIs
      <3>2. Best(w) \in Nat /\ Best(w) <= j
        BY <3>1, LeastRank DEF Best
      <3>3. r <= Best(w)
        BY <1>1 DEF Prevails
      <3>4. j \in Nat
        BY <3>1
      <3> QED
        BY <2>2, <3>2, <3>3, <3>4
    <2> QED
      BY <2>3, <2>4, <2>5
  <1> QED
    BY <1>2, <1>3

\* Of claims of which one set includes the other, whatever can be accepted is
\* authoritative. (canonicalize_claims)
LEMMA AcceptedAuthoritative ==
  ASSUME NEW V, Comparable(V), NEW y \in V, NEW z \in V, NEW m,
         NEW fusion, fusion = Fuse(y), NEW resolution, resolution = Resolve(Fuse(z), m),
         CanAccept(fusion, resolution)
  PROVE  Authoritative(fusion, resolution, Accept(fusion, resolution))
  <1> DEFINE said == UNION {k.members : k \in fusion}
             decided == {d \in resolution.decisions : d.status \in AcceptedStatuses}
             accepted == Accept(fusion, resolution)
  <1>1. IsFiniteSet(y)
    BY DEF Comparable
  <1>2. \A n : n \in said <=> n \in y
    <2>1. \A k \in fusion : k.members \subseteq y
      BY ClusterIs DEF Members
    <2>2. \A n \in y : \E k \in fusion : n \in k.members
      BY ClusterOf
    <2> QED
      BY <2>1, <2>2
  <1>3. accepted.claims = {AcceptedClaim(fusion, d) : d \in decided}
        /\ accepted.pending = {k.id : k \in fusion} \ {d.cluster : d \in decided}
    BY DEF Accept
  <1>4. resolution.manifest = m
    BY DEF Resolve
  <1>5. \A d \in resolution.decisions :
           \E k \in fusion : /\ d = ResolveCluster(k, m)
                             /\ \A l \in fusion : l.id = d.cluster <=> l = k
    BY DecidedOn
  <1> HIDE DEF decided, accepted
  <1>6. ASSUME NEW n \in said
        PROVE  \/ \E a \in accepted.claims : a.key = n.key
               \/ \E p \in accepted.pending :
                    /\ p[1] = n.key
                    /\ \/ \E o \in said : o.key = n.key /\ o.value # n.value
                       \/ \A d \in resolution.decisions : d.cluster # p
    <2>1. PICK k \in fusion : k.key = n.key /\ n \in k.members
      BY <1>2, ClusterOf
    <2>2. k.id[1] = n.key
      <3>1. k.id = ClusterId(k.key, k.members)
        BY ClusterIs
      <3> QED
        BY <2>1, <3>1 DEF ClusterId
    <2>3. CASE \E d \in decided : d.cluster = k.id
      <3>1. PICK d \in decided : d.cluster = k.id
        BY <2>3
      <3>2. d \in resolution.decisions /\ d.status \in AcceptedStatuses
        BY <3>1 DEF decided
      <3>3. d = ResolveCluster(k, m) /\ \A l \in fusion : l.id = d.cluster <=> l = k
        BY <1>5, <3>1, <3>2
      <3>4. PICK a : a = AcceptedClaim(fusion, d)
        OBVIOUS
      <3>5. a.key = k.key
        BY <1>1, <3>2, <3>3, <3>4, ClaimIs
      <3> QED
        BY <1>3, <2>1, <3>1, <3>4, <3>5
    <2>4. CASE \A d \in decided : d.cluster # k.id
      <3>1. k.id \in accepted.pending
        BY <1>3, <2>4
      <3>2. ASSUME NEW d \in resolution.decisions, d.cluster = k.id
            PROVE  \E o \in said : o.key = n.key /\ o.value # n.value
        <4>1. d = ResolveCluster(k, m) /\ d.status \notin AcceptedStatuses
          BY <1>5, <2>4, <3>2 DEF decided
        <4>2. PICK v, w \in ValuesOf(k.members) : v # w
          BY <1>1, <4>1, ResolvedIs
        <4>3. PICK o \in k.members : o.value # n.value
          BY <4>2 DEF ValuesOf
        <4>4. o \in y /\ o.key = k.key
          BY ClusterIs DEF Members
        <4> QED
          BY <1>2, <2>1, <4>3, <4>4
      <3> QED
        BY <2>2, <3>1, <3>2
    <2> QED
      BY <2>3, <2>4
  <1>7. ASSUME NEW a \in accepted.claims
        PROVE  LET others == {n \in said : n.key = a.key /\ n.value # a.value}
               IN  /\ \A n \in others :
                        \E o \in others : o.value = n.value /\ RanksOf(m, o.doc) # {}
                   /\ others # {} =>
                        \E d \in a.docs : \E i \in RanksOf(m, d) :
                           \A n \in others : \A j \in RanksOf(m, n.doc) : i <= j
    <2>1. PICK d \in resolution.decisions :
             d.status \in AcceptedStatuses /\ a = AcceptedClaim(fusion, d)
      BY <1>3 DEF decided
    <2>2. PICK k \in fusion : d = ResolveCluster(k, m) /\ \A l \in fusion : l.id = d.cluster <=> l = k
      BY <1>5
    <2>3. PICK v \in ValuesOf(k.members) :
             /\ Prevails(k, v, m)
             /\ a.key = k.key /\ a.value = v /\ a.docs = Variant(k, v, m).docs
      BY <1>1, <2>1, <2>2, ClaimIs
    <2> DEFINE others == {n \in said : n.key = a.key /\ n.value # a.value}
    <2>4. \A i : i \in others <=> i \in k.members /\ i.value # v
      BY <1>2, <2>3, ClusterIs DEF Members
    <2> HIDE DEF others, said
    <2>5. /\ \A n \in others : \E o \in others : o.value = n.value /\ RanksOf(m, o.doc) # {}
          /\ others # {} =>
                \E i \in Variant(k, v, m).docs : \E r \in RanksOf(m, i) :
                   \A n \in others : \A j \in RanksOf(m, n.doc) : r <= j
      <3>1. Prevails(k, v, m)
        BY <2>3
      <3> HIDE <2>3
      <3> QED
        BY <2>4, <3>1, PrevailingOutranks
    <2>6. Variant(k, v, m).docs = a.docs
      BY <2>3
    <2> QED
      BY <2>5, <2>6 DEF others, said
  <1>8. Authoritative(fusion, resolution, accepted) <=>
          /\ \A n \in said :
               \/ \E a \in accepted.claims : a.key = n.key
               \/ \E p \in accepted.pending :
                    /\ p[1] = n.key
                    /\ \/ \E o \in said : o.key = n.key /\ o.value # n.value
                       \/ \A d \in resolution.decisions : d.cluster # p
          /\ \A a \in accepted.claims :
               LET others == {n \in said : n.key = a.key /\ n.value # a.value}
               IN  /\ \A n \in others :
                        \E o \in others : o.value = n.value /\ RanksOf(m, o.doc) # {}
                   /\ others # {} =>
                        \E d \in a.docs : \E i \in RanksOf(m, d) :
                           \A n \in others : \A j \in RanksOf(m, n.doc) : i <= j
    BY <1>4 DEF Authoritative
  <1> HIDE DEF said
  <1> QED
    BY <1>6, <1>7, <1>8 DEF accepted

-----------------------------------------------------------------------------
(* What the files rest on                                                  *)

\* A file of a stage is made of one of these sets of claims.
Legit(V, stage, x) ==
    CASE stage = "observations" -> ExtractClaims(x) \in V
      [] stage = "candidates" -> x \in V
      [] stage = "fusion" -> \E y \in V : x = Fuse(y)
      [] stage = "resolution" -> \E y \in V : \E m : x = Resolve(Fuse(y), m)
      [] OTHER -> TRUE

\* What can be accepted of the files as they are.
AcceptedNow(x) ==
    /\ files.fusion # {} /\ files.resolution # {}
    /\ CanAccept(TheOnly(files.fusion), TheOnly(files.resolution))
    /\ x = Accept(TheOnly(files.fusion), TheOnly(files.resolution))

\* A stage that was asked for comes right before the stage that asked for it.
TodoOK(todo) ==
    /\ todo \in Seq(KnowledgeStages \X BOOLEAN) /\ Len(todo) > 0
    /\ \A i \in 1..Len(todo) :
         todo[i][2] => /\ i + 1 \in 1..Len(todo)
                       /\ todo[i + 1][1] \in DOMAIN Upstream
                       /\ Upstream[todo[i + 1][1]] = todo[i][1]

GivenOK(V, stage, given) ==
    given # {} => /\ stage \in DOMAIN Upstream
                  /\ \A x \in given : Legit(V, Upstream[stage], x)

MadeOK(V, stage, made) ==
    \A x \in made : Legit(V, stage, x) /\ (stage = "accepted" => AcceptedNow(x))

\* What a request holds rests on these sets too; an import adds to the pages.
RequestRests(V, q) ==
    /\ q.pc = "import" => index.pages \subseteq q.read.pages /\ IsFiniteSet(Claims(q.read))
    /\ q.pc = "run" =>
         /\ TodoOK(q.todo)
         /\ GivenOK(V, Head(q.todo)[1], q.given)
         /\ MadeOK(V, Head(q.todo)[1], q.made)

FilesRest(V) ==
    /\ DOMAIN files = KnowledgeStages \cup TechnicalStages
    /\ \A stage \in KnowledgeStages : \A x \in files[stage] : Legit(V, stage, x)

\* The sets of claims there ever were, the last of which includes the others.
IndexRests(V) ==
    /\ Comparable(V)
    /\ Claims(index) \in V
    /\ \A y \in V : y \subseteq Claims(index)

Rests(V) ==
    /\ IndexRests(V)
    /\ FilesRest(V)
    /\ \A c \in load.clients : RequestRests(V, client[c])

RestInv == Alone => \E V : Rests(V)

LEMMA OneClient ==
  ASSUME load.clients \subseteq Clients, Alone
  PROVE  \A c, d \in load.clients : c = d
  <1>1. IsFiniteSet(load.clients) /\ Cardinality(load.clients) \in Nat
    BY ClientsAssumption, FS_Subset, FS_CardinalityType
  <1>2. CASE Cardinality(load.clients) = 0
    BY <1>1, <1>2, FS_EmptySet
  <1>3. CASE Cardinality(load.clients) = 1
    BY <1>1, <1>3, FS_Singleton
  <1> QED
    BY <1>1, <1>2, <1>3 DEF Alone

LEMMA LegitMore ==
  ASSUME NEW V, NEW W, V \subseteq W, NEW stage, NEW x, Legit(V, stage, x)
  PROVE  Legit(W, stage, x)
  BY DEF Legit

LEMMA IdleRests ==
  ASSUME NEW V
  PROVE  RequestRests(V, Idle)
  BY DEF Idle, RequestRests

LEMMA RestsByParts ==
  ASSUME IndexInv, Alone, NEW V, Rests(V), NEW c \in load.clients, NEW q, Goes(c, q),
         UNCHANGED <<load, index, files>>, RequestRests(V, q)
  PROVE  Rests(V)'
  <1>1. client'[c] = q
    BY GoesTo DEF IndexInv
  <1>2. \A d \in load.clients : client'[d] = q
    BY <1>1, OneClient DEF IndexInv, KnowledgeShape
  <1>3. RequestRests(V, q)'
    BY DEF RequestRests, MadeOK, AcceptedNow
  <1>4. (\A d \in load.clients : RequestRests(V, client[d]))'
    BY <1>2, <1>3
  <1>5. IndexRests(V)' /\ FilesRest(V)'
    BY DEF Rests, IndexRests, FilesRest
  <1> QED
    BY <1>4, <1>5 DEF Rests

\* One path adds a page, if any.
LEMMA IngestPages ==
  ASSUME NEW st, IsReading(st), NEW p, NEW next, next = Ingest(st, p)
  PROVE  \/ next.pages = st.pages
         \/ \E page : page.says = p.says /\ next.pages = st.pages \cup {page}
  <1> DEFINE previous == {d \in st.docs : d.number = p.number /\ ~d.superseded}
             current == CHOOSE d \in previous : \A e \in previous : d.revision >= e.revision
             newer == previous = {} \/ IsNewerOrEqual(p.revision, current)
             new == [id |-> <<st.at, p.file>>, paper |-> p, number |-> p.number,
                     revision |-> p.revision, type |-> p.type, role |-> p.role,
                     superseded |-> ~newer, at |-> st.at]
             page == [doc |-> new.id, says |-> p.says, marks |-> p.marks]
  <1>1. \/ \E r : next = [st EXCEPT !.results = r]
        \/ \E d, r : next = [st EXCEPT !.docs = d, !.results = r]
        \/ \E d, k, r : next = [st EXCEPT !.docs = d,
                                          !.pages = IF newer THEN @ \cup {page} ELSE @,
                                          !.known = k, !.results = r]
    BY DEF Ingest
  <1>2. page.says = p.says
    OBVIOUS
  <1> HIDE DEF page, newer
  <1>3. next.pages = st.pages \/ next.pages = st.pages \cup {page}
    BY <1>1 DEF IsReading
  <1> QED
    BY SMTT(30), <1>2, <1>3

\* An import ends with all that was said before, and what its paths say.
LEMMA ImportRests ==
  ASSUME IndexInv, Alone, NEW V, Rests(V), NEW c \in load.clients,
         \/ \E paths \in Batches : StartImport(c, paths)
         \/ ReadPath(c)
         \/ SaveIndex(c)
  PROVE  \E W : Rests(W)'
  <1>1. RequestRests(V, client[c]) /\ ImportOK(client[c])
    BY DEF Rests, IndexInv
  <1>2. IsFiniteSet(Claims(index))
    BY DEF Rests, IndexRests, Comparable
  <1>3. ASSUME NEW paths \in Batches, StartImport(c, paths)
        PROVE  Rests(V)'
    <2> PICK q : q = [pc |-> "import", left |-> paths, read |-> Opened(index, imports')]
      OBVIOUS
    <2>1. Goes(c, q) /\ UNCHANGED <<load, index, files>>
      BY <1>3 DEF StartImport
    <2>2. q.pc = "import" /\ q.read.pages = index.pages
      BY DEF Opened
    <2>3. \A x : x \in Claims(q.read) <=> x \in Claims(index)
      BY <2>2, ClaimsAreSaid
    <2>4. Claims(q.read) = Claims(index)
      BY <2>3
    <2>5. RequestRests(V, q)
      BY <1>2, <2>2, <2>4 DEF RequestRests
    <2> QED
      BY <2>1, <2>5, RestsByParts
  <1>4. CASE ReadPath(c)
    <2> DEFINE r == client[c]
    <2> PICK p \in r.left : Goes(c, [r EXCEPT !.left = @ \ {p}, !.read = Ingest(@, p)])
      BY <1>4 DEF ReadPath
    <2> PICK q : q = [r EXCEPT !.left = @ \ {p}, !.read = Ingest(@, p)]
      OBVIOUS
    <2> PICK next : next = Ingest(r.read, p)
      OBVIOUS
    <2>1. Goes(c, q) /\ UNCHANGED <<load, index, files>> /\ r.pc = "import"
      BY <1>4 DEF ReadPath, knowledgeDocs
    <2>2. q.pc = "import" /\ q.read = next
      BY <1>1, <2>1 DEF ImportOK
    <2>3. IsReading(r.read) /\ IsPath(p)
      BY <1>1, <2>1 DEF ImportOK
    <2>4. \/ next.pages = r.read.pages
          \/ \E page : page.says = p.says /\ next.pages = r.read.pages \cup {page}
      BY <2>3, IngestPages
    <2>5. index.pages \subseteq r.read.pages /\ IsFiniteSet(Claims(r.read))
      BY <1>1, <2>1 DEF RequestRests
    <2>6. index.pages \subseteq next.pages /\ IsFiniteSet(Claims(next))
      <3>1. CASE next.pages = r.read.pages
        <4>1. \A x : x \in Claims(next) <=> x \in Claims(r.read)
          BY <3>1, ClaimsAreSaid
        <4>2. Claims(next) = Claims(r.read)
          BY <4>1
        <4> QED
          BY <2>5, <3>1, <4>2
      <3>2. ASSUME NEW page, page.says = p.says, next.pages = r.read.pages \cup {page}
            PROVE  index.pages \subseteq next.pages /\ IsFiniteSet(Claims(next))
        <4>1. IsFiniteSet(page.says)
          BY <2>3, <3>2 DEF IsPath
        <4> QED
          BY <2>5, <3>2, <4>1, OneMorePage
      <3> QED
        BY <2>4, <3>1, <3>2
    <2>7. RequestRests(V, q)
      BY <2>2, <2>6 DEF RequestRests
    <2> QED
      BY <2>1, <2>7, RestsByParts
  <1>5. CASE SaveIndex(c)
    <2> DEFINE st == client[c].read
    <2>1. /\ index' = Updated(st) /\ Goes(c, Idle) /\ UNCHANGED <<load, files>>
          /\ client[c].pc = "import"
      BY <1>5 DEF SaveIndex, Ends
    <2>2. index.pages \subseteq st.pages /\ IsFiniteSet(Claims(st))
      BY <1>1, <2>1 DEF RequestRests
    <2>3. index'.pages = st.pages
      BY <2>1 DEF Updated
    <2>4. PICK jx : jx = index'
      OBVIOUS
    <2> PICK W : W = V \cup {Claims(jx)}
      OBVIOUS
    <2>5. Claims(index)' = Claims(jx)
      BY <2>4
    <2>6. \A x : x \in Claims(jx) <=> x \in Claims(st)
      BY <2>3, <2>4, ClaimsAreSaid
    <2>7. Claims(jx) = Claims(st)
      BY <2>6
    <2>8. Claims(index) \subseteq Claims(jx) /\ IsFiniteSet(Claims(jx))
      <3>1. PICK ix : ix = index
        OBVIOUS
      <3>2. ix.pages \subseteq jx.pages
        BY <2>2, <2>3, <2>4, <3>1
      <3>3. Claims(ix) \subseteq Claims(jx)
        BY <3>2, ClaimsGrow
      <3> QED
        BY <2>2, <2>7, <3>1, <3>3
    <2>9. \A y \in V : y \subseteq Claims(jx)
      BY <2>8 DEF Rests, IndexRests
    <2>10. IndexRests(W)'
      <3>1. \A y \in V : IsFiniteSet(y) /\ \A z \in V : y \subseteq z \/ z \subseteq y
        BY DEF Rests, IndexRests, Comparable
      <3>2. Comparable(W)
        BY <2>8, <2>9, <3>1 DEF Comparable
      <3>3. Claims(jx) \in W /\ \A y \in W : y \subseteq Claims(jx)
        BY <2>9
      <3> QED
        BY <2>5, <3>2, <3>3 DEF IndexRests
    <2>11. FilesRest(W)'
      <3>1. FilesRest(V)
        BY DEF Rests
      <3> QED
        BY <2>1, <3>1, LegitMore DEF FilesRest
    <2>12. (\A d \in load.clients : RequestRests(W, client[d]))'
      <3>1. \A d \in load.clients : client'[d] = Idle
        BY <2>1, GoesTo, OneClient DEF IndexInv, KnowledgeShape
      <3>2. RequestRests(W, Idle)'
        BY DEF RequestRests, Idle
      <3> QED
        BY <2>1, <3>1, <3>2
    <2>13. Rests(W)'
      BY <2>10, <2>11, <2>12 DEF Rests
    <2> QED
      BY <2>13
  <1> QED
    BY <1>3, <1>4, <1>5

\* A request that begins with stages that nobody asked for.
LEMMA StartRests ==
  ASSUME NEW V, NEW q, q.pc = "run", TodoOK(q.todo), q.given = {}, q.made = {}
  PROVE  RequestRests(V, q)
  BY DEF RequestRests, GivenOK, MadeOK

LEMMA Unasked ==
  ASSUME NEW stage \in KnowledgeStages, NEW b \in BOOLEAN
  PROVE  /\ <<stage, b>> \in KnowledgeStages \X BOOLEAN
         /\ <<stage, b>>[1] = stage /\ <<stage, b>>[2] = b
  OBVIOUS

LEMMA TodosOK ==
  /\ \A stage \in KnowledgeStages : TodoOK(<<<<stage, FALSE>>>>)
  /\ TodoOK(<<<<"candidates", FALSE>>, <<"fusion", FALSE>>>>)
  /\ TodoOK(<<<<"manifest", FALSE>>, <<"resolution", FALSE>>, <<"accepted", FALSE>>>>)
  <1>1. \A stage \in KnowledgeStages :
           <<stage, FALSE>> \in KnowledgeStages \X BOOLEAN /\ ~<<stage, FALSE>>[2]
    BY Unasked
  <1>2. \A d \in KnowledgeStages \X BOOLEAN : ~d[2] => TodoOK(<<d>>)
    BY DEF TodoOK
  <1>3. \A d, e \in KnowledgeStages \X BOOLEAN : ~d[2] /\ ~e[2] => TodoOK(<<d, e>>)
    <2> TAKE d, e \in KnowledgeStages \X BOOLEAN
    <2> PICK todo : todo = <<d, e>>
      OBVIOUS
    <2>1. /\ todo \in Seq(KnowledgeStages \X BOOLEAN) /\ Len(todo) = 2
          /\ todo[1] = d /\ todo[2] = e
      OBVIOUS
    <2>2. \A i \in 1..Len(todo) : todo[i] \in {d, e}
      BY <2>1
    <2> QED
      BY <2>1, <2>2 DEF TodoOK
  <1>4. \A d, e, f \in KnowledgeStages \X BOOLEAN :
           ~d[2] /\ ~e[2] /\ ~f[2] => TodoOK(<<d, e, f>>)
    <2> TAKE d, e, f \in KnowledgeStages \X BOOLEAN
    <2> PICK todo : todo = <<d, e, f>>
      OBVIOUS
    <2>1. /\ todo \in Seq(KnowledgeStages \X BOOLEAN) /\ Len(todo) = 3
          /\ todo[1] = d /\ todo[2] = e /\ todo[3] = f
      OBVIOUS
    <2>2. \A i \in 1..Len(todo) : todo[i] \in {d, e, f}
      BY <2>1
    <2> QED
      BY <2>1, <2>2 DEF TodoOK
  <1>5. {"candidates", "fusion", "manifest", "resolution", "accepted"} \subseteq KnowledgeStages
    BY DEF KnowledgeStages
  <1> QED
    BY <1>1, <1>2, <1>3, <1>4, <1>5

\* What a stage makes rests on what the stage before made of these sets.
LEMMA MadeRests ==
  ASSUME NEW V, Rests(V), NEW q, NEW stage \in KnowledgeStages,
         GivenOK(V, stage, q.given), MayRun(q, stage),
         ~(stage \in DOMAIN Upstream /\ q.given = {} /\ files[Upstream[stage]] = {})
  PROVE  MadeOK(V, stage, {Made(q, stage)})
  <1>1. \A s : s \in DOMAIN Upstream => Upstream[s] \in KnowledgeStages
    BY DEF Upstream, KnowledgeStages
  <1>2. ASSUME stage \in DOMAIN Upstream
        PROVE  Legit(V, Upstream[stage], Input(q, Upstream[stage]))
    <2>1. CASE q.given # {}
      <3>1. TheOnly(q.given) \in q.given
        BY <2>1 DEF TheOnly
      <3> QED
        BY <2>1, <3>1 DEF GivenOK, Input
    <2>2. CASE q.given = {}
      <3>1. TheOnly(files[Upstream[stage]]) \in files[Upstream[stage]]
        BY <1>2, <2>2 DEF TheOnly
      <3> QED
        BY <1>1, <1>2, <2>2, <3>1 DEF Input, Rests, FilesRest
    <2> QED
      BY <2>1, <2>2
  <1>3. CASE stage = "observations"
    <2>1. Claims(index) \in V
      BY DEF Rests, IndexRests
    <2> QED
      BY <1>3, <2>1 DEF MadeOK, Made, Legit, Claims
  <1>4. CASE stage = "candidates"
    <2>1. Legit(V, "observations", Input(q, "observations"))
      BY <1>2, <1>4 DEF Upstream
    <2>2. ExtractClaims(Input(q, "observations")) \in V
      BY <2>1 DEF Legit
    <2> QED
      BY <1>4, <2>2 DEF MadeOK, Made, Legit
  <1>5. CASE stage = "fusion"
    <2>1. Legit(V, "candidates", Input(q, "candidates"))
      BY <1>2, <1>5 DEF Upstream
    <2>2. Input(q, "candidates") \in V
      BY <2>1 DEF Legit
    <2> QED
      BY <1>5, <2>2 DEF MadeOK, Made, Legit
  <1>6. CASE stage = "resolution"
    <2>1. Legit(V, "fusion", Input(q, "fusion"))
      BY <1>2, <1>6 DEF Upstream
    <2>2. \E y \in V : Input(q, "fusion") = Fuse(y)
      BY <2>1 DEF Legit
    <2>3. Made(q, stage) = Resolve(Input(q, "fusion"), ManifestOf(q))
      BY <1>6 DEF Made
    <2> QED
      BY <1>6, <2>2, <2>3 DEF MadeOK, Legit
  <1>7. CASE stage = "accepted"
    <2>1. AcceptedNow(Made(q, stage))
      BY <1>7 DEF MayRun, Made, AcceptedNow
    <2> QED
      BY <1>7, <2>1 DEF MadeOK, Legit
  <1>8. CASE stage \in {"discovery", "manifest"}
    BY <1>8 DEF MadeOK, Legit
  <1> QED
    BY <1>3, <1>4, <1>5, <1>6, <1>7, <1>8 DEF KnowledgeStages

LEMMA TodoLength ==
  ASSUME NEW todo, TodoOK(todo)
  PROVE  /\ todo \in Seq(KnowledgeStages \X BOOLEAN)
         /\ Len(todo) \in Nat /\ Len(todo) > 0
  <1> PICK S : S = KnowledgeStages \X BOOLEAN
    OBVIOUS
  <1>1. todo \in Seq(S) /\ Len(todo) > 0
    BY DEF TodoOK
  <1>2. Len(todo) \in Nat
    BY <1>1
  <1> QED
    BY <1>1, <1>2

\* A sequence with one more in front.
LEMMA InFront ==
  ASSUME NEW S, NEW first \in S, NEW todo \in Seq(S), NEW more, more = <<first>> \o todo
  PROVE  /\ more \in Seq(S)
         /\ Len(more) = Len(todo) + 1
         /\ more[1] = first
         /\ \A i \in 1..Len(todo) : more[i + 1] = todo[i]
  OBVIOUS

\* The stage before comes first.
LEMMA TodoBefore ==
  ASSUME NEW todo, TodoOK(todo), Head(todo)[1] \in DOMAIN Upstream,
         NEW first \in KnowledgeStages \X BOOLEAN, first[1] = Upstream[Head(todo)[1]],
         NEW more, more = <<first>> \o todo
  PROVE  TodoOK(more)
  <1>1. todo \in Seq(KnowledgeStages \X BOOLEAN) /\ Len(todo) \in Nat \ {0}
    BY TodoLength
  <1>3. /\ more \in Seq(KnowledgeStages \X BOOLEAN) /\ Len(more) = Len(todo) + 1
        /\ more[1] = first /\ \A i \in 1..Len(todo) : more[i + 1] = todo[i]
    BY <1>1, InFront, SMT
  <1>4. Head(todo) = todo[1]
    BY <1>1
  <1>5. first[1] = Upstream[todo[1][1]]
    BY <1>4
  <1>6. ASSUME NEW i \in 1..Len(more), more[i][2]
        PROVE  /\ i + 1 \in 1..Len(more)
               /\ more[i + 1][1] \in DOMAIN Upstream
               /\ Upstream[more[i + 1][1]] = more[i][1]
    <2>1. CASE i = 1
      <3>1. more[2] = todo[1]
        BY <1>1, <1>3
      <3> QED
        BY <1>1, <1>3, <1>4, <1>5, <2>1, <3>1
    <2>2. CASE i # 1
      <3> PICK j : j = i - 1
        OBVIOUS
      <3>1. j \in 1..Len(todo) /\ i = j + 1
        BY <1>1, <1>3, <2>2
      <3>2. more[i] = todo[j] /\ todo[j][2]
        BY <1>3, <1>6, <3>1
      <3>3. /\ j + 1 \in 1..Len(todo)
            /\ todo[j + 1][1] \in DOMAIN Upstream
            /\ Upstream[todo[j + 1][1]] = todo[j][1]
        BY <3>1, <3>2 DEF TodoOK
      <3>4. more[i + 1] = todo[j + 1] /\ i + 1 \in 1..Len(more)
        BY <1>1, <1>3, <3>1, <3>3
      <3> QED
        BY <3>2, <3>3, <3>4
    <2> QED
      BY <2>1, <2>2
  <1>7. Len(more) > 0
    BY <1>1, <1>3
  <1> QED
    BY <1>3, <1>6, <1>7 DEF TodoOK

\* What comes after a stage, and who asked for it.
LEMMA TodoAfter ==
  ASSUME NEW todo, TodoOK(todo), Len(todo) # 1
  PROVE  /\ TodoOK(Tail(todo))
         /\ Head(todo)[2] => /\ Head(Tail(todo))[1] \in DOMAIN Upstream
                             /\ Upstream[Head(Tail(todo))[1]] = Head(todo)[1]
  <1>1. /\ todo \in Seq(KnowledgeStages \X BOOLEAN)
        /\ Len(todo) \in Nat /\ Len(todo) > 1
    <2> PICK n \in Nat : n = Len(todo) /\ n > 0
      BY TodoLength
    <2>1. n > 1
      OBVIOUS
    <2> QED
      BY <2>1, TodoLength
  <1> PICK rest : rest = Tail(todo)
    OBVIOUS
  <1>2. /\ rest \in Seq(KnowledgeStages \X BOOLEAN) /\ Len(rest) = Len(todo) - 1
        /\ \A i \in 1..Len(rest) : rest[i] = todo[i + 1]
    <2> PICK S : S = KnowledgeStages \X BOOLEAN
      OBVIOUS
    <2>1. todo # <<>> /\ todo \in Seq(S)
      BY <1>1
    <2>2. /\ Tail(todo) \in Seq(S) /\ Len(Tail(todo)) = Len(todo) - 1
          /\ \A i \in 1..Len(Tail(todo)) : Tail(todo)[i] = todo[i + 1]
      BY <2>1, HeadTailProperties
    <2> QED
      BY <2>2
  <1>3. Len(rest) > 0 /\ Head(rest) = todo[2] /\ Head(todo) = todo[1]
    BY <1>1, <1>2
  <1>4. ASSUME NEW i \in 1..Len(rest), rest[i][2]
        PROVE  /\ i + 1 \in 1..Len(rest)
               /\ rest[i + 1][1] \in DOMAIN Upstream
               /\ Upstream[rest[i + 1][1]] = rest[i][1]
    <2> PICK j : j = i + 1
      OBVIOUS
    <2>1. j \in 1..Len(todo) /\ rest[i] = todo[j]
      BY <1>1, <1>2
    <2>2. /\ j + 1 \in 1..Len(todo)
          /\ todo[j + 1][1] \in DOMAIN Upstream
          /\ Upstream[todo[j + 1][1]] = todo[j][1]
      BY <1>4, <2>1 DEF TodoOK
    <2>3. i + 1 \in 1..Len(rest) /\ rest[i + 1] = todo[j + 1]
      BY <1>1, <1>2, <2>2
    <2> QED
      BY <2>1, <2>2, <2>3
  <1>5. TodoOK(rest)
    BY <1>2, <1>3, <1>4 DEF TodoOK
  <1>6. 1 \in 1..Len(todo) /\ 1 + 1 = 2
    BY <1>1
  <1>7. todo[1][2] => /\ todo[2][1] \in DOMAIN Upstream
                      /\ Upstream[todo[2][1]] = todo[1][1]
    BY <1>6 DEF TodoOK
  <1> QED
    BY <1>3, <1>5, <1>7

\* A request for stages begins and runs one.
LEMMA StagesRest ==
  ASSUME IndexInv, Alone, NEW V, Rests(V), NEW c \in load.clients,
         \/ StartAnalyze(c)
         \/ \E posted \in Authorities(index) : StartResolve(c, posted)
         \/ \E stage \in Commands : StartCommand(c, stage)
         \/ RunStage(c)
  PROVE  Rests(V)'
  <1>1. ASSUME NEW todo, TodoOK(todo)
        PROVE  RequestRests(V, Stages(todo))
    BY <1>1, StartRests DEF Stages
  <1>2. CASE StartAnalyze(c)
    BY <1>1, <1>2, TodosOK, RestsByParts DEF StartAnalyze, knowledgeDocs
  <1>3. ASSUME NEW posted \in Authorities(index), StartResolve(c, posted)
        PROVE  Rests(V)'
    <2> PICK todo : todo = <<<<"manifest", FALSE>>, <<"resolution", FALSE>>, <<"accepted", FALSE>>>>
      OBVIOUS
    <2> PICK q : q = [Stages(todo) EXCEPT !.manifest = {[hierarchy |-> <<>>, documents |-> posted]}]
      OBVIOUS
    <2>1. Goes(c, q) /\ UNCHANGED <<load, index, files>>
      BY <1>3 DEF StartResolve, knowledgeDocs
    <2>2. TodoOK(todo)
      BY TodosOK
    <2> HIDE DEF TodoOK
    <2>3. q.pc = "run" /\ q.todo = todo /\ q.given = {} /\ q.made = {}
      BY DEF Stages
    <2>4. RequestRests(V, q)
      BY <2>2, <2>3, StartRests
    <2> QED
      BY <2>1, <2>4, RestsByParts
  <1>4. ASSUME NEW stage \in Commands, StartCommand(c, stage)
        PROVE  Rests(V)'
    <2>1. TodoOK(<<<<stage, FALSE>>>>)
      BY TodosOK DEF Commands, KnowledgeStages
    <2> QED
      BY <1>1, <1>4, <2>1, RestsByParts DEF StartCommand, knowledgeDocs
  <1>5. CASE RunStage(c)
    <2> PICK q : q = client[c]
      OBVIOUS
    <2> PICK stage : stage = Head(q.todo)[1]
      BY SMTT(30)
    <2>1. /\ q.pc = "run" /\ q.made = {} /\ stage \in KnowledgeStages
          /\ UNCHANGED <<load, index, files>>
          /\ RequestRests(V, q) /\ RunOK(q)
      BY <1>5 DEF RunStage, knowledgeDocs, Rests, IndexInv
    <2>2. TodoOK(q.todo) /\ GivenOK(V, stage, q.given)
      BY <2>1 DEF RequestRests
    <2>3. CASE stage \in DOMAIN Upstream /\ q.given = {} /\ files[Upstream[stage]] = {}
      <3> PICK first : first = <<Upstream[stage], TRUE>>
        OBVIOUS
      <3> PICK more : more = <<first>> \o q.todo
        OBVIOUS
      <3> PICK r : r = [q EXCEPT !.todo = more]
        OBVIOUS
      <3>1. Goes(c, r)
        BY <1>5, <2>3 DEF RunStage
      <3>2. Upstream[stage] \in KnowledgeStages
        BY <2>3 DEF Upstream, KnowledgeStages
      <3>3. first \in KnowledgeStages \X BOOLEAN /\ first[1] = Upstream[stage]
        BY <3>2, Unasked
      <3>4. TodoOK(more)
        BY <2>2, <2>3, <3>3, TodoBefore
      <3>5. r.pc = "run" /\ r.todo = more /\ r.given = {} /\ r.made = {}
        BY SMTT(30), <2>1, <2>3 DEF RunOK
      <3>6. RequestRests(V, r)
        BY <3>4, <3>5, StartRests
      <3> QED
        BY <2>1, <3>1, <3>6, RestsByParts
    <2>4. CASE /\ ~(stage \in DOMAIN Upstream /\ q.given = {} /\ files[Upstream[stage]] = {})
               /\ MayRun(q, stage)
      <3> PICK r : r = [q EXCEPT !.made = {Made(q, stage)}]
        OBVIOUS
      <3>1. Goes(c, r)
        BY <1>5, <2>4 DEF RunStage
      <3>2. MadeOK(V, stage, {Made(q, stage)})
        BY <2>1, <2>2, <2>4, MadeRests
      <3>3. r.pc = "run" /\ r.todo = q.todo /\ r.given = q.given /\ r.made = {Made(q, stage)}
        BY <2>1 DEF RunOK
      <3>4. RequestRests(V, r)
        BY <2>2, <3>2, <3>3 DEF RequestRests
      <3> QED
        BY <2>1, <3>1, <3>4, RestsByParts
    <2>5. CASE /\ ~(stage \in DOMAIN Upstream /\ q.given = {} /\ files[Upstream[stage]] = {})
               /\ ~MayRun(q, stage)
      <3>1. Goes(c, Idle)
        BY <1>5, <2>5 DEF RunStage, Ends
      <3> QED
        BY SMTT(30), <2>1, <3>1, IdleRests, RestsByParts
    <2> QED
      BY <2>3, <2>4, <2>5
  <1> QED
    BY <1>2, <1>3, <1>4, <1>5

\* What was made is written; what follows is given it if it asked for it.
LEMMA WriteRests ==
  ASSUME IndexInv, Alone, NEW V, Rests(V), NEW c \in load.clients, WriteStage(c)
  PROVE  Rests(V)'
  <1> PICK q : q = client[c]
    OBVIOUS
  <1> PICK stage : stage = Head(q.todo)
    OBVIOUS
  <1>1. /\ q.pc = "run" /\ q.made # {}
        /\ files' = [files EXCEPT ![stage[1]] = q.made]
        /\ UNCHANGED <<load, index>>
        /\ RequestRests(V, q) /\ RunOK(q)
    BY DEF WriteStage, Rests, IndexInv
  <1>2. TodoOK(q.todo) /\ GivenOK(V, stage[1], q.given) /\ MadeOK(V, stage[1], q.made)
    BY <1>1 DEF RequestRests
  <1>3. IndexRests(V)'
    BY <1>1 DEF Rests, IndexRests
  <1>4. FilesRest(V)'
    <2>1. FilesRest(V)
      BY DEF Rests
    <2>2. \A x \in q.made : Legit(V, stage[1], x)
      BY <1>2 DEF MadeOK
    <2>3. DOMAIN files' = DOMAIN files
      BY <1>1
    <2>4. \A s \in KnowledgeStages :
             files'[s] = IF s = stage[1] THEN q.made ELSE files[s]
      BY <1>1, <2>1 DEF FilesRest
    <2> QED
      BY <2>1, <2>2, <2>3, <2>4 DEF FilesRest
  <1>5. \E r : Goes(c, r) /\ RequestRests(V, r)'
    <2>1. CASE Len(q.todo) = 1
      <3>1. Goes(c, Idle)
        BY <2>1 DEF WriteStage, Ends
      <3>2. RequestRests(V, Idle)'
        BY DEF RequestRests, Idle
      <3> QED
        BY <3>1, <3>2
    <2>2. CASE Len(q.todo) # 1
      <3> PICK given : given = IF stage[2] THEN q.made ELSE {}
        OBVIOUS
      <3> PICK rest : rest = Tail(q.todo)
        OBVIOUS
      <3> PICK r : r = [q EXCEPT !.todo = rest, !.made = {}, !.given = given]
        OBVIOUS
      <3>1. Goes(c, r)
        BY <2>2 DEF WriteStage
      <3>2. /\ TodoOK(rest)
            /\ stage[2] => Head(rest)[1] \in DOMAIN Upstream /\ Upstream[Head(rest)[1]] = stage[1]
        BY <1>2, <2>2, TodoAfter
      <3>3. GivenOK(V, Head(rest)[1], given)
        <4>1. CASE stage[2]
          BY <1>2, <3>2, <4>1 DEF GivenOK, MadeOK
        <4>2. CASE ~stage[2]
          BY <4>2 DEF GivenOK
        <4> QED
          BY <4>1, <4>2
      <3>4. r.pc = "run" /\ r.todo = rest /\ r.given = given /\ r.made = {}
        BY <1>1 DEF RunOK
      <3>5. RequestRests(V, r)'
        BY <3>2, <3>3, <3>4 DEF RequestRests, MadeOK
      <3> QED
        BY <3>1, <3>5
    <2> QED
      BY <2>1, <2>2
  <1>6. PICK r : Goes(c, r) /\ RequestRests(V, r)'
    BY <1>5
  <1>7. \A d \in load.clients : client'[d] = r
    BY <1>1, <1>6, GoesTo, OneClient DEF IndexInv, KnowledgeShape
  <1>8. (\A d \in load.clients : RequestRests(V, client[d]))'
    BY <1>1, <1>6, <1>7
  <1> QED
    BY <1>3, <1>4, <1>8 DEF Rests

LEMMA RestInvStep == IndexInv /\ RestInv /\ [KnowledgeNext]_knowledgeVars => RestInv'
  <1> SUFFICES ASSUME IndexInv, RestInv, [KnowledgeNext]_knowledgeVars, Alone'
               PROVE  (\E V : Rests(V))'
    BY SMTT(30) DEF RestInv
  <1>0. UNCHANGED load /\ Alone
    BY DEF KnowledgeNext, knowledgeVars, StartImport, ReadPath, SaveIndex, StartAnalyze,
           StartResolve, StartCommand, RunStage, WriteStage, Alone
  <1> PICK V : Rests(V)
    BY <1>0 DEF RestInv
  <1>1. CASE \E c \in load.clients :
               \/ \E paths \in Batches : StartImport(c, paths)
               \/ ReadPath(c)
               \/ SaveIndex(c)
    BY <1>0, <1>1, ImportRests
  <1>2. CASE \E c \in load.clients :
               \/ StartAnalyze(c)
               \/ \E posted \in Authorities(index) : StartResolve(c, posted)
               \/ \E stage \in Commands : StartCommand(c, stage)
               \/ RunStage(c)
               \/ WriteStage(c)
    BY <1>0, <1>2, StagesRest, WriteRests
  <1>3. CASE (\A c \in load.clients : client'[c] \in {client[c], Idle})
             /\ UNCHANGED <<load, index, files>>
    <2>1. (\A d \in load.clients : RequestRests(V, client[d]))'
      <3>1. \A d \in load.clients : RequestRests(V, client[d]) /\ RequestRests(V, Idle)
        BY IdleRests DEF Rests
      <3> QED
        BY <1>3, <3>1 DEF RequestRests, MadeOK, AcceptedNow
    <2>2. IndexRests(V)' /\ FilesRest(V)'
      BY <1>3 DEF Rests, IndexRests, FilesRest
    <2> QED
      BY <2>1, <2>2 DEF Rests
  <1>4. CASE Restart /\ UNCHANGED <<load, knowledgeDocs>>
    <2>1. \A c \in load.clients : client'[c] = Idle
      BY <1>4 DEF Restart, IndexInv, KnowledgeShape
    <2> QED
      BY <1>3, <1>4, <2>1 DEF knowledgeDocs
  <1>5. CASE UNCHANGED knowledgeVars
    BY <1>3, <1>5 DEF knowledgeVars
  <1> QED
    BY <1>1, <1>2, <1>4, <1>5 DEF KnowledgeNext

LEMMA RestInvInit == RequestsInit /\ KnowledgeInit => RestInv
  <1> SUFFICES ASSUME RequestsInit, KnowledgeInit
               PROVE  Rests({{}})
    BY DEF RestInv
  <1>1. \A x : x \notin Claims(index)
    BY ClaimsAreSaid DEF KnowledgeInit, NoIndex
  <1>2. Claims(index) = {}
    BY <1>1
  <1>3. IndexRests({{}})
    BY <1>2, FS_EmptySet DEF IndexRests, Comparable
  <1>4. FilesRest({{}})
    BY DEF KnowledgeInit, NoFiles, FilesRest
  <1>5. \A c \in load.clients : RequestRests({{}}, client[c])
    BY IdleRests DEF RequestsInit
  <1> QED
    BY <1>3, <1>4, <1>5 DEF Rests

\* What is written as accepted is authoritative over the clusters and the resolution on
\* file, whatever was imported, posted and run again before, by one client.
\* (resolve_cluster, canonicalize_claims)
THEOREM AcceptedStaysAuthoritative == KnowledgeSpec => AcceptedIsAuthoritative
  <1> DEFINE Written == Alone /\ files'.accepted # files.accepted =>
                          Authoritative(TheOnly(files.fusion), TheOnly(files.resolution),
                                        TheOnly(files'.accepted))
  <1>1. IndexInv /\ RestInv /\ [KnowledgeNext]_knowledgeVars => [Written]_knowledgeVars
    <2> SUFFICES ASSUME IndexInv, RestInv, [KnowledgeNext]_knowledgeVars,
                        Alone, files'.accepted # files.accepted
                 PROVE  Authoritative(TheOnly(files.fusion), TheOnly(files.resolution),
                                      TheOnly(files'.accepted))
      OBVIOUS
    <2>1. PICK V : Rests(V)
      BY SMTT(30) DEF RestInv
    <2>2. PICK c \in load.clients : WriteStage(c)
      BY DEF KnowledgeNext, knowledgeVars, knowledgeDocs, StartImport, ReadPath, SaveIndex,
             StartAnalyze, StartResolve, StartCommand, RunStage
    <2> PICK q : q = client[c]
      OBVIOUS
    <2>3. q.pc = "run" /\ q.made # {} /\ files' = [files EXCEPT ![Head(q.todo)[1]] = q.made]
      BY <2>2 DEF WriteStage
    <2>4. "accepted" \in DOMAIN files
      BY <2>1 DEF Rests, FilesRest, KnowledgeStages
    <2>5. Head(q.todo)[1] = "accepted" /\ files'.accepted = q.made
      BY <2>3, <2>4
    <2>6. MadeOK(V, "accepted", q.made)
      BY <2>1, <2>3, <2>5 DEF Rests, RequestRests
    <2>7. TheOnly(q.made) \in q.made
      BY <2>3 DEF TheOnly
    <2>8. AcceptedNow(TheOnly(files'.accepted))
      BY <2>5, <2>6, <2>7 DEF MadeOK
    <2>9. TheOnly(files.fusion) \in files.fusion /\ TheOnly(files.resolution) \in files.resolution
      BY <2>8 DEF AcceptedNow, TheOnly
    <2>10. /\ Legit(V, "fusion", TheOnly(files.fusion))
           /\ Legit(V, "resolution", TheOnly(files.resolution))
      BY <2>1, <2>9 DEF Rests, FilesRest, KnowledgeStages
    <2>11. PICK y \in V : TheOnly(files.fusion) = Fuse(y)
      BY <2>10 DEF Legit
    <2>12. PICK z \in V : \E m : TheOnly(files.resolution) = Resolve(Fuse(z), m)
      BY <2>10 DEF Legit
    <2> PICK m : TheOnly(files.resolution) = Resolve(Fuse(z), m)
      BY <2>12
    <2>13. Comparable(V)
      BY <2>1 DEF Rests, IndexRests
    <2> QED
      BY <2>8, <2>11, <2>13, AcceptedAuthoritative DEF AcceptedNow
  <1> QED
    BY <1>1, IndexInvInit, IndexInvStep, RestInvInit, RestInvStep, PTL
    DEF KnowledgeSpec, AcceptedIsAuthoritative

-----------------------------------------------------------------------------
(* DELTAS.  What the identities of decisions and issues tell               *)

IsDecision(d) == d.id[1] = "technical-decision" /\ d.id[4] = d.key
IsIssue(i) == i.id[1] = "technical-validation"

LEMMA DecideGives ==
  ASSUME NEW claims, NEW ruleSet, NEW d \in Decide(claims, ruleSet)
  PROVE  IsDecision(d)
  <1>1. ASSUME NEW r, NEW k, d = DecisionOn(r, k)
        PROVE  IsDecision(d)
    BY <1>1 DEF DecisionOn, IsDecision
  <1>2. ASSUME NEW r, NEW b, NEW v, d = DecisionOnSeveral(r, b, v)
        PROVE  IsDecision(d)
    BY <1>2 DEF DecisionOnSeveral, IsDecision
  <1>3. \/ \E r, k : d = DecisionOn(r, k)
        \/ \E r \in ruleSet.multi : d \in DecisionsOnSeveral(r, claims)
    BY DEF Decide
  <1>4. \A r : d \in DecisionsOnSeveral(r, claims) => \E b, v : d = DecisionOnSeveral(r, b, v)
    BY DEF DecisionsOnSeveral
  <1> QED
    BY <1>1, <1>2, <1>3, <1>4

LEMMA ValidateGives ==
  ASSUME NEW claims, NEW profile, NEW i \in Validate(claims, profile)
  PROVE  IsIssue(i)
  <1>1. PICK r \in profile : i \in Issues(r, claims)
    BY DEF Validate
  <1>2. \E type, missing, k : i = Issue(r, type, missing, k)
    BY <1>1 DEF Issues
  <1> QED
    BY <1>2 DEF Issue, IsIssue

-----------------------------------------------------------------------------
(* Reviews                                                                 *)

Statuses == DOMAIN AllowedTransitions

\* A record tells what it is of, and its history ends with its status.
IsReview(r) ==
    /\ r = [k \in {"target", "type", "status", "history"} |-> r[k]]
    /\ r.type = "technical_decision" <=> r.target[1] = "technical-decision"
    /\ r.status \in Statuses
    /\ r.history \in Seq([previous : Statuses, new : Statuses])
    /\ r.status # "proposed" => r.history # <<>> /\ Last(r.history).new = r.status

\* Of every decision and every issue there is one record.
ReviewsOK(reviews) ==
    /\ \A r \in reviews : IsReview(r)
    /\ \A r, s \in reviews : r.target = s.target => r = s

LEMMA InitialReviewsOK ==
  ASSUME NEW decisions, \A d \in decisions : IsDecision(d),
         NEW issues, \A i \in issues : IsIssue(i)
  PROVE  ReviewsOK(InitialReviews(decisions, issues))
  <1> DEFINE record(target, type) ==
               [target |-> target, type |-> type, status |-> "proposed", history |-> <<>>]
  <1>1. ASSUME NEW r \in InitialReviews(decisions, issues)
        PROVE  \/ /\ r = record(r.target, "technical_decision")
                  /\ r.target[1] = "technical-decision"
               \/ /\ r = record(r.target, "validation_issue")
                  /\ r.target[1] = "technical-validation"
    <2>1. \/ \E d \in decisions : r = record(d.id, "technical_decision")
          \/ \E i \in issues : r = record(i.id, "validation_issue")
      BY DEF InitialReviews
    <2> QED
      BY <2>1 DEF IsDecision, IsIssue
  <1>2. "proposed" \in Statuses
    BY DEF Statuses, AllowedTransitions
  <1>3. \A r \in InitialReviews(decisions, issues) : IsReview(r)
    <2> TAKE r \in InitialReviews(decisions, issues)
    <2> PICK E : E = [previous : Statuses, new : Statuses]
      OBVIOUS
    <2>1. <<>> \in Seq(E)
      OBVIOUS
    <2>2. /\ r = [k \in {"target", "type", "status", "history"} |-> r[k]]
          /\ r.status = "proposed" /\ r.history = <<>>
          /\ r.type = "technical_decision" <=> r.target[1] = "technical-decision"
      BY <1>1
    <2> QED
      BY <1>2, <2>1, <2>2 DEF IsReview
  <1>4. \A r, s \in InitialReviews(decisions, issues) : r.target = s.target => r = s
    <2> HIDE DEF record
    <2> QED
      BY <1>1
  <1> QED
    BY <1>3, <1>4 DEF ReviewsOK

\* A review of one record. (transition_record)
LEMMA TransitionKeeps ==
  ASSUME NEW reviews, ReviewsOK(reviews), NEW r \in reviews,
         NEW status \in AllowedTransitions[r.status]
  PROVE  ReviewsOK((reviews \ {r}) \cup {Transition(r, status)})
  <1>1. IsReview(r)
    BY DEF ReviewsOK
  <1>2. status \in Statuses /\ status # "proposed"
    BY <1>1 DEF IsReview, Statuses, AllowedTransitions
  <1> PICK e : e = [previous |-> r.status, new |-> status]
    OBVIOUS
  <1> PICK E : E = [previous : Statuses, new : Statuses]
    OBVIOUS
  <1> PICK h : h = Append(r.history, e)
    OBVIOUS
  <1> PICK s : s = Transition(r, status)
    OBVIOUS
  <1>3. e \in E /\ r.history \in Seq(E) /\ e.new = status
    BY <1>1, <1>2 DEF IsReview
  <1>4. h \in Seq(E) /\ h # <<>> /\ Last(h) = e
    BY <1>3 DEF Last
  <1>5. s.target = r.target /\ s.type = r.type /\ s.status = status /\ s.history = h
        /\ s = [k \in {"target", "type", "status", "history"} |-> s[k]]
    BY <1>1 DEF Transition, IsReview
  <1>6. IsReview(s)
    BY <1>1, <1>2, <1>3, <1>4, <1>5 DEF IsReview
  <1>7. \A x \in (reviews \ {r}) \cup {s} : IsReview(x)
    BY <1>6 DEF ReviewsOK
  <1>8. \A x, y \in (reviews \ {r}) \cup {s} : x.target = y.target => x = y
    BY <1>5 DEF ReviewsOK
  <1> QED
    BY <1>7, <1>8 DEF ReviewsOK

-----------------------------------------------------------------------------
(* What is compared                                                        *)

\* Of every key there is one delta, of every approved decision too, and a delta is of an
\* approved decision if there is one of its key.
LEMMA DeltasAre ==
  ASSUME NEW baseline, NEW decisions, NEW approved,
         NEW deltas, deltas = Compare(baseline, decisions, approved)
  PROVE  /\ \A x, y \in deltas : x.key = y.key => x = y
         /\ \A d \in decisions : d.id \in approved => \E x \in deltas : x.key = d.key
         /\ \A x \in deltas :
              \/ /\ x.decision = {}
                 /\ \A d \in decisions : ~(d.id \in approved /\ d.key = x.key)
              \/ \E d \in decisions : /\ d.id \in approved /\ d.key = x.key
                                      /\ x.decision = {d.id} /\ x.value = {d.value}
  <1> DEFINE before(key) == {b \in baseline : b.key = key}
             after(key) == {d \in decisions : d.id \in approved /\ d.key = key}
             delta(key) ==
               LET type == IF before(key) = {} THEN "added"
                           ELSE IF after(key) = {} THEN "removed"
                           ELSE IF SameValue(TheOnly(before(key)), TheOnly(after(key)))
                           THEN "unchanged" ELSE "modified"
               IN  [key |-> key, type |-> type,
                    item |-> {b.id : b \in before(key)},
                    decision |-> IF after(key) = {} THEN {} ELSE {TheOnly(after(key)).id},
                    value |-> IF after(key) = {} THEN {} ELSE {TheOnly(after(key)).value},
                    direction |-> IF type # "modified" THEN type
                                  ELSE Direction(type, TheOnly(before(key)), TheOnly(after(key)))]
             keys == {b.key : b \in baseline} \cup {e.key : e \in {e \in decisions : e.id \in approved}}
  <1>1. deltas = {delta(k) : k \in keys}
    BY DEF Compare
  <1>2. \A k : /\ delta(k).key = k
               /\ delta(k).decision = IF after(k) = {} THEN {} ELSE {TheOnly(after(k)).id}
               /\ delta(k).value = IF after(k) = {} THEN {} ELSE {TheOnly(after(k)).value}
    OBVIOUS
  <1>3. \A d \in decisions : d.id \in approved => d.key \in keys
    OBVIOUS
  <1>4. \A k : after(k) # {} => TheOnly(after(k)) \in after(k)
    BY DEF TheOnly
  <1> HIDE DEF delta, keys
  <1>5. ASSUME NEW x \in deltas
        PROVE  \/ /\ x.decision = {}
                  /\ \A d \in decisions : ~(d.id \in approved /\ d.key = x.key)
               \/ \E d \in decisions : /\ d.id \in approved /\ d.key = x.key
                                       /\ x.decision = {d.id} /\ x.value = {d.value}
    <2> PICK k : x = delta(k)
      BY <1>1
    <2>1. CASE after(k) = {}
      BY <1>2, <2>1
    <2>2. CASE after(k) # {}
      <3> PICK d : d = TheOnly(after(k))
        OBVIOUS
      <3>1. d \in decisions /\ d.id \in approved /\ d.key = k
        BY <1>4, <2>2
      <3>2. x.key = k /\ x.decision = {d.id} /\ x.value = {d.value}
        BY <1>2, <2>2
      <3> QED
        BY <3>1, <3>2
    <2> QED
      BY <2>1, <2>2
  <1>6. \A x, y \in deltas : x.key = y.key => x = y
    BY <1>1, <1>2
  <1>7. \A d \in decisions : d.id \in approved => \E x \in deltas : x.key = d.key
    BY <1>1, <1>2, <1>3
  <1> QED
    BY <1>5, <1>6, <1>7

\* What deltas have to say of what was approved.
SaysApproved(deltas, decisions, reviews) ==
    LET approved == Approved(reviews)
    IN  /\ \A id \in approved :
             \E x \in deltas : x.decision = {id} /\ \A y \in deltas : y.decision = {id} => y = x
        /\ \A x \in deltas :
             /\ x.decision \subseteq approved
             /\ \A id \in x.decision : \E d \in decisions : d.id = id /\ x.value = {d.value}
             /\ x.decision = {} => ~\E d \in decisions : d.id \in approved /\ d.key = x.key
        /\ \A r \in reviews : r.target \in approved => Last(r.history).new = "approved"

LEMMA ComparedSaysApproved ==
  ASSUME NEW decisions, \A d \in decisions : IsDecision(d), NEW reviews, ReviewsOK(reviews),
         NEW baseline, CanCompare(baseline, decisions, Approved(reviews)),
         NEW deltas, deltas = Compare(baseline, decisions, Approved(reviews))
  PROVE  SaysApproved(deltas, decisions, reviews)
  <1> PICK approved : approved = Approved(reviews)
    OBVIOUS
  <1>1. /\ \A x, y \in deltas : x.key = y.key => x = y
        /\ \A d \in decisions : d.id \in approved => \E x \in deltas : x.key = d.key
        /\ \A x \in deltas :
             \/ /\ x.decision = {}
                /\ \A d \in decisions : ~(d.id \in approved /\ d.key = x.key)
             \/ \E d \in decisions : /\ d.id \in approved /\ d.key = x.key
                                     /\ x.decision = {d.id} /\ x.value = {d.value}
    BY DeltasAre
  <1>2. /\ \A id \in approved : \E d \in decisions : d.id = id
        /\ \A d, e \in decisions : d.id \in approved /\ e.id \in approved /\ d.key = e.key => d = e
    BY DEF CanCompare
  <1>3. \A d, e \in decisions : d.id = e.id => d.key = e.key
    BY DEF IsDecision
  <1>4. ASSUME NEW id \in approved
        PROVE  \E x \in deltas : x.decision = {id} /\ \A y \in deltas : y.decision = {id} => y = x
    <2>1. PICK d \in decisions : d.id = id
      BY <1>2
    <2>2. PICK x \in deltas : x.key = d.key
      BY <1>1, <2>1
    <2>3. PICK e \in decisions : e.id \in approved /\ e.key = x.key /\ x.decision = {e.id}
      BY <1>1, <2>1, <2>2
    <2>4. x.decision = {id}
      BY <1>2, <2>1, <2>2, <2>3
    <2>5. ASSUME NEW y \in deltas, y.decision = {id}
          PROVE  y = x
      <3>1. PICK f \in decisions : f.key = y.key /\ y.decision = {f.id}
        BY <1>1, <2>5
      <3>2. f.id = d.id
        BY <2>1, <2>5, <3>1
      <3> QED
        BY <1>1, <1>3, <2>2, <3>1, <3>2
    <2> QED
      BY <2>4, <2>5
  <1>5. \A r \in reviews : r.target \in approved => Last(r.history).new = "approved"
    <2> SUFFICES ASSUME NEW r \in reviews, r.target \in approved
                 PROVE  Last(r.history).new = "approved"
      OBVIOUS
    <2>1. PICK s \in reviews : s.target = r.target /\ s.status = "approved"
      BY DEF Approved
    <2>2. s = r /\ IsReview(r)
      BY <2>1 DEF ReviewsOK
    <2> QED
      BY <2>1, <2>2 DEF IsReview
  <1>6. \A x \in deltas :
           /\ x.decision \subseteq approved
           /\ \A id \in x.decision : \E d \in decisions : d.id = id /\ x.value = {d.value}
           /\ x.decision = {} => ~\E d \in decisions : d.id \in approved /\ d.key = x.key
    BY <1>1
  <1> QED
    BY <1>4, <1>5, <1>6 DEF SaysApproved

-----------------------------------------------------------------------------
(* The technical service                                                   *)

\* What is on file in one of its stages, or is about to be.
TechnicalOK(stage, x) ==
    CASE stage = "decisions" -> \A d \in x : IsDecision(d)
      [] stage = "validation" -> \A i \in x : IsIssue(i)
      [] stage = "reviews" -> ReviewsOK(x)
      [] OTHER -> TRUE

DeltasNow(deltas) ==
    /\ files.decisions # {} /\ files.reviews # {}
    /\ SaysApproved(deltas, TheOnly(files.decisions), TheOnly(files.reviews))

\* One stage is under way at a time.
TechnicalRequest(q) ==
    \/ q.pc = "idle"
    \/ /\ q.pc = "run"
       /\ q = [k \in {"pc", "todo", "given", "made", "manifest"} |-> q[k]]
       /\ Len(q.todo) = 1
       /\ Head(q.todo)[1] \in {"accepted"} \cup TechnicalStages
       /\ \A x, y \in q.made : x = y
       /\ \A x \in q.made :
            /\ TechnicalOK(Head(q.todo)[1], x)
            /\ Alone /\ Head(q.todo)[1] = "deltas" => DeltasNow(x)

TechnicalFiles ==
    /\ DOMAIN files = KnowledgeStages \cup TechnicalStages
    /\ \A stage \in TechnicalStages :
         /\ \A x, y \in files[stage] : x = y
         /\ \A x \in files[stage] : TechnicalOK(stage, x)

TechnicalInv ==
    /\ KnowledgeShape /\ load.part = "technical"
    /\ TechnicalFiles
    /\ \A c \in load.clients : TechnicalRequest(client[c])

LEMMA TechnicalByParts ==
  ASSUME TechnicalInv, NEW c \in load.clients, NEW q, Goes(c, q), UNCHANGED <<load, files>>,
         TechnicalRequest(q)
  PROVE  TechnicalInv'
  <1>1. /\ KnowledgeShape' /\ client'[c] = q
        /\ \A d \in Clients : d # c => client'[d] = client[d]
    BY GoesTo DEF TechnicalInv
  <1>2. \A d \in load.clients : TechnicalRequest(client'[d])
    BY <1>1 DEF TechnicalInv, KnowledgeShape
  <1>3. (\A d \in load.clients : TechnicalRequest(client[d]))'
    BY <1>2 DEF TechnicalRequest, DeltasNow, Alone
  <1>4. TechnicalFiles' /\ (load.part = "technical")'
    BY DEF TechnicalInv, TechnicalFiles
  <1> QED
    BY <1>1, <1>3, <1>4 DEF TechnicalInv

LEMMA IdleIsTechnical == TechnicalRequest(Idle)
  BY DEF Idle, TechnicalRequest

LEMMA OneStage ==
  ASSUME NEW stage
  PROVE  \E todo : /\ todo = <<<<stage, FALSE>>>>
                   /\ Len(todo) = 1 /\ Head(todo)[1] = stage
  <1>1. \A d : Len(<<d>>) = 1 /\ Head(<<d>>) = d
    OBVIOUS
  <1>2. <<stage, FALSE>>[1] = stage
    OBVIOUS
  <1> QED
    BY <1>1, <1>2, Zenon

\* A command whose result is as it should be.
LEMMA MakesIsTechnical ==
  ASSUME TechnicalInv, NEW c \in load.clients, NEW stage \in TechnicalStages, NEW x,
         Makes(c, stage, x), TechnicalOK(stage, x), stage = "deltas" => DeltasNow(x)
  PROVE  TechnicalInv'
  <1>1. \E todo : /\ Len(todo) = 1 /\ Head(todo)[1] = stage
                  /\ Goes(c, [Stages(todo) EXCEPT !.made = {x}])
                  /\ UNCHANGED <<load, files>>
    BY OneStage, Zenon DEF Makes, knowledgeDocs
  <1> PICK todo : /\ Len(todo) = 1 /\ Head(todo)[1] = stage
                  /\ Goes(c, [Stages(todo) EXCEPT !.made = {x}])
                  /\ UNCHANGED <<load, files>>
    BY <1>1
  <1> PICK q : q = [Stages(todo) EXCEPT !.made = {x}]
    OBVIOUS
  <1>2. /\ q.pc = "run" /\ q.todo = todo /\ q.made = {x}
        /\ q = [k \in {"pc", "todo", "given", "made", "manifest"} |-> q[k]]
    BY DEF Stages
  <1>3. TechnicalRequest(q)
    BY <1>2 DEF TechnicalRequest
  <1> QED
    BY <1>3, TechnicalByParts

\* What each command makes is as it should be.
LEMMA CommandsAreTechnical ==
  ASSUME TechnicalInv, NEW c \in load.clients,
         \/ \E r \in RuleSets : StartDecide(c, r)
         \/ \E p \in Profiles : StartValidate(c, p)
         \/ StartInitReviews(c)
         \/ \E reviews \in files.reviews : \E r \in reviews :
               \E status \in DOMAIN AllowedTransitions : StartReviewDecision(c, r, status)
         \/ \E b \in Baselines : StartBuildDeltas(c, b)
  PROVE  TechnicalInv'
  <1> USE DEF TechnicalStages
  <1>1. /\ \A x \in files.decisions : \A d \in x : IsDecision(d)
        /\ \A x \in files.validation : \A i \in x : IsIssue(i)
        /\ \A x \in files.reviews : ReviewsOK(x) /\ \A y \in files.reviews : x = y
    BY DEF TechnicalInv, TechnicalFiles, TechnicalOK
  <1>2. \A s : s # {} => TheOnly(s) \in s
    BY DEF TheOnly
  <1>3. ASSUME NEW r \in RuleSets, StartDecide(c, r)
        PROVE  TechnicalInv'
    <2> PICK x : x = Decide(TheOnly(files.accepted).claims, r)
      OBVIOUS
    <2>1. Makes(c, "decisions", x)
      BY <1>3 DEF StartDecide
    <2>2. TechnicalOK("decisions", x)
      BY DecideGives DEF TechnicalOK
    <2> QED
      BY <2>1, <2>2, MakesIsTechnical
  <1>4. ASSUME NEW p \in Profiles, StartValidate(c, p)
        PROVE  TechnicalInv'
    <2> PICK x : x = Validate(TheOnly(files.accepted).claims, p)
      OBVIOUS
    <2>1. Makes(c, "validation", x)
      BY <1>4 DEF StartValidate
    <2>2. TechnicalOK("validation", x)
      BY ValidateGives DEF TechnicalOK
    <2> QED
      BY <2>1, <2>2, MakesIsTechnical
  <1>5. CASE StartInitReviews(c)
    <2> PICK d : d = TheOnly(files.decisions)
      OBVIOUS
    <2> PICK i : i = TheOnly(files.validation)
      OBVIOUS
    <2> PICK x : x = InitialReviews(d, i)
      OBVIOUS
    <2>1. Makes(c, "reviews", x) /\ files.decisions # {} /\ files.validation # {}
      BY <1>5 DEF StartInitReviews
    <2>2. d \in files.decisions /\ i \in files.validation
      BY <1>2, <2>1
    <2>3. ReviewsOK(x)
      BY <1>1, <2>2, InitialReviewsOK
    <2>4. TechnicalOK("reviews", x)
      BY <2>3 DEF TechnicalOK
    <2> QED
      BY <2>1, <2>4, MakesIsTechnical
  <1>6. ASSUME NEW reviews \in files.reviews, NEW r \in reviews, NEW status,
               StartReviewDecision(c, r, status)
        PROVE  TechnicalInv'
    <2> PICK x : x = (reviews \ {r}) \cup {Transition(r, status)}
      OBVIOUS
    <2>1. TheOnly(files.reviews) = reviews
      BY <1>1, <1>2
    <2>2. Makes(c, "reviews", x) /\ status \in AllowedTransitions[r.status]
      BY <1>6, <2>1 DEF StartReviewDecision
    <2>3. ReviewsOK(x)
      BY <1>1, <2>2, TransitionKeeps
    <2>4. TechnicalOK("reviews", x)
      BY <2>3 DEF TechnicalOK
    <2> QED
      BY <2>2, <2>4, MakesIsTechnical
  <1>7. ASSUME NEW b \in Baselines, StartBuildDeltas(c, b)
        PROVE  TechnicalInv'
    <2> PICK decisions : decisions = TheOnly(files.decisions)
      OBVIOUS
    <2> PICK reviews : reviews = TheOnly(files.reviews)
      OBVIOUS
    <2> PICK x : x = Compare(b, decisions, Approved(reviews))
      OBVIOUS
    <2>1. /\ Makes(c, "deltas", x) /\ files.decisions # {} /\ files.reviews # {}
          /\ CanCompare(b, decisions, Approved(reviews))
      BY <1>7 DEF StartBuildDeltas
    <2>2. decisions \in files.decisions /\ reviews \in files.reviews
      BY <1>2, <2>1
    <2>3. (\A d \in decisions : IsDecision(d)) /\ ReviewsOK(reviews)
      BY <1>1, <2>2
    <2>4. SaysApproved(x, decisions, reviews)
      BY <2>1, <2>3, ComparedSaysApproved
    <2>5. TechnicalOK("deltas", x) /\ DeltasNow(x)
      BY <2>1, <2>4 DEF TechnicalOK, DeltasNow
    <2> QED
      BY <2>1, <2>5, MakesIsTechnical
  <1> QED
    BY <1>3, <1>4, <1>5, <1>6, <1>7

\* A stage runs, or what it made is written.
LEMMA StagesAreTechnical ==
  ASSUME TechnicalInv, NEW c \in load.clients,
         StartCommand(c, "accepted") \/ RunStage(c) \/ WriteStage(c)
  PROVE  TechnicalInv'
  <1>1. TechnicalRequest(client[c])
    BY DEF TechnicalInv
  <1>2. CASE StartCommand(c, "accepted")
    <2>1. \E todo : /\ Len(todo) = 1 /\ Head(todo)[1] = "accepted"
                    /\ Goes(c, Stages(todo)) /\ UNCHANGED <<load, files>>
      BY <1>2, OneStage, Zenon DEF StartCommand, knowledgeDocs
    <2> PICK todo : /\ Len(todo) = 1 /\ Head(todo)[1] = "accepted"
                    /\ Goes(c, Stages(todo)) /\ UNCHANGED <<load, files>>
      BY <2>1
    <2>2. TechnicalRequest(Stages(todo))
      BY DEF TechnicalRequest, Stages
    <2> QED
      BY <2>2, TechnicalByParts
  <1>3. CASE RunStage(c)
    <2> PICK q : q = client[c]
      OBVIOUS
    <2> PICK stage : stage = Head(q.todo)[1]
      OBVIOUS
    <2>1. /\ q.pc = "run" /\ stage \in KnowledgeStages /\ q.made = {}
          /\ UNCHANGED <<load, files>>
      BY <1>3 DEF RunStage, knowledgeDocs
    <2>2. stage = "accepted" /\ stage \notin DOMAIN Upstream
      BY <1>1, <2>1 DEF TechnicalRequest, KnowledgeStages, TechnicalStages, Upstream
    <2>3. Goes(c, Idle) \/ \E made : Goes(c, [q EXCEPT !.made = {made}])
      BY <1>3, <2>2 DEF RunStage, Ends
    <2>4. ASSUME NEW made, NEW r, r = [q EXCEPT !.made = {made}]
          PROVE  TechnicalRequest(r)
      <3>1. /\ r.pc = "run" /\ r.todo = q.todo /\ r.made = {made}
            /\ r = [k \in {"pc", "todo", "given", "made", "manifest"} |-> r[k]]
        BY <1>1, <2>1, <2>4 DEF TechnicalRequest
      <3> QED
        BY <1>1, <2>1, <2>2, <3>1 DEF TechnicalRequest, TechnicalOK
    <2> QED
      BY <2>1, <2>3, <2>4, IdleIsTechnical, TechnicalByParts
  <1>4. CASE WriteStage(c)
    <2> PICK q : q = client[c]
      OBVIOUS
    <2> PICK stage : stage = Head(q.todo)[1]
      OBVIOUS
    <2>1. /\ q.pc = "run" /\ files' = [files EXCEPT ![stage] = q.made] /\ UNCHANGED load
      BY <1>4 DEF WriteStage
    <2>2. /\ Len(q.todo) = 1 /\ stage \in {"accepted"} \cup TechnicalStages
          /\ \A x, y \in q.made : x = y
          /\ \A x \in q.made : TechnicalOK(stage, x)
      BY <1>1, <2>1 DEF TechnicalRequest
    <2>3. Goes(c, Idle)
      BY <1>4, <2>2 DEF WriteStage, Ends
    <2>4. /\ KnowledgeShape' /\ client'[c] = Idle
          /\ \A d \in Clients : d # c => client'[d] = client[d]
      BY <2>1, <2>3, GoesTo DEF TechnicalInv
    <2>5. TechnicalFiles'
      <3>1. /\ DOMAIN files = KnowledgeStages \cup TechnicalStages
            /\ \A s \in TechnicalStages :
                 /\ \A x, y \in files[s] : x = y
                 /\ \A x \in files[s] : TechnicalOK(s, x)
        BY DEF TechnicalInv, TechnicalFiles
      <3>2. \A s \in TechnicalStages : files'[s] = IF s = stage THEN q.made ELSE files[s]
        BY <2>1, <3>1
      <3>3. DOMAIN files' = DOMAIN files
        BY <2>1
      <3> QED
        BY <2>2, <3>1, <3>2, <3>3 DEF TechnicalFiles
    <2>6. (\A d \in load.clients : TechnicalRequest(client[d]))'
      <3>1. ASSUME NEW d \in load.clients
            PROVE  TechnicalRequest(client[d])'
        <4>1. CASE d = c
          BY <2>4, <4>1 DEF TechnicalRequest, Idle
        <4>2. CASE d # c
          <5>1. client'[d] = client[d]
            BY <2>4, <4>2 DEF TechnicalInv, KnowledgeShape
          <5>2. ~Alone
            BY <4>2, OneClient DEF TechnicalInv, KnowledgeShape
          <5>3. ~Alone'
            BY <2>1, <5>2 DEF Alone
          <5>4. TechnicalRequest(client[d])
            BY DEF TechnicalInv
          <5> QED
            BY <5>1, <5>3, <5>4 DEF TechnicalRequest
        <4> QED
          BY <4>1, <4>2
      <3> QED
        BY <2>1, <3>1
    <2> QED
      BY <2>1, <2>4, <2>5, <2>6 DEF TechnicalInv
  <1> QED
    BY <1>2, <1>3, <1>4

LEMMA TechnicalInvStep == TechnicalInv /\ [TechnicalNext]_technicalVars => TechnicalInv'
  <1> SUFFICES ASSUME TechnicalInv, [TechnicalNext]_technicalVars
               PROVE  TechnicalInv'
    OBVIOUS
  <1>1. CASE \E c \in load.clients :
               \/ \E r \in RuleSets : StartDecide(c, r)
               \/ \E p \in Profiles : StartValidate(c, p)
               \/ StartInitReviews(c)
               \/ \E reviews \in files.reviews : \E r \in reviews :
                     \E status \in DOMAIN AllowedTransitions : StartReviewDecision(c, r, status)
               \/ \E b \in Baselines : StartBuildDeltas(c, b)
    BY <1>1, CommandsAreTechnical
  <1>2. CASE \E c \in load.clients : StartCommand(c, "accepted") \/ RunStage(c) \/ WriteStage(c)
    BY <1>2, StagesAreTechnical
  <1>3. ASSUME NEW c \in load.clients, ReadPath(c) \/ SaveIndex(c)
        PROVE  FALSE
    BY <1>3 DEF ReadPath, SaveIndex, TechnicalInv, TechnicalRequest
  <1>4. CASE Restart /\ UNCHANGED <<load, knowledgeDocs>>
    <2>1. \A c \in load.clients : client'[c] = Idle
      BY <1>4 DEF Restart, TechnicalInv, KnowledgeShape
    <2>2. (\A c \in load.clients : TechnicalRequest(client[c]))'
      BY <1>4, <2>1 DEF TechnicalRequest, Idle
    <2> QED
      BY <1>4, <2>2 DEF Restart, knowledgeDocs, TechnicalInv, KnowledgeShape, TechnicalFiles
  <1>5. CASE UNCHANGED technicalVars
    BY <1>5 DEF technicalVars, knowledgeVars, TechnicalInv, KnowledgeShape, TechnicalFiles,
                TechnicalRequest, DeltasNow, Alone
  <1>6. load.part = "technical"
    BY DEF TechnicalInv
  <1> QED
    BY <1>1, <1>2, <1>3, <1>4, <1>5, <1>6 DEF TechnicalNext, KnowledgeNext

\* Whatever claims are on file and however they are decided on again, reviewed and reviewed
\* over, by one client: what is written as deltas is what was approved as it stands.
\* (compare_approved_decisions, transition_record)
THEOREM DeltasSayWhatWasApproved == TechnicalModeSpec => DeltasAreWhatWasApproved
  <1> DEFINE Written == Alone /\ files'.deltas # files.deltas =>
                          SaysApproved(TheOnly(files'.deltas), TheOnly(files.decisions),
                                       TheOnly(files.reviews))
             Begins == /\ RequestsInit /\ load.part = "technical"
                       /\ DOMAIN files = KnowledgeStages \cup TechnicalStages
                       /\ \A stage \in TechnicalStages : files[stage] = {}
  <1>1. Begins => TechnicalInv
    BY IdleIsTechnical DEF RequestsInit, TechnicalInv, KnowledgeShape, TechnicalFiles
  <1>2. TechnicalInv /\ [TechnicalNext]_technicalVars => [Written]_technicalVars
    <2> SUFFICES ASSUME TechnicalInv, [TechnicalNext]_technicalVars,
                        Alone, files'.deltas # files.deltas
                 PROVE  SaysApproved(TheOnly(files'.deltas), TheOnly(files.decisions),
                                     TheOnly(files.reviews))
      BY SMTT(30)
    <2>1. PICK c \in load.clients : WriteStage(c)
      BY DEF TechnicalNext, KnowledgeNext, technicalVars, knowledgeVars, knowledgeDocs, StartImport,
             ReadPath, SaveIndex, StartAnalyze, StartResolve, StartCommand, RunStage, Makes,
             StartDecide, StartValidate, StartInitReviews, StartReviewDecision, StartBuildDeltas
    <2> PICK q : q = client[c]
      OBVIOUS
    <2>2. q.pc = "run" /\ q.made # {} /\ files' = [files EXCEPT ![Head(q.todo)[1]] = q.made]
      BY <2>1 DEF WriteStage
    <2>3. "deltas" \in DOMAIN files
      BY DEF TechnicalInv, TechnicalFiles, TechnicalStages
    <2>4. Head(q.todo)[1] = "deltas" /\ files'.deltas = q.made
      BY <2>2, <2>3
    <2>5. \A x \in q.made : DeltasNow(x)
      BY <2>2, <2>4 DEF TechnicalInv, TechnicalRequest
    <2>6. TheOnly(q.made) \in q.made
      BY <2>2 DEF TheOnly
    <2> QED
      BY <2>4, <2>5, <2>6 DEF DeltasNow
  <1>3. [Written]_technicalVars <=>
          [ Alone /\ files'.deltas # files.deltas =>
            LET deltas == TheOnly(files'.deltas)
                approved == Approved(TheOnly(files.reviews))
            IN  /\ \A id \in approved :
                     \E x \in deltas : x.decision = {id} /\ \A y \in deltas : y.decision = {id} => y = x
                /\ \A x \in deltas :
                     /\ x.decision \subseteq approved
                     /\ \A id \in x.decision :
                          \E d \in TheOnly(files.decisions) : d.id = id /\ x.value = {d.value}
                     /\ x.decision = {} =>
                          ~\E d \in TheOnly(files.decisions) : d.id \in approved /\ d.key = x.key
                /\ \A r \in TheOnly(files.reviews) :
                     r.target \in approved => Last(r.history).new = "approved" ]_technicalVars
    BY DEF SaysApproved
  <1> QED
    BY <1>1, <1>2, <1>3, TechnicalInvStep, PTL
    DEF TechnicalModeSpec, DeltasAreWhatWasApproved
================================================================================
