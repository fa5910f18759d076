----------------------------- MODULE OwnerReads -----------------------------
(***************************************************************************)
(* The owner's reads: GET owners/:ownerUserId/processing-requests, its     *)
(* item and its archive, over the table the use cases write.               *)
(*                                                                         *)
(* A client walks the list page by page, or asks for items and archives,   *)
(* one thing at a time.  A list call runs two queries side by side, the    *)
(* page and the total; requests are created and advanced between any two.  *)
(* What the client saw is kept for the walk, or the last answer, it made.  *)
(***************************************************************************)
EXTENDS ProcessingRequest, Naturals, SequencesExt

CONSTANTS
    Ids,              \* request ids, numbered in the order of the uuid type
    Owners,
    Times,            \* values of createdAt
    Text,             \* a query parameter that is not a string of digits
    RawSizes,         \* what pageSize may hold: None (absent), Text, numbers
    DefaultPageSize,  \* 20 in the code
    MaxPageSize,      \* 100 in the code
    MaxMoves          \* bound: lifecycle events handled

ASSUME ReadsAssumption ==
    /\ Ids \subseteq Nat /\ IsFiniteSet(Ids)
    /\ None \notin Ids /\ None \notin Seq(Ids)
    /\ Times \subseteq Nat
    /\ RawSizes \subseteq Nat \cup {None, Text}
    /\ MaxPageSize \in Nat /\ DefaultPageSize \in 1..MaxPageSize
    /\ MaxMoves \in Nat

VARIABLES
    rows,    \* table processing_request: a function from the ids stored
    moves,   \* how many lifecycle events were handled
    walk,    \* the walk under way, or the last one
    told     \* the last answer about one id: [owner, id, answer]

vars == <<rows, moves, walk, told>>

NoWalk == [pc |-> "idle", owner |-> None, rule |-> None, size |-> DefaultPageSize,
           page |-> 1, items |-> None, total |-> None,
           stored |-> {}, seen |-> <<>>, inserts |-> 0]

NothingTold == [owner |-> None, id |-> None, answer |-> None]

Init ==
    /\ rows = <<>>
    /\ moves = 0
    /\ walk = NoWalk
    /\ told = NothingTold

-----------------------------------------------------------------------------
(* The queries of the repository *)

OwnedBy(owner) == {i \in DOMAIN rows : rows[i].owner = owner}

\* Mutant: the newest first, and no order between rows of one instant.
Before_NoTiebreak(i, j) == rows[i].createdAt > rows[j].createdAt

\* ORDER BY created_at DESC, processing_request_id ASC.
Before(i, j) ==
    \/ rows[i].createdAt > rows[j].createdAt
    \/ rows[i].createdAt = rows[j].createdAt /\ i < j

\* The pages PostgreSQL may answer with: rows the order leaves alone come in
\* any order, and not in the same one twice.
PagesByOwner(owner, offset, limit) ==
    {SubSeq(s, offset + 1, IF offset + limit < Len(s) THEN offset + limit ELSE Len(s)) :
       s \in {t \in SetToSeqs(OwnedBy(owner)) :
                \A m, n \in DOMAIN t : m < n => ~ Before(t[n], t[m])}}

CountByOwner(owner) == Cardinality(OwnedBy(owner))

\* Mutant: the owner is not part of the condition.
FindByIdAndOwner_AnyOwner(id, owner) == {i \in DOMAIN rows : i = id}

\* At most one row.
FindByIdAndOwner(id, owner) == {i \in OwnedBy(owner) : i = id}

-----------------------------------------------------------------------------
(* Other requests of the service *)

\* A create commits.  createdAt was taken before, by the clock of its replica,
\* so a row may appear anywhere in the order.
Insert(i, owner, t) ==
    /\ i \notin DOMAIN rows
    /\ rows' = [j \in DOMAIN rows \cup {i} |->
                  IF j = i THEN [owner |-> owner, createdAt |-> t,
                                 request |-> CreatedRequest]
                  ELSE rows[j]]
    /\ walk' = IF owner = walk.owner THEN [walk EXCEPT !.inserts = @ + 1] ELSE walk
    /\ UNCHANGED <<moves, told>>

\* What one event may make of a request.
Moves(q) ==
    {Accepted(q, a) : a \in {b \in Attempts : CanAccept(q)}}
    \cup {Started(p) : p \in {p \in {q} : CanStart(p)}}
    \cup {Completed(q, z) : z \in {y \in Zips : CanComplete(q, y)}}
    \cup {Failed(q, c) : c \in {d \in FailureCodes : CanFail(q, d) \/ CanReject(q, d)}}

\* update writes the whole row; owner and createdAt are those that were read.
Advance(i) ==
    /\ moves < MaxMoves
    /\ \E q \in Moves(rows[i].request) \ {rows[i].request} :
         rows' = [rows EXCEPT ![i].request = q]
    /\ moves' = moves + 1
    /\ UNCHANGED <<walk, told>>

-----------------------------------------------------------------------------
(* The list *)

DEFAULT_PAGE == 1

\* Mutant: no lower bound.
ParseBounded_NoMin(raw, fallback, min, max) ==
    IF raw = None THEN fallback
    ELSE IF raw = Text \/ raw > max THEN None ELSE raw

\* None for a BadRequestException.
ParseBounded(raw, fallback, min, max) ==
    IF raw = None THEN fallback
    ELSE IF raw = Text \/ raw < min \/ raw > max THEN None ELSE raw

\* Mutant: the page number is taken for the number of the row.
Offset_NotScaled(page, size) == page - 1

Offset(page, size) == (page - 1) * size

\* A client starts a walk at the first page.  Clients stop at the first page
\* that is not full, or once the pages they read add up to the total.
Begin(owner, raw, rule) ==
    /\ walk.pc # "reading"
    /\ LET size == ParseBounded(raw, DefaultPageSize, 1, MaxPageSize)
       IN  walk' = IF size = None THEN [NoWalk EXCEPT !.pc = "refused"]
                   ELSE [NoWalk EXCEPT !.pc = "reading", !.owner = owner,
                           !.rule = rule, !.size = size, !.page = DEFAULT_PAGE,
                           !.stored = OwnedBy(owner)]
    /\ told' = NothingTold
    /\ UNCHANGED <<rows, moves>>

ReadPage ==
    /\ walk.pc = "reading"
    /\ walk.items = None
    /\ \E page \in PagesByOwner(walk.owner, Offset(walk.page, walk.size), walk.size) :
         walk' = [walk EXCEPT !.items = page]
    /\ UNCHANGED <<rows, moves, told>>

ReadTotal ==
    /\ walk.pc = "reading"
    /\ walk.total = None
    /\ walk' = [walk EXCEPT !.total = CountByOwner(walk.owner)]
    /\ UNCHANGED <<rows, moves, told>>

LastPage ==
    IF walk.rule = "shortPage" THEN Len(walk.items) < walk.size
                               ELSE walk.page * walk.size >= walk.total

\* Both queries have answered, so the call does; the client takes the next
\* page or has seen the list.
AnswerPage ==
    /\ walk.pc = "reading"
    /\ walk.items # None /\ walk.total # None
    /\ walk' = [walk EXCEPT !.seen = @ \o walk.items, !.items = None, !.total = None,
                            !.pc = IF LastPage THEN "done" ELSE "reading",
                            !.page = IF LastPage THEN @ ELSE @ + 1]
    /\ UNCHANGED <<rows, moves, told>>

-----------------------------------------------------------------------------
(* The item and the archive.  An id that is not a uuid is answered like one *)
(* that is not stored, before the query.                                    *)

NotFound == [kind |-> "notFound"]

\* A reason only with FAILED, and never the code, the attempt or a key.
ToOwnedItem(q) ==
    [kind |-> "item", status |-> q.status,
     hasReason |-> q.status = "FAILED" /\ q.failureCode # None]

ArchiveOf(q) ==
    IF q.status # "COMPLETED" \/ q.zipStorageKey = None
    THEN [kind |-> "notCompleted"]
    ELSE [kind |-> "ready", zipStorageKey |-> q.zipStorageKey]

Answer(owner, id, found) ==
    /\ walk.pc # "reading"
    /\ told' = [owner |-> owner, id |-> id,
                answer |-> IF FindByIdAndOwner(id, owner) = {} THEN NotFound
                           ELSE found]
    /\ walk' = NoWalk
    /\ UNCHANGED <<rows, moves>>

FindOne(owner, id) == Answer(owner, id, ToOwnedItem(rows[id].request))

FindArchive(owner, id) == Answer(owner, id, ArchiveOf(rows[id].request))

-----------------------------------------------------------------------------

Next ==
    \/ \E i \in Ids, owner \in Owners, t \in Times : Insert(i, owner, t)
    \/ \E i \in DOMAIN rows : Advance(i)
    \/ \E owner \in Owners, raw \in RawSizes, rule \in {"shortPage", "total"} :
         Begin(owner, raw, rule)
    \/ ReadPage \/ ReadTotal \/ AnswerPage
    \/ \E owner \in Owners, id \in Ids : FindOne(owner, id) \/ FindArchive(owner, id)

Spec == Init /\ [][Next]_vars

-----------------------------------------------------------------------------
(* Properties *)

TypeOK ==
    /\ DOMAIN rows \subseteq Ids
    /\ \A i \in DOMAIN rows :
         rows[i] \in [owner : Owners, createdAt : Times, request : Request]
    /\ moves \in 0..MaxMoves
    /\ walk.pc \in {"idle", "refused", "reading", "done"}
    /\ walk.size \in 1..MaxPageSize
    /\ walk.page \in 1..(Cardinality(Ids) + 1)
    /\ walk.items # None => walk.items \in Seq(Ids)
    /\ walk.seen \in Seq(Ids)
    /\ told.owner \in Owners \cup {None}

\* A walk that ends at a page that is not full has shown every request that
\* was stored when it began, whatever was created meanwhile.
WalkShowsWhatWasStored ==
    walk.pc = "done" /\ walk.rule = "shortPage" => walk.stored \subseteq ToSet(walk.seen)

\* A walk repeats a request only because one was created meanwhile, and one
\* that was created makes at most one other repeat.
RepeatsAreInserts ==
    Len(walk.seen) - Cardinality(ToSet(walk.seen)) <= walk.inserts

\* The contract of findPageByOwner: offset pages never repeat or skip a row.
PagesNeverRepeatOrSkip ==
    walk.pc = "done" =>
      /\ IsInjective(walk.seen)
      /\ walk.stored \subseteq ToSet(walk.seen)

\* An owner is shown their own requests only, and a request of somebody else
\* is answered like one that does not exist.
OwnersSeeTheirOwn ==
    /\ ToSet(walk.seen) \subseteq OwnedBy(walk.owner)
    /\ told.id # None /\ told.id \notin OwnedBy(told.owner) => told.answer = NotFound

\* The statuses a request may have when it is answered with a...
Shown(a) == CASE a.kind = "item"         -> {a.status}
              [] a.kind = "notCompleted" -> Statuses \ {"COMPLETED"}
              [] a.kind = "ready"        -> {"COMPLETED"}
              [] OTHER                   -> {}

\* ... and those it may have later.
Later(s) == CASE s = "RECEIVED"   -> Statuses
              [] s = "QUEUED"     -> Statuses \ {"RECEIVED"}
              [] s = "PROCESSING" -> Statuses \ {"RECEIVED", "QUEUED"}
              [] OTHER            -> {s}

\* Answers about one request agree with time, across both routes: a request
\* that was shown is never missing, its status never goes back, an archive
\* that was handed out stays available under its key and a completed request
\* is never refused its archive.
AnswersNeverGoBack ==
    [][ /\ told.answer # None /\ told'.id = told.id /\ told'.owner = told.owner
        /\ told.answer.kind # "notFound"
        => /\ told'.answer.kind # "notFound"
           /\ \E s \in Shown(told.answer) : Later(s) \cap Shown(told'.answer) # {}
           /\ told.answer.kind = "ready" /\ told'.answer.kind = "ready"
                => told'.answer = told.answer ]_vars
=============================================================================
