------------------------ MODULE CreateRequest_proofs ------------------------
(***************************************************************************)
(* What CreateRequest and RequestCreation promise, for any set of calls    *)
(* and any number of faults.  The promises about requests and answers are  *)
(* proved once, of RequestCreation; the two lookups and the two unique     *)
(* indexes are shown to implement it, and inherit them.                    *)
(***************************************************************************)
EXTENDS CreateRequest, FiniteSetTheorems, TLAPS

USE CallsAssumption, FaultsAssumption

-----------------------------------------------------------------------------
(* The promise *)

\* Whoever is told of a request is told of a stored one of its own upload.
ToldOfOwnUpload ==
    \A c \in Calls : Told(c) =>
      /\ answer[c].request \in rows
      /\ SameUpload(answer[c].request, c)

CreationInv ==
    /\ TypeOK
    /\ OneRequestEach
    /\ OneCreator
    /\ ToldOfOwnUpload

LEMMA CreationInit == Init => CreationInv
BY DEF Init, CreationInv, TypeOK, OneRequestEach, OneCreator, ToldOfOwnUpload,
       Told, Answer, Unanswered

\* An answer replaces no other one.
LEMMA ReplyKeeps ==
    ASSUME TypeOK, NEW c \in Calls, NEW kind, NEW r, Reply(c, kind, r),
           [kind |-> kind, request |-> r] \in Answer
    PROVE  /\ answer' \in [Calls -> Answer]
           /\ answer'[c] = [kind |-> kind, request |-> r]
           /\ \A d \in Calls : d # c => answer'[d] = answer[d]
BY DEF TypeOK, Reply

LEMMA StoreKeeps ==
    ASSUME CreationInv, NEW c \in Calls, Store(c)
    PROVE  OneRequestEach' /\ rows' \subseteq Calls /\ outbox' \subseteq Calls
BY DEF CreationInv, TypeOK, Store, OneRequestEach, SameKey, SameUpload

LEMMA CreationStep == CreationInv /\ [Next]_vars => CreationInv'
<1> SUFFICES ASSUME CreationInv, [Next]_vars PROVE CreationInv'
  OBVIOUS
<1> USE DEF CreationInv
<1>1. ASSUME NEW c \in Calls, Create(c) PROVE CreationInv'
  <2>1. Store(c) /\ Reply(c, "created", c)
    BY <1>1 DEF Create
  <2>2. OneRequestEach' /\ rows' \subseteq Calls /\ outbox' \subseteq Calls
    BY <2>1, StoreKeeps
  <2>3. [kind |-> "created", request |-> c] \in Answer
    BY DEF Answer
  <2>4. /\ answer' \in [Calls -> Answer]
        /\ answer'[c] = [kind |-> "created", request |-> c]
        /\ \A d \in Calls : d # c => answer'[d] = answer[d]
    BY <2>1, <2>3, ReplyKeeps
  <2>5. OneCreator'
    BY <2>4 DEF OneCreator
  <2>6. ToldOfOwnUpload'
    BY <2>1, <2>4 DEF ToldOfOwnUpload, Told, Store, SameUpload
  <2> QED
    BY <2>2, <2>4, <2>5, <2>6 DEF TypeOK
<1>2. ASSUME NEW c \in Calls, NEW kind \in {"invalid", "conflict", "error"},
             Reply(c, kind, None), Store(c) \/ UNCHANGED <<rows, outbox>>
      PROVE  CreationInv'
  <2>1. OneRequestEach' /\ rows' \subseteq Calls /\ outbox' \subseteq Calls
    BY <1>2, StoreKeeps DEF TypeOK, OneRequestEach
  <2>2. [kind |-> kind, request |-> None] \in Answer
    BY DEF Answer
  <2>3. /\ answer' \in [Calls -> Answer]
        /\ answer'[c] = [kind |-> kind, request |-> None]
        /\ \A d \in Calls : d # c => answer'[d] = answer[d]
    BY <1>2, <2>2, ReplyKeeps
  <2>4. OneCreator'
    BY <2>3 DEF OneCreator
  <2>5. rows \subseteq rows'
    BY <1>2 DEF Store
  <2>6. ToldOfOwnUpload'
    BY <2>3, <2>5 DEF ToldOfOwnUpload, Told
  <2> QED
    BY <2>1, <2>3, <2>4, <2>6 DEF TypeOK
<1>3. ASSUME NEW c \in Calls, Replay(c) PROVE CreationInv'
  <2>1. PICK r \in rows : SameUpload(r, c) /\ Reply(c, "replayed", r)
    BY <1>3 DEF Replay
  <2>2. UNCHANGED <<rows, outbox>>
    BY <1>3 DEF Replay
  <2>3. [kind |-> "replayed", request |-> r] \in Answer
    BY DEF Answer, TypeOK
  <2>4. /\ answer' \in [Calls -> Answer]
        /\ answer'[c] = [kind |-> "replayed", request |-> r]
        /\ \A d \in Calls : d # c => answer'[d] = answer[d]
    BY <2>1, <2>3, ReplyKeeps
  <2>5. OneCreator'
    BY <2>4 DEF OneCreator
  <2>6. ToldOfOwnUpload'
    BY <2>1, <2>2, <2>4 DEF ToldOfOwnUpload, Told
  <2> QED
    BY <2>2, <2>4, <2>5, <2>6 DEF TypeOK, OneRequestEach
<1>4. ASSUME UNCHANGED vars PROVE CreationInv'
  BY <1>4 DEF vars, TypeOK, OneRequestEach, OneCreator, ToldOfOwnUpload, Told
<1>5. ASSUME NEW c \in Calls, CreateUnnoticed(c) \/ Conflict(c) \/ Invalid(c) \/ Error(c)
      PROVE  CreationInv'
  BY <1>2, <1>5 DEF CreateUnnoticed, Conflict, Invalid, Error
<1> QED
  BY <1>1, <1>3, <1>4, <1>5 DEF Next

\* Requests are equal when their upload is, so answers about one upload are.
LEMMA InvGivesAgreement == CreationInv => AnswersAgree
BY DEF CreationInv, OneRequestEach, ToldOfOwnUpload, AnswersAgree, SameUpload

\* One upload of an owner is one request and one key names one; a request is
\* announced as created to the call that stored it only; whoever is told of a
\* request is told of the one stored request of its upload.
THEOREM CreationAgrees == Spec => [](OneRequestEach /\ OneCreator /\ AnswersAgree)
<1>1. CreationInv => OneRequestEach /\ OneCreator /\ AnswersAgree
  BY InvGivesAgreement DEF CreationInv
<1> QED
  BY <1>1, CreationInit, CreationStep, PTL DEF Spec

-----------------------------------------------------------------------------
(* The code's invariant *)

\* The calls whose entry in the index on (owner, key) is not yet committed.
Open(c) == pc[c] \in {"insertSource", "inserted"}

\* A call is answered once, at its end.
AnsweredAtTheEnd == \A c \in Calls : answer[c] = Unanswered <=> pc[c] # "answered"

\* Past the checks a call has all its fields.
CheckedIsValid == \A c \in Calls : pc[c] \notin {"idle", "answered"} => Valid(c)

\* An entry in an index, committed or not, keeps every other one out.
IndexesAreUnique ==
    \A c \in Calls :
      /\ Open(c) => \A r \in rows : ~ SameKey(r, c)
      /\ pc[c] = "inserted" => \A r \in rows : ~ SameUpload(r, c)
      /\ \A d \in Calls : Open(c) /\ Open(d) /\ SameKey(c, d) => c = d
      /\ \A d \in Calls :
           pc[c] = "inserted" /\ pc[d] = "inserted" /\ SameUpload(c, d) => c = d

\* Whoever lost a race finds a winner.
LosersHaveWinners ==
    \A c \in Calls :
      /\ pc[c] = "lostKey" => \E r \in rows : SameKey(r, c)
      /\ pc[c] = "lostSource" => \E r \in rows : SameUpload(r, c)

CreateInv ==
    /\ CreateTypeOK
    /\ AnsweredAtTheEnd
    /\ CheckedIsValid
    /\ IndexesAreUnique
    /\ LosersHaveWinners

LEMMA CreateInitInv == CreateInit => CreateInv
BY DEF CreateInit, Init, CreateInv, CreateTypeOK, TypeOK, PCs, AnsweredAtTheEnd,
       CheckedIsValid, Open, IndexesAreUnique, LosersHaveWinners, Answer, Unanswered

\* A step that answers nobody and stores nothing: call c goes to a label that
\* the indexes and the rows allow.
LEMMA CallMoves ==
    ASSUME CreateInv, NEW c \in Calls, UNCHANGED <<rows, outbox, answer, faults>>,
           NEW label \in PCs \ {"idle", "answered"}, Goto(c, label), Valid(c),
           pc[c] # "answered",
           label \in {"insertSource", "inserted"} =>
             /\ \A r \in rows : ~ SameKey(r, c)
             /\ \A d \in Calls \ {c} : Open(d) => ~ SameKey(d, c),
           label = "inserted" =>
             /\ \A r \in rows : ~ SameUpload(r, c)
             /\ \A d \in Calls \ {c} : pc[d] = "inserted" => ~ SameUpload(d, c),
           label = "lostKey" => \E r \in rows : SameKey(r, c),
           label = "lostSource" => \E r \in rows : SameUpload(r, c)
    PROVE  CreateInv'
<1>1. /\ pc' \in [Calls -> PCs]
      /\ pc'[c] = label
      /\ \A d \in Calls \ {c} : pc'[d] = pc[d]
  BY DEF CreateInv, CreateTypeOK, Goto
<1>2. CreateTypeOK'
  BY <1>1 DEF CreateInv, CreateTypeOK, TypeOK
<1>3. AnsweredAtTheEnd' /\ CheckedIsValid'
  BY <1>1 DEF CreateInv, AnsweredAtTheEnd, CheckedIsValid
<1>4. IndexesAreUnique'
  <2> SUFFICES ASSUME NEW d \in Calls
      PROVE  /\ Open(d)' => \A r \in rows : ~ SameKey(r, d)
             /\ pc'[d] = "inserted" => \A r \in rows : ~ SameUpload(r, d)
             /\ \A e \in Calls : Open(d)' /\ Open(e)' /\ SameKey(d, e) => d = e
             /\ \A e \in Calls :
                  pc'[d] = "inserted" /\ pc'[e] = "inserted" /\ SameUpload(d, e) => d = e
    BY DEF IndexesAreUnique
  <2>1. \A x, y : (SameKey(x, y) => SameKey(y, x)) /\ (SameUpload(x, y) => SameUpload(y, x))
    BY DEF SameKey, SameUpload
  <2> QED
    BY <1>1, <2>1 DEF CreateInv, IndexesAreUnique, Open
<1>5. LosersHaveWinners'
  BY <1>1 DEF CreateInv, LosersHaveWinners
<1> QED
  BY <1>2, <1>3, <1>4, <1>5 DEF CreateInv

\* A step that answers call c, storing its request or nothing.
LEMMA CallIsAnswered ==
    ASSUME CreateInv, NEW c \in Calls, faults' \in 0..MaxFaults,
           NEW kind \in {"created", "replayed", "conflict", "invalid", "error"}, NEW r,
           [kind |-> kind, request |-> r] \in Answer, AnswerWith(c, kind, r),
           \/ UNCHANGED <<rows, outbox>>
           \/ pc[c] = "inserted" /\ WriteTables(c)
    PROVE  CreateInv'
<1>1. /\ answer' \in [Calls -> Answer]
      /\ answer'[c] = [kind |-> kind, request |-> r]
      /\ \A d \in Calls \ {c} : answer'[d] = answer[d]
  BY DEF CreateInv, CreateTypeOK, TypeOK, AnswerWith, Reply
<1>2. /\ pc' \in [Calls -> PCs]
      /\ pc'[c] = "answered"
      /\ \A d \in Calls \ {c} : pc'[d] = pc[d]
  BY DEF CreateInv, CreateTypeOK, AnswerWith, Goto, PCs
<1>3. CreateTypeOK'
  BY <1>1, <1>2 DEF CreateInv, CreateTypeOK, TypeOK, WriteTables
<1>4. AnsweredAtTheEnd'
  <2>1. [kind |-> kind, request |-> r] # Unanswered
    BY DEF Unanswered
  <2> QED
    BY <1>1, <1>2, <2>1 DEF CreateInv, AnsweredAtTheEnd
<1>5. CheckedIsValid'
  BY <1>2 DEF CreateInv, CheckedIsValid
<1>6. rows \subseteq rows'
  BY DEF WriteTables
<1>7. LosersHaveWinners'
  BY <1>2, <1>6 DEF CreateInv, LosersHaveWinners
<1>8. IndexesAreUnique'
  BY <1>2 DEF CreateInv, IndexesAreUnique, Open, WriteTables
<1> QED
  BY <1>3, <1>4, <1>5, <1>7, <1>8 DEF CreateInv

-----------------------------------------------------------------------------
(* One action at a time: it keeps the invariant, and it is a step of the   *)
(* promise or none.                                                        *)

Implements == CreateInv' /\ [Next]_vars

LEMMA ReplayByKeyStep ==
    ASSUME CreateInv, NEW c \in Calls, NEW r \in rows, SameKey(r, c), ReplayByKey(c, r),
           UNCHANGED <<rows, outbox, faults>>
    PROVE  Implements
<1>0. faults' \in 0..MaxFaults /\ r \in Calls
  BY DEF CreateInv, CreateTypeOK, TypeOK
<1>1. CASE SameUpload(r, c)
  <2>1. AnswerWith(c, "replayed", r) /\ [kind |-> "replayed", request |-> r] \in Answer
    BY <1>0, <1>1 DEF ReplayByKey, Answer
  <2>2. Replay(c)
    BY <1>1, <2>1 DEF Replay, AnswerWith
  <2> QED
    BY <1>0, <2>1, <2>2, CallIsAnswered DEF Implements, Next
<1>2. CASE ~ SameUpload(r, c)
  <2>1. AnswerWith(c, "conflict", None) /\ [kind |-> "conflict", request |-> None] \in Answer
    BY <1>2 DEF ReplayByKey, Answer
  <2>2. Conflict(c)
    BY <1>2, <2>1 DEF Conflict, AnswerWith
  <2> QED
    BY <1>0, <2>1, <2>2, CallIsAnswered DEF Implements, Next
<1> QED
  BY <1>1, <1>2

LEMMA ReplayBySourceStep ==
    ASSUME CreateInv, NEW c \in Calls, NEW r \in rows, SameUpload(r, c),
           AnswerWith(c, "replayed", r), UNCHANGED <<rows, outbox, faults>>
    PROVE  Implements
<1>1. faults' \in 0..MaxFaults /\ [kind |-> "replayed", request |-> r] \in Answer
  BY DEF CreateInv, CreateTypeOK, TypeOK, Answer
<1>2. Replay(c)
  BY DEF Replay, AnswerWith
<1> QED
  BY <1>1, <1>2, CallIsAnswered DEF Implements, Next

LEMMA ValidateStep == ASSUME CreateInv, NEW c \in Calls, Validate(c) PROVE Implements
<1>1. CASE Valid(c)
  <2>1. Goto(c, "findKey") /\ UNCHANGED <<rows, outbox, answer, faults>> /\ pc[c] # "answered"
    BY <1>1 DEF Validate
  <2>2. CreateInv'
    BY <1>1, <2>1, CallMoves DEF PCs
  <2> QED
    BY <2>1, <2>2 DEF Implements, vars
<1>2. CASE ~ Valid(c)
  <2>1. /\ AnswerWith(c, "invalid", None) /\ UNCHANGED <<rows, outbox, faults>>
        /\ [kind |-> "invalid", request |-> None] \in Answer
        /\ faults' \in 0..MaxFaults
    BY <1>2 DEF Validate, Answer, CreateInv, CreateTypeOK
  <2>2. CreateInv'
    BY <2>1, CallIsAnswered
  <2>3. Invalid(c)
    BY <1>2, <2>1 DEF Invalid, AnswerWith
  <2> QED
    BY <2>2, <2>3 DEF Implements, Next
<1> QED
  BY <1>1, <1>2

LEMMA FindByKeyStep == ASSUME CreateInv, NEW c \in Calls, FindByKey(c) PROVE Implements
<1>1. CASE \E r \in rows : SameKey(r, c) /\ ReplayByKey(c, r)
  BY <1>1, ReplayByKeyStep DEF FindByKey
<1>2. CASE Goto(c, "findSource") /\ UNCHANGED answer
  <2>1. UNCHANGED <<rows, outbox, answer, faults>> /\ Valid(c) /\ pc[c] # "answered"
    BY <1>2 DEF FindByKey, CreateInv, CheckedIsValid
  <2>2. CreateInv'
    BY <1>2, <2>1, CallMoves DEF PCs
  <2> QED
    BY <2>1, <2>2 DEF Implements, vars
<1> QED
  BY <1>1, <1>2 DEF FindByKey

LEMMA FindBySourceStep == ASSUME CreateInv, NEW c \in Calls, FindBySource(c) PROVE Implements
<1>1. CASE \E r \in rows : SameUpload(r, c) /\ AnswerWith(c, "replayed", r)
  BY <1>1, ReplayBySourceStep DEF FindBySource
<1>2. CASE Goto(c, "insertKey") /\ UNCHANGED answer
  <2>1. UNCHANGED <<rows, outbox, answer, faults>> /\ Valid(c) /\ pc[c] # "answered"
    BY <1>2 DEF FindBySource, CreateInv, CheckedIsValid
  <2>2. CreateInv'
    BY <1>2, <2>1, CallMoves DEF PCs
  <2> QED
    BY <2>1, <2>2 DEF Implements, vars
<1> QED
  BY <1>1, <1>2 DEF FindBySource

LEMMA InsertKeyStep == ASSUME CreateInv, NEW c \in Calls, InsertKey(c) PROVE Implements
<1>1. /\ UNCHANGED <<rows, outbox, answer, faults>> /\ Valid(c) /\ pc[c] # "answered"
      /\ \A d \in Calls \ {c} : Open(d) => ~ SameKey(d, c)
  BY DEF InsertKey, CreateInv, CheckedIsValid, Open
<1>2. CASE Goto(c, "lostKey") /\ \E r \in rows : SameKey(r, c)
  BY <1>1, <1>2, CallMoves DEF PCs, Implements, vars
<1>3. CASE Goto(c, "insertSource") /\ \A r \in rows : ~ SameKey(r, c)
  BY <1>1, <1>3, CallMoves DEF PCs, Implements, vars
<1> QED
  BY <1>2, <1>3 DEF InsertKey

LEMMA InsertSourceStep == ASSUME CreateInv, NEW c \in Calls, InsertSource(c) PROVE Implements
<1>1. /\ UNCHANGED <<rows, outbox, answer, faults>> /\ Valid(c) /\ pc[c] # "answered"
      /\ \A d \in Calls \ {c} : pc[d] = "inserted" => ~ SameUpload(d, c)
  BY DEF InsertSource, CreateInv, CheckedIsValid
\* The entry in the index on keys was won before.
<1>2. /\ \A r \in rows : ~ SameKey(r, c)
      /\ \A d \in Calls \ {c} : Open(d) => ~ SameKey(d, c)
  BY DEF InsertSource, CreateInv, IndexesAreUnique, Open
<1>3. CASE Goto(c, "lostSource") /\ \E r \in rows : SameUpload(r, c)
  BY <1>1, <1>3, CallMoves DEF PCs, Implements, vars
<1>4. CASE Goto(c, "inserted") /\ \A r \in rows : ~ SameUpload(r, c)
  BY <1>1, <1>2, <1>4, CallMoves DEF PCs, Implements, vars
<1> QED
  BY <1>3, <1>4 DEF InsertSource

\* The row that is committed is the only one of its key and of its upload.
LEMMA CommitStores ==
    ASSUME CreateInv, NEW c \in Calls, pc[c] = "inserted", WriteTables(c) PROVE Store(c)
BY DEF CreateInv, CheckedIsValid, IndexesAreUnique, Open, WriteTables, Store

LEMMA CommitStep == ASSUME CreateInv, NEW c \in Calls, Commit(c) PROVE Implements
<1>1. /\ pc[c] = "inserted" /\ WriteTables(c) /\ AnswerWith(c, "created", c)
      /\ faults' \in 0..MaxFaults
      /\ [kind |-> "created", request |-> c] \in Answer
  BY DEF Commit, CreateInv, CreateTypeOK, Answer
<1>2. CreateInv'
  BY <1>1, CallIsAnswered
<1>3. Create(c)
  BY <1>1, CommitStores DEF Create, AnswerWith
<1> QED
  BY <1>2, <1>3 DEF Implements, Next

LEMMA ReadWinnerByKeyStep ==
    ASSUME CreateInv, NEW c \in Calls, ReadWinnerByKey(c) PROVE Implements
<1>1. \E r \in rows : SameKey(r, c)
  BY DEF ReadWinnerByKey, CreateInv, LosersHaveWinners
<1> QED
  BY <1>1, ReplayByKeyStep DEF ReadWinnerByKey

LEMMA ReadWinnerBySourceStep ==
    ASSUME CreateInv, NEW c \in Calls, ReadWinnerBySource(c) PROVE Implements
<1>1. \E r \in rows : SameUpload(r, c)
  BY DEF ReadWinnerBySource, CreateInv, LosersHaveWinners
<1> QED
  BY <1>1, ReplayBySourceStep DEF ReadWinnerBySource

\* A fault answers with an error, whether the row was committed or not.
LEMMA FaultStep ==
    ASSUME CreateInv, NEW c \in Calls, Fails(c) \/ CommitUnanswered(c) PROVE Implements
<1>1. /\ AnswerWith(c, "error", None) /\ faults' \in 0..MaxFaults
      /\ [kind |-> "error", request |-> None] \in Answer
  BY DEF Fails, CommitUnanswered, Fault, CreateInv, CreateTypeOK, Answer
<1>2. CASE UNCHANGED <<rows, outbox>>
  <2>1. Error(c)
    BY <1>1, <1>2 DEF Error, AnswerWith
  <2> QED
    BY <1>1, <1>2, <2>1, CallIsAnswered DEF Implements, Next
<1>3. CASE pc[c] = "inserted" /\ WriteTables(c)
  <2>1. CreateUnnoticed(c)
    BY <1>1, <1>3, CommitStores DEF CreateUnnoticed, AnswerWith
  <2> QED
    BY <1>1, <1>3, <2>1, CallIsAnswered DEF Implements, Next
<1> QED
  BY <1>2, <1>3 DEF Fails, CommitUnanswered

LEMMA CreateStep == CreateInv /\ [CreateNext]_allVars => Implements
<1> SUFFICES ASSUME CreateInv, [CreateNext]_allVars PROVE Implements
  OBVIOUS
<1>1. ASSUME NEW c \in Calls, Step(c) PROVE Implements
  BY <1>1, FindByKeyStep, FindBySourceStep, InsertKeyStep, InsertSourceStep, CommitStep,
     ReadWinnerByKeyStep, ReadWinnerBySourceStep DEF Step
<1>2. ASSUME UNCHANGED allVars PROVE Implements
  BY <1>2 DEF allVars, vars, Implements, CreateInv, CreateTypeOK, TypeOK, AnsweredAtTheEnd,
              CheckedIsValid, IndexesAreUnique, Open, LosersHaveWinners
<1> QED
  BY <1>1, <1>2, ValidateStep, FaultStep DEF CreateNext, Quiet

-----------------------------------------------------------------------------
(* The theorems *)

LEMMA CreateInvariant == CreateSpec => []CreateInv
<1>1. CreateInv /\ [CreateNext]_allVars => CreateInv'
  BY CreateStep DEF Implements
<1> QED
  BY <1>1, CreateInitInv, PTL DEF CreateSpec

\* Every variable of the calls keeps its type, and no more than MaxFaults
\* faults happen.
THEOREM CreateTypeCorrect == CreateSpec => []CreateTypeOK
BY CreateInvariant, PTL DEF CreateInv

\* The two lookups, the two unique indexes, the rolled back losers and the
\* winners they read amount to one atomic step per call: CreateRequest
\* implements RequestCreation.
THEOREM CreationImplemented == CreateSpec => ImplementsCreation
<1>1. CreateInit => Init
  BY DEF CreateInit
<1>2. CreateInv /\ [CreateNext]_allVars => [Next]_vars
  BY CreateStep DEF Implements
<1> QED
  BY <1>1, <1>2, CreateInvariant, PTL DEF CreateSpec, ImplementsCreation, Spec

\* So the code keeps the promises of RequestCreation: whoever is told of a
\* request is told of the one stored request of its own upload.
THEOREM CreateAgrees == CreateSpec => []AnswersAgree
BY CreationAgrees, CreationImplemented, PTL DEF ImplementsCreation

\* Two calls of one owner with the same key or the same source never store two
\* requests, however they interleave, and one call at most is told "created".
THEOREM CreateStoresOnce == CreateSpec => [](OneRequestEach /\ OneCreator)
BY CreationAgrees, CreationImplemented, PTL DEF ImplementsCreation

-----------------------------------------------------------------------------
(* Losing a race is never an error *)

Errors == {c \in Calls : answer[c].kind = "error"}

\* The set of calls need not be finite, but few of them ever fail.
ErrorsCounted == IsFiniteSet(Errors) /\ ErrorsAreFaults

\* Another answer fails no call.
LEMMA OtherAnswers ==
    ASSUME CreateInv, NEW c \in Calls, NEW r,
           NEW kind \in {"created", "replayed", "conflict", "invalid"}, AnswerWith(c, kind, r)
    PROVE  Errors' = Errors
<1>1. answer[c] = Unanswered /\ answer' = [answer EXCEPT ![c] = [kind |-> kind, request |-> r]]
  BY DEF AnswerWith, Reply
<1>2. \A d \in Calls : answer'[d] = IF d = c THEN [kind |-> kind, request |-> r] ELSE answer[d]
  BY <1>1 DEF CreateInv, CreateTypeOK, TypeOK
<1> QED
  BY <1>1, <1>2 DEF Errors, Unanswered

\* Every step that is no fault fails nobody.
LEMMA NoFaultNoError ==
    ASSUME CreateInv, NEW c \in Calls, Validate(c) \/ Step(c)
    PROVE  Errors' = Errors /\ faults' = faults
<1>1. ASSUME NEW r \in rows, ReplayByKey(c, r) PROVE Errors' = Errors
  BY <1>1, OtherAnswers DEF ReplayByKey
<1>2. CASE Validate(c) \/ FindByKey(c) \/ FindBySource(c)
  BY <1>1, <1>2, OtherAnswers DEF Validate, FindByKey, FindBySource, Errors
<1>3. CASE InsertKey(c) \/ InsertSource(c) \/ Commit(c)
  BY <1>3, OtherAnswers DEF InsertKey, InsertSource, Commit, Errors
<1>4. CASE ReadWinnerByKey(c)
  BY <1>1, <1>4 DEF ReadWinnerByKey, CreateInv, LosersHaveWinners
<1>5. CASE ReadWinnerBySource(c)
  BY <1>5, OtherAnswers DEF ReadWinnerBySource, CreateInv, LosersHaveWinners
<1> QED
  BY <1>2, <1>3, <1>4, <1>5 DEF Step

\* A fault fails one call that was not answered yet.
LEMMA FaultIsError ==
    ASSUME CreateInv, NEW c \in Calls, Fails(c) \/ CommitUnanswered(c)
    PROVE  Errors' = Errors \cup {c} /\ c \notin Errors /\ faults' = faults + 1
<1>1. /\ answer[c] = Unanswered
      /\ answer' = [answer EXCEPT ![c] = [kind |-> "error", request |-> None]]
      /\ faults' = faults + 1
  BY DEF Fails, CommitUnanswered, Fault, AnswerWith, Reply
<1>2. \A d \in Calls :
        answer'[d] = IF d = c THEN [kind |-> "error", request |-> None] ELSE answer[d]
  BY <1>1 DEF CreateInv, CreateTypeOK, TypeOK
<1> QED
  BY <1>1, <1>2 DEF Errors, Unanswered

LEMMA ErrorsStep ==
    CreateInv /\ ErrorsCounted /\ [CreateNext]_allVars => ErrorsCounted'
<1> SUFFICES ASSUME CreateInv, ErrorsCounted, [CreateNext]_allVars PROVE ErrorsCounted'
  OBVIOUS
<1>1. CASE Errors' = Errors /\ faults' = faults
  BY <1>1 DEF ErrorsCounted, ErrorsAreFaults, Errors
<1>2. ASSUME NEW c \in Calls, Fails(c) \/ CommitUnanswered(c) PROVE ErrorsCounted'
  <2>1. Errors' = Errors \cup {c} /\ c \notin Errors /\ faults' = faults + 1
    BY <1>2, FaultIsError
  <2>2. IsFiniteSet(Errors \cup {c}) /\ Cardinality(Errors \cup {c}) = Cardinality(Errors) + 1
    BY <2>1, FS_AddElement DEF ErrorsCounted
  <2> QED
    BY <2>1, <2>2 DEF ErrorsCounted, ErrorsAreFaults, Errors
<1>3. ASSUME UNCHANGED allVars PROVE Errors' = Errors /\ faults' = faults
  BY <1>3 DEF allVars, Errors
<1> QED
  BY <1>1, <1>2, <1>3, NoFaultNoError DEF CreateNext, Quiet

LEMMA ErrorsInit == CreateInit => ErrorsCounted
<1> SUFFICES ASSUME CreateInit PROVE ErrorsCounted
  OBVIOUS
<1>1. Errors = {} /\ faults = 0
  BY DEF CreateInit, Init, Errors, Unanswered
<1> QED
  BY <1>1, FS_EmptySet DEF ErrorsCounted, ErrorsAreFaults, Errors

\* A call that loses a race, on its key or on its source, is answered as if it
\* had come later: the calls that see an error are as many as the faults.
THEOREM LostRacesAreNoErrors == CreateSpec => []ErrorsAreFaults
<1>1. ErrorsCounted => ErrorsAreFaults
  BY DEF ErrorsCounted
<1> QED
  BY <1>1, CreateInvariant, ErrorsInit, ErrorsStep, PTL DEF CreateSpec

=============================================================================
