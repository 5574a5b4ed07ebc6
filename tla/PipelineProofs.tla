--------------------------- MODULE PipelineProofs ---------------------------
(***************************************************************************)
(* Proofs about Pipeline for every number of uploads, rows, jobs, clients, *)
(* pages and runs, every settings and every metrics.  The three parts keep *)
(* their invariants by themselves; what one takes from another is that     *)
(* answered uploads stay (StoreUpload), that a job has the stores of its   *)
(* upload, and that a job that is over stays as it is (JobContract).       *)
(***************************************************************************)
EXTENDS Pipeline, JobContractProofs, FiniteSetTheorems, SequenceTheorems

-----------------------------------------------------------------------------
(* Uploads.  What the invariant says of one request and its upload.         *)
UploadSound(u) ==
  /\ phase[u] \in Phases
  /\ file[u] \in Seq(Headers \cup Records)
  /\ accepted[u] \in Seq(Nat)
  /\ rejected[u] \in SUBSET Nat
  /\ inserted[u] \in Nat
  /\ phase[u] \in {"answered", "refused", "failed"} =>
       file[u] = <<>> /\ accepted[u] = <<>> /\ rejected[u] = {}
  /\ file[u] # <<>> => file[u][1] \in Headers /\ ValidHeader(file[u][1])
  /\ \A n \in 2..Len(file[u]) : file[u][n] \in Records
  /\ phase[u] \in {"inserting", "created"} => accepted[u] # <<>>
  /\ inserted[u] <= Len(accepted[u])
  /\ {accepted[u][i] : i \in DOMAIN accepted[u]} = FirstValidRows(u)
  /\ rejected[u] = 2..Len(file[u]) \ FirstValidRows(u)
  /\ \A i, k \in DOMAIN accepted[u] : i < k => accepted[u][i] < accepted[u][k]
  /\ \A n \in 2..Len(file[u]) : Valid(u, n) => Store(u, n)[IdColumn] \in SeenIds(u)
  /\ uploads[u] # {} <=> phase[u] \in {"created", "answered"}
  /\ phase[u] = "created" => uploads[u] = {Store(u, n) : n \in FirstValidRows(u)}
  /\ phase[u] = "inserting" => ~Conflicts(u)
  /\ \A s1, s2 \in uploads[u] : s1[IdColumn] = s2[IdColumn] => s1 = s2
  /\ IsFiniteSet(uploads[u]) /\ uploads[u] \subseteq ValidStores

Shapes ==
  /\ phase \in [Uploads -> Phases]
  /\ file \in [Uploads -> Seq(Headers \cup Records)]
  /\ accepted \in [Uploads -> Seq(Nat)]
  /\ rejected \in [Uploads -> SUBSET Nat]
  /\ inserted \in [Uploads -> Nat]
  /\ DOMAIN uploads = Uploads

LEMMA UploadByUpload ==
  UploadInv <=> Shapes /\ \A u \in Uploads : UploadSound(u)
<1>1. UploadInv => Shapes
  BY DEF UploadInv, UploadTypeOK, Shapes
<1>2. ASSUME UploadInv, NEW u \in Uploads PROVE UploadSound(u)
  <2>1. /\ phase[u] \in Phases /\ file[u] \in Seq(Headers \cup Records)
        /\ accepted[u] \in Seq(Nat) /\ rejected[u] \in SUBSET Nat /\ inserted[u] \in Nat
    BY <1>2 DEF UploadInv, UploadTypeOK
  <2>2. HandlersInOrder /\ KeepsFirstValidRows /\ ValidIdsSeen /\ UploadsAreWhole
        /\ \A v \in Uploads : IsFiniteSet(uploads[v]) /\ uploads[v] \subseteq ValidStores
    BY <1>2 DEF UploadInv
  <2> QED BY <2>1, <2>2, Zenon
          DEF UploadSound, HandlersInOrder, KeepsFirstValidRows, ValidIdsSeen, UploadsAreWhole
<1>3. ASSUME Shapes, \A u \in Uploads : UploadSound(u) PROVE UploadInv
  <2>1. UploadTypeOK
    BY <1>3 DEF Shapes, UploadTypeOK
  <2>2. HandlersInOrder
    BY <1>3, Zenon DEF UploadSound, HandlersInOrder
  <2>3. KeepsFirstValidRows
    BY <1>3, Zenon DEF UploadSound, KeepsFirstValidRows
  <2>4. ValidIdsSeen
    BY <1>3, Zenon DEF UploadSound, ValidIdsSeen
  <2>5. UploadsAreWhole
    BY <1>3, Zenon DEF UploadSound, UploadsAreWhole
  <2>6. \A u \in Uploads : IsFiniteSet(uploads[u]) /\ uploads[u] \subseteq ValidStores
    BY <1>3, Zenon DEF UploadSound
  <2> QED BY <2>1, <2>2, <2>3, <2>4, <2>5, <2>6 DEF UploadInv
<1> QED BY <1>1, <1>2, <1>3

-----------------------------------------------------------------------------
(* A step of one request leaves the others alone.                           *)

Still(v) ==
  /\ phase'[v] = phase[v] /\ file'[v] = file[v] /\ accepted'[v] = accepted[v]
  /\ rejected'[v] = rejected[v] /\ inserted'[v] = inserted[v] /\ uploads'[v] = uploads[v]

LEMMA StillSound ==
  ASSUME NEW v \in Uploads, UploadSound(v), Still(v)
  PROVE  UploadSound(v)'
<1>1. \A n : Store(v, n)' = Store(v, n) /\ (Valid(v, n)' <=> Valid(v, n))
  BY DEF Still, Store, Valid
<1>2. FirstValidRows(v)' = FirstValidRows(v)
  BY <1>1 DEF Still, FirstValidRows
<1>3. SeenIds(v)' = SeenIds(v)
  BY <1>1 DEF Still, SeenIds
<1>4. Conflicts(v)' <=> Conflicts(v)
  BY <1>1 DEF Still, Conflicts, Chunk
<1> QED BY <1>1, <1>2, <1>3, <1>4 DEF Still, UploadSound

LEMMA NextUploadByUpload ==
  (Shapes /\ \A u \in Uploads : UploadSound(u))' => UploadInv'
BY UploadByUpload, PTL

LEMMA StepOfOneRequest ==
  ASSUME UploadInv, NEW u \in Uploads, Shapes', UploadSound(u)',
         \A v \in Uploads \ {u} : Still(v)
  PROVE  UploadInv'
<1>1. \A v \in Uploads : UploadSound(v)'
  BY StillSound, UploadByUpload
<1> QED BY <1>1, NextUploadByUpload

-----------------------------------------------------------------------------
(* The end of a request, whatever it ends with.                             *)

LEMMA FinishKeepsInv ==
  ASSUME UploadInv, NEW u \in Uploads, NEW how \in {"answered", "refused", "failed"},
         Finish(u, how), how = "answered" <=> phase[u] = "created", phase[u] # "answered"
  PROVE  UploadInv'
<1>1. Shapes /\ UploadSound(u)
  BY UploadByUpload
<1>2. Shapes'
  BY <1>1 DEF Finish, Shapes, Phases
<1>3. /\ phase'[u] = how /\ file'[u] = <<>> /\ accepted'[u] = <<>> /\ rejected'[u] = {}
      /\ inserted'[u] = 0 /\ uploads'[u] = uploads[u]
  BY <1>1 DEF Finish, Shapes
<1>4. FirstValidRows(u)' = {}
  BY <1>3 DEF FirstValidRows
<1>5. UploadSound(u)'
  BY <1>1, <1>3, <1>4 DEF UploadSound, Phases
<1>6. \A v \in Uploads \ {u} : Still(v)
  BY <1>1 DEF Finish, Shapes, Still
<1> QED BY <1>2, <1>5, <1>6, StepOfOneRequest

-----------------------------------------------------------------------------
(* Reading a row.                                                           *)

(* The file before and after, row by row.                                   *)
LEMMA FileGrows ==
  ASSUME UploadInv, NEW u \in Uploads, NEW record, file[u] # <<>>,
         NEW last, last = Len(file[u]),
         file' = [file EXCEPT ![u] = Append(@, record)]
  PROVE  /\ Len(file'[u]) = last + 1 /\ last \in Nat \ {0}
         /\ \A n \in 1..last : file'[u][n] = file[u][n] /\ Store(u, n)' = Store(u, n)
         /\ \A n \in 1..last : Valid(u, n)' <=> Valid(u, n)
         /\ file'[u][last + 1] = record
         /\ Store(u, last + 1)' = StoreOf(file[u][1], record)
         /\ Valid(u, last + 1)' <=> ValidRow(file[u][1], record)
<1>1. file[u] \in Seq(Headers \cup Records) /\ file'[u] = Append(file[u], record)
  BY DEF UploadInv, UploadTypeOK
<1>2. /\ Len(file'[u]) = last + 1 /\ last \in Nat \ {0}
      /\ \A n \in 1..last : file'[u][n] = file[u][n]
      /\ file'[u][last + 1] = record
  BY <1>1
<1>3. 1 \in 1..last
  BY <1>2
<1>4. \A n \in 1..last : Store(u, n)' = Store(u, n)
  BY <1>2, <1>3, Zenon DEF Store
<1>5. \A n \in 1..last : Valid(u, n)' <=> Valid(u, n)
  BY <1>2, <1>3, Zenon DEF Valid
<1>6. /\ Store(u, last + 1)' = StoreOf(file[u][1], record)
      /\ Valid(u, last + 1)' <=> ValidRow(file[u][1], record)
  <2>1. file'[u][1] = file[u][1] /\ file'[u][last + 1] = record
    BY <1>2, <1>3, Zenon
  <2> QED BY <2>1, Zenon DEF Store, Valid
<1> QED BY <1>2, <1>4, <1>5, <1>6, Zenon

(* The rows that count are those that counted, and the new one if its store *)
(* is accepted.                                                             *)
LEMMA FirstValidRowsGrow ==
  ASSUME UploadInv, NEW u \in Uploads, NEW record, file[u] # <<>>,
         NEW last, last = Len(file[u]),
         file' = [file EXCEPT ![u] = Append(@, record)]
  PROVE  FirstValidRows(u)' =
           FirstValidRows(u) \cup IF Accepts(u, record) THEN {last + 1} ELSE {}
<1>1. UploadSound(u)
  BY UploadByUpload
<1>2. last \in Nat \ {0} /\ Len(file'[u]) = last + 1
  BY FileGrows
<1>3. \A k \in 2..last : Store(u, k)' = Store(u, k) /\ (Valid(u, k)' <=> Valid(u, k))
  <2>1. 2..last \subseteq 1..last
    BY <1>2
  <2> QED BY <2>1, FileGrows, ZenonT(30)
<1>4. ASSUME NEW n \in 2..last
      PROVE  n \in FirstValidRows(u)' <=> n \in FirstValidRows(u)
  <2>1. n \in 2..(last + 1) /\ 2..(n - 1) \subseteq 2..last
    BY <1>2
  <2> QED BY <1>2, <1>3, <2>1, Zenon DEF FirstValidRows
<1>5. last + 1 \in FirstValidRows(u)' <=> Accepts(u, record)
  <2> DEFINE id == StoreOf(file[u][1], record)[IdColumn]
  <2>1. last + 1 \in FirstValidRows(u)' <=>
          /\ ValidRow(file[u][1], record)
          /\ \A k \in 2..last : Valid(u, k) => Store(u, k)[IdColumn] # id
    <3>1. /\ Store(u, last + 1)' = StoreOf(file[u][1], record)
          /\ Valid(u, last + 1)' <=> ValidRow(file[u][1], record)
      BY FileGrows, Zenon
    <3>3. 2..((last + 1) - 1) = 2..last /\ last + 1 \in 2..Len(file'[u])
      BY <1>2
    <3>4. last + 1 \in FirstValidRows(u)' <=>
            /\ Valid(u, last + 1)'
            /\ \A k \in 2..last :
                 Valid(u, k)' => Store(u, k)'[IdColumn] # Store(u, last + 1)'[IdColumn]
      BY <3>3, Zenon DEF FirstValidRows
    <3> QED BY <1>3, <3>1, <3>4, Zenon
  <2>2. (\A k \in 2..last : Valid(u, k) => Store(u, k)[IdColumn] # id) <=> id \notin SeenIds(u)
    <3>1. ASSUME NEW k \in 2..last, Valid(u, k), Store(u, k)[IdColumn] = id
          PROVE  id \in SeenIds(u)
      BY <1>1, <3>1 DEF UploadSound
    <3>2. ASSUME id \in SeenIds(u)
          PROVE  \E k \in 2..last : Valid(u, k) /\ Store(u, k)[IdColumn] = id
      <4>1. PICK i \in DOMAIN accepted[u] : Store(u, accepted[u][i])[IdColumn] = id
        BY <3>2 DEF SeenIds
      <4>2. accepted[u][i] \in FirstValidRows(u)
        BY <1>1, <4>1 DEF UploadSound
      <4> QED BY <4>1, <4>2 DEF FirstValidRows
    <3> QED BY <3>1, <3>2
  <2> QED BY <2>1, <2>2 DEF Accepts
<1>6. FirstValidRows(u) \subseteq 2..last /\ FirstValidRows(u)' \subseteq 2..(last + 1)
  BY <1>2 DEF FirstValidRows
<1>7. 2..(last + 1) = (2..last) \cup {last + 1} /\ last + 1 \notin 2..last
  BY <1>2
<1> QED BY <1>4, <1>5, <1>6, <1>7

LEMMA ReadHeaderKeepsInv ==
  ASSUME UploadInv, NEW u \in Uploads, NEW header \in Headers, ReadHeader(u, header)
  PROVE  UploadInv'
<1>1. Shapes /\ UploadSound(u) /\ phase[u] = "reading" /\ file[u] = <<>>
  BY UploadByUpload DEF ReadHeader
<1>2. CASE ~ValidHeader(header)
  BY <1>1, <1>2, FinishKeepsInv DEF ReadHeader
<1>3. CASE ValidHeader(header)
  <2>1. /\ file' = [file EXCEPT ![u] = <<header>>]
        /\ UNCHANGED <<phase, accepted, rejected, inserted, uploads>>
    BY <1>3 DEF ReadHeader
  <2>2. file'[u] = <<header>> /\ <<header>> \in Seq(Headers \cup Records)
    BY <1>1, <2>1 DEF Shapes
  <2>3. Len(file[u]) = 0 /\ Len(file'[u]) = 1 /\ file'[u][1] = header /\ file'[u] # <<>>
    BY <1>1, <2>2
  <2>4. FirstValidRows(u) = {} /\ FirstValidRows(u)' = {}
    BY <2>3 DEF FirstValidRows
  <2>5. UploadSound(u)'
    <3>1. 2..0 = {} /\ 2..1 = {}
      OBVIOUS
    <3>2. rejected'[u] = 2..Len(file'[u]) \ FirstValidRows(u)'
      BY <1>1, <2>1, <2>3, <2>4, <3>1 DEF UploadSound
    <3>3. {accepted'[u][i] : i \in DOMAIN accepted'[u]} = FirstValidRows(u)'
      BY <1>1, <2>1, <2>4 DEF UploadSound
    <3>4. /\ \A n \in 2..Len(file'[u]) : file'[u][n] \in Records
          /\ \A n \in 2..Len(file'[u]) : Valid(u, n)' => Store(u, n)'[IdColumn] \in SeenIds(u)'
      BY <2>3, <3>1
    <3> QED BY <1>1, <1>3, <2>1, <2>2, <2>3, <3>2, <3>3, <3>4 DEF UploadSound
  <2>6. Shapes'
    BY <1>1, <2>1, <2>2 DEF Shapes
  <2>7. \A v \in Uploads \ {u} : Still(v)
    BY <1>1, <2>1 DEF Shapes, Still
  <2> QED BY <2>5, <2>6, <2>7, StepOfOneRequest
<1> QED BY <1>2, <1>3

LEMMA ReadRowKeepsInv ==
  ASSUME UploadInv, NEW u \in Uploads, NEW record \in Records, ReadRow(u, record)
  PROVE  UploadInv'
<1>1. Shapes /\ UploadSound(u) /\ phase[u] = "reading" /\ file[u] # <<>>
  BY UploadByUpload DEF ReadRow
<1>2. CASE TotalRows(u) + 1 > MaxRows
  BY <1>1, <1>2, FinishKeepsInv DEF ReadRow
<1>3. CASE ~(TotalRows(u) + 1 > MaxRows)
  <2>1. /\ file' = [file EXCEPT ![u] = Append(@, record)]
        /\ AcceptRow(u, record) \/ RejectRow(u, record)
        /\ UNCHANGED <<phase, inserted, uploads>>
    BY <1>3 DEF ReadRow
  <2>2. PICK last : last = Len(file[u])
    OBVIOUS
  <2>3. /\ last \in Nat \ {0} /\ Len(file'[u]) = last + 1
        /\ \A k \in 1..last : file'[u][k] = file[u][k] /\ Store(u, k)' = Store(u, k)
        /\ \A k \in 1..last : Valid(u, k)' <=> Valid(u, k)
        /\ file'[u][last + 1] = record
        /\ Store(u, last + 1)' = StoreOf(file[u][1], record)
        /\ Valid(u, last + 1)' <=> ValidRow(file[u][1], record)
    BY <1>1, <2>1, <2>2, FileGrows, ZenonT(30)
  <2>4. FirstValidRows(u)' =
          FirstValidRows(u) \cup IF Accepts(u, record) THEN {last + 1} ELSE {}
    BY <1>1, <2>1, <2>2, FirstValidRowsGrow, Zenon
  <2>5. /\ accepted'[u] = IF Accepts(u, record) THEN Append(accepted[u], last + 1)
                          ELSE accepted[u]
        /\ rejected'[u] = IF Accepts(u, record) THEN rejected[u]
                          ELSE rejected[u] \cup {last + 1}
    BY <1>1, <2>1, <2>2 DEF AcceptRow, RejectRow, Shapes
  <2>6. Shapes'
    <3>1. file' \in [Uploads -> Seq(Headers \cup Records)]
      BY <1>1, <2>1 DEF Shapes
    <3>2. accepted' \in [Uploads -> Seq(Nat)] /\ rejected' \in [Uploads -> SUBSET Nat]
      <4>1. /\ accepted \in [Uploads -> Seq(Nat)] /\ rejected \in [Uploads -> SUBSET Nat]
            /\ last + 1 \in Nat
        BY <1>1, <2>3 DEF Shapes
      <4>2. CASE AcceptRow(u, record)
        <5>1. accepted' = [accepted EXCEPT ![u] = Append(accepted[u], last + 1)]
              /\ rejected' = rejected
          BY <2>2, <4>2 DEF AcceptRow
        <5>2. Append(accepted[u], last + 1) \in Seq(Nat)
          BY <4>1
        <5> QED BY <4>1, <5>1, <5>2
      <4>3. CASE RejectRow(u, record)
        <5>1. rejected' = [rejected EXCEPT ![u] = rejected[u] \cup {last + 1}]
              /\ accepted' = accepted
          BY <2>2, <4>3 DEF RejectRow
        <5> QED BY <4>1, <5>1
      <4> QED BY <2>1, <4>2, <4>3
    <3> QED BY <1>1, <2>1, <3>1, <3>2 DEF Shapes
  <2>7. FirstValidRows(u) \subseteq 2..last /\ last + 1 \in 2..(last + 1)
    BY <2>2, <2>3 DEF FirstValidRows
  <2>8. /\ {accepted'[u][i] : i \in DOMAIN accepted'[u]} = FirstValidRows(u)'
        /\ \A i, k \in DOMAIN accepted'[u] : i < k => accepted'[u][i] < accepted'[u][k]
        /\ Len(accepted[u]) <= Len(accepted'[u])
        /\ {accepted[u][i] : i \in DOMAIN accepted[u]}
             \subseteq {accepted'[u][i] : i \in DOMAIN accepted'[u]}
    <3>1. CASE ~Accepts(u, record)
      BY <1>1, <2>4, <2>5, <3>1 DEF UploadSound
    <3>2. CASE Accepts(u, record)
      <4>1. /\ accepted[u] \in Seq(Nat) /\ accepted'[u] = Append(accepted[u], last + 1)
            /\ {accepted[u][i] : i \in DOMAIN accepted[u]} = FirstValidRows(u)
            /\ \A i, k \in DOMAIN accepted[u] : i < k => accepted[u][i] < accepted[u][k]
        BY <1>1, <2>5, <3>2 DEF UploadSound
      <4>2. PICK m \in Nat : m = Len(accepted[u])
        BY <4>1
      <4>3. /\ DOMAIN accepted'[u] = 1..(m + 1) /\ DOMAIN accepted[u] = 1..m
            /\ Len(accepted'[u]) = m + 1
            /\ \A i \in 1..m : accepted'[u][i] = accepted[u][i]
            /\ accepted'[u][m + 1] = last + 1
        BY <2>3, <4>1, <4>2
      <4>4. 1..(m + 1) = (1..m) \cup {m + 1}
        BY <4>2
      <4>5. {accepted'[u][i] : i \in 1..(m + 1)} = {accepted[u][i] : i \in 1..m} \cup {last + 1}
        <5>1. {accepted'[u][i] : i \in 1..(m + 1)} = {accepted'[u][i] : i \in 1..m} \cup {accepted'[u][m + 1]}
          BY <4>4, Zenon
        <5>2. {accepted'[u][i] : i \in 1..m} = {accepted[u][i] : i \in 1..m}
          BY <4>3, Zenon
        <5> QED BY <4>3, <5>1, <5>2, Zenon
      <4>6. \A i \in 1..m : accepted[u][i] \in 2..last
        BY <4>1, <4>3, <2>7
      <4>7. \A i, k \in 1..(m + 1) : i < k => accepted'[u][i] < accepted'[u][k]
        <5>1. \A i, k \in 1..m : i < k => accepted'[u][i] < accepted'[u][k]
          BY <4>1, <4>3
        <5>2. \A i \in 1..m : accepted'[u][i] < last + 1
          <6>1. last \in Nat
            BY <2>3
          <6>2. \A n \in 2..last : n < last + 1
            BY <6>1
          <6> QED BY <4>3, <4>6, <6>2, Zenon
        <5>3. \A i, k \in 1..(m + 1) : i < k => i \in 1..m /\ (k \in 1..m \/ k = m + 1)
          OBVIOUS
        <5>4. \A i, k \in 1..(m + 1) : i < k /\ k = m + 1 => accepted'[u][i] < accepted'[u][k]
          BY <4>3, <5>2, <5>3, Zenon
        <5> QED BY <5>1, <5>3, <5>4, Zenon
      <4>8. {accepted[u][i] : i \in 1..m} = FirstValidRows(u)
        BY <4>1, <4>3
      <4>9. {accepted'[u][i] : i \in DOMAIN accepted'[u]} = FirstValidRows(u)'
        BY <2>4, <3>2, <4>3, <4>5, <4>8
      <4>10. FirstValidRows(u) \subseteq FirstValidRows(u)'
        BY <2>4
      <4>11. Len(accepted[u]) <= Len(accepted'[u])
        BY <4>2, <4>3
      <4> QED BY <4>1, <4>3, <4>7, <4>9, <4>10, <4>11, Zenon
    <3> QED BY <3>1, <3>2
  <2>9. rejected'[u] = 2..Len(file'[u]) \ FirstValidRows(u)'
    <3>1. rejected[u] = 2..last \ FirstValidRows(u)
      BY <1>1, <2>2 DEF UploadSound
    <3>2. 2..Len(file'[u]) = (2..last) \cup {last + 1} /\ last + 1 \notin 2..last
      BY <2>3
    <3> QED BY <2>4, <2>5, <2>7, <3>1, <3>2
  <2>10. SeenIds(u)' = SeenIds(u) \cup
           IF Accepts(u, record) THEN {StoreOf(file[u][1], record)[IdColumn]} ELSE {}
    <3>1. SeenIds(u) = {Store(u, k)[IdColumn] : k \in FirstValidRows(u)}
      <4>1. {accepted[u][i] : i \in DOMAIN accepted[u]} = FirstValidRows(u)
        BY <1>1 DEF UploadSound
      <4> QED BY <4>1 DEF SeenIds
    <3>2. SeenIds(u)' = {Store(u, k)'[IdColumn] : k \in FirstValidRows(u)'}
      BY <2>8 DEF SeenIds
    <3>3. \A k \in FirstValidRows(u) : Store(u, k)' = Store(u, k)
      <4>1. 2..last \subseteq 1..last
        BY <2>3
      <4> QED BY <2>3, <2>7, <4>1
    <3> QED BY <2>3, <2>4, <3>1, <3>2, <3>3
  <2>11. ASSUME NEW k \in 2..Len(file'[u]), Valid(u, k)'
         PROVE  Store(u, k)'[IdColumn] \in SeenIds(u)'
    <3>1. CASE k = last + 1
      <4>1. Store(u, k)' = StoreOf(file[u][1], record) /\ ValidRow(file[u][1], record)
        BY <2>3, <2>11, <3>1, Zenon
      <4> QED BY <2>10, <4>1 DEF Accepts
    <3>2. CASE k # last + 1
      <4>1. k \in 2..last /\ k \in 1..last
        BY <2>3, <3>2
      <4>2. Valid(u, k) /\ Store(u, k)' = Store(u, k)
        BY <2>3, <2>11, <4>1, Zenon
      <4>3. Store(u, k)[IdColumn] \in SeenIds(u)
        BY <1>1, <2>2, <4>1, <4>2 DEF UploadSound
      <4> QED BY <2>10, <4>2, <4>3
    <3> QED BY <3>1, <3>2
  <2>12. UploadSound(u)'
    <3>1. file'[u] # <<>> /\ file'[u][1] = file[u][1] /\ phase'[u] = "reading"
          /\ inserted'[u] = inserted[u] /\ uploads'[u] = uploads[u]
      BY <1>1, <2>1, <2>3
    <3>2. \A k \in 2..Len(file'[u]) : file'[u][k] \in Records
      BY <1>1, <2>2, <2>3 DEF UploadSound
    <3>3. inserted'[u] \in Nat /\ inserted'[u] <= Len(accepted'[u])
      BY <1>1, <2>5, <2>6, <2>8, <3>1 DEF UploadSound, Shapes
    <3> QED BY <1>1, <2>6, <2>8, <2>9, <2>11, <3>1, <3>2, <3>3 DEF UploadSound, Shapes
  <2>13. \A v \in Uploads \ {u} : Still(v)
    BY <1>1, <2>1 DEF AcceptRow, RejectRow, Shapes, Still
  <2> QED BY <2>6, <2>12, <2>13, StepOfOneRequest
<1> QED BY <1>2, <1>3

-----------------------------------------------------------------------------
(* The transaction.                                                         *)

(* No two rows accepted have the same id: the unique constraint holds.      *)
LEMMA AcceptedDiffer ==
  ASSUME NEW u \in Uploads, UploadSound(u)
  PROVE  /\ \A m, n \in FirstValidRows(u) :
              Store(u, m)[IdColumn] = Store(u, n)[IdColumn] => m = n
         /\ ~Conflicts(u)
<1>1. ASSUME NEW m \in FirstValidRows(u), NEW n \in FirstValidRows(u), m < n
      PROVE  Store(u, m)[IdColumn] # Store(u, n)[IdColumn]
  <2>1. Len(file[u]) \in Nat
    BY DEF UploadSound
  <2>2. m \in 2..(n - 1) /\ Valid(u, m)
    BY <1>1, <2>1 DEF FirstValidRows
  <2> QED BY <2>2 DEF FirstValidRows
<1>2. FirstValidRows(u) \subseteq Int
  BY DEF FirstValidRows, UploadSound
<1>3. \A i, k \in DOMAIN accepted[u] : k < i =>
        Store(u, accepted[u][k])[IdColumn] # Store(u, accepted[u][i])[IdColumn]
  <2>1. /\ {accepted[u][i] : i \in DOMAIN accepted[u]} = FirstValidRows(u)
        /\ \A i, k \in DOMAIN accepted[u] : i < k => accepted[u][i] < accepted[u][k]
    BY DEF UploadSound
  <2> QED BY <1>1, <2>1
<1>4. ASSUME NEW i \in Chunk(u), NEW k \in 1..(i - 1)
      PROVE  i \in DOMAIN accepted[u] /\ k \in DOMAIN accepted[u] /\ k < i
  BY <1>4 DEF Chunk, UploadSound
<1>5. ~Conflicts(u)
  BY <1>3, <1>4 DEF Conflicts
<1> QED BY <1>1, <1>2, <1>5

LEMMA EndOfFileKeepsInv ==
  ASSUME UploadInv, NEW u \in Uploads, EndOfFile(u)
  PROVE  UploadInv'
<1>1. Shapes /\ UploadSound(u) /\ phase[u] = "reading"
  BY UploadByUpload DEF EndOfFile
<1>2. CASE accepted[u] = <<>>
  BY <1>1, <1>2, FinishKeepsInv DEF EndOfFile
<1>3. CASE accepted[u] # <<>>
  <2>1. /\ phase' = [phase EXCEPT ![u] = "inserting"]
        /\ UNCHANGED <<file, accepted, rejected, inserted, uploads>>
    BY <1>3 DEF EndOfFile
  <2>2. Shapes' /\ phase'[u] = "inserting" /\ \A v \in Uploads \ {u} : Still(v)
    BY <1>1, <2>1 DEF Shapes, Still, Phases
  <2>3. /\ FirstValidRows(u)' = FirstValidRows(u) /\ SeenIds(u)' = SeenIds(u)
        /\ \A n : Store(u, n)' = Store(u, n)
    BY <2>1 DEF FirstValidRows, Valid, Store, SeenIds
  <2>4. /\ \A n : Valid(u, n)' <=> Valid(u, n)
        /\ Conflicts(u)' <=> Conflicts(u)
    <3>1. Chunk(u)' = Chunk(u)
      BY <2>1 DEF Chunk
    <3> QED BY <2>1, <2>3, <3>1, Zenon DEF Valid, Conflicts
  <2>5. UploadSound(u)'
    <3>1. ~Conflicts(u)'
      BY <1>1, <2>4, AcceptedDiffer
    <3>2. /\ file'[u] = file[u] /\ accepted'[u] = accepted[u] /\ rejected'[u] = rejected[u]
          /\ inserted'[u] = inserted[u] /\ uploads'[u] = uploads[u]
      BY <2>1
    <3> QED BY <1>1, <1>3, <2>1, <2>2, <2>3, <2>4, <3>1, <3>2 DEF UploadSound, Phases
  <2> QED BY <2>2, <2>5, StepOfOneRequest
<1> QED BY <1>2, <1>3

LEMMA InsertChunkKeepsInv ==
  ASSUME UploadInv, NEW u \in Uploads, InsertChunk(u)
  PROVE  UploadInv'
<1>1. Shapes /\ UploadSound(u) /\ phase[u] = "inserting" /\ inserted[u] < Len(accepted[u])
  BY UploadByUpload DEF InsertChunk
<1>2. /\ inserted' = [inserted EXCEPT ![u] = @ + Cardinality(Chunk(u))]
      /\ UNCHANGED <<phase, file, accepted, rejected, uploads>>
  BY DEF InsertChunk
<1>3. /\ inserted[u] \in Nat /\ Len(accepted[u]) \in Nat
      /\ DOMAIN accepted[u] = 1..Len(accepted[u])
  BY <1>1 DEF UploadSound
<1>4. PICK top \in Nat : /\ top <= Len(accepted[u]) /\ inserted[u] < top
                         /\ Chunk(u) = (inserted[u] + 1)..top
  <2>1. CASE inserted[u] + ChunkSize <= Len(accepted[u])
    <3>1. Chunk(u) = (inserted[u] + 1)..(inserted[u] + ChunkSize)
      BY <1>3, <2>1, ChunkAssumption DEF Chunk
    <3> QED BY <1>3, <2>1, <3>1, ChunkAssumption
  <2>2. CASE ~(inserted[u] + ChunkSize <= Len(accepted[u]))
    <3>1. Chunk(u) = (inserted[u] + 1)..Len(accepted[u])
      BY <1>3, <2>2, ChunkAssumption DEF Chunk
    <3> QED BY <1>1, <1>3, <3>1
  <2> QED BY <2>1, <2>2
<1>5. Cardinality(Chunk(u)) = top - inserted[u]
  <2>1. Cardinality((inserted[u] + 1)..top) = top - (inserted[u] + 1) + 1
    BY <1>3, <1>4, FS_Interval
  <2> QED BY <1>3, <1>4, <2>1
<1>6. inserted'[u] = top /\ Shapes' /\ \A v \in Uploads \ {u} : Still(v)
  BY <1>1, <1>2, <1>3, <1>4, <1>5 DEF Shapes, Still
<1>7. /\ FirstValidRows(u)' = FirstValidRows(u) /\ SeenIds(u)' = SeenIds(u)
      /\ \A n : Store(u, n)' = Store(u, n)
  BY <1>2 DEF FirstValidRows, Valid, Store, SeenIds
<1>8. \A n : Valid(u, n)' <=> Valid(u, n)
  BY <1>2, Zenon DEF Valid
<1>9. ~Conflicts(u)'
  <2>1. ASSUME NEW i \in DOMAIN accepted[u], NEW k \in 1..(i - 1)
        PROVE  Store(u, accepted[u][i])[IdColumn] # Store(u, accepted[u][k])[IdColumn]
    <3>1. k \in DOMAIN accepted[u] /\ k < i
      BY <1>3, <2>1
    <3>2. /\ accepted[u][i] \in FirstValidRows(u) /\ accepted[u][k] \in FirstValidRows(u)
          /\ accepted[u][k] < accepted[u][i] /\ accepted[u][k] \in Nat /\ accepted[u][i] \in Nat
      BY <1>1, <2>1, <3>1, SMTT(30) DEF UploadSound
    <3> QED BY <1>1, <3>2, AcceptedDiffer
  <2>2. Chunk(u)' \subseteq DOMAIN accepted[u]
    BY <1>2 DEF Chunk
  <2>3. accepted' = accepted /\ Store(u, 1)' = Store(u, 1)
    BY <1>2, <1>7
  <2> QED BY <1>7, <2>1, <2>2, <2>3 DEF Conflicts
<1>10. UploadSound(u)'
  BY <1>1, <1>2, <1>4, <1>6, <1>7, <1>8, <1>9 DEF UploadSound
<1> QED BY <1>6, <1>10, StepOfOneRequest

LEMMA CommitUploadKeepsInv ==
  ASSUME UploadInv, NEW u \in Uploads, CommitUpload(u)
  PROVE  UploadInv'
<1>1. Shapes /\ UploadSound(u) /\ phase[u] = "inserting" /\ inserted[u] = Len(accepted[u])
  BY UploadByUpload DEF CommitUpload
<1>2. /\ uploads' = [uploads EXCEPT ![u] = {Store(u, accepted[u][i]) : i \in 1..inserted[u]}]
      /\ phase' = [phase EXCEPT ![u] = "created"]
      /\ UNCHANGED <<file, accepted, rejected, inserted>>
  BY DEF CommitUpload
<1>3. Shapes' /\ phase'[u] = "created" /\ \A v \in Uploads \ {u} : Still(v)
  BY <1>1, <1>2 DEF Shapes, Still, Phases
<1>4. /\ FirstValidRows(u)' = FirstValidRows(u) /\ SeenIds(u)' = SeenIds(u)
      /\ \A n : Store(u, n)' = Store(u, n)
  BY <1>2 DEF FirstValidRows, Valid, Store, SeenIds
<1>5. \A n : Valid(u, n)' <=> Valid(u, n)
  BY <1>2, Zenon DEF Valid
<1>6. uploads'[u] = {Store(u, n) : n \in FirstValidRows(u)}
  <2>1. {accepted[u][i] : i \in 1..inserted[u]} = FirstValidRows(u)
    <3>1. accepted[u] \in Seq(Nat) /\ {accepted[u][i] : i \in DOMAIN accepted[u]} = FirstValidRows(u)
      BY <1>1 DEF UploadSound
    <3>2. DOMAIN accepted[u] = 1..inserted[u]
      BY <1>1, <3>1
    <3> QED BY <3>1, <3>2
  <2> QED BY <1>1, <1>2, <2>1 DEF Shapes
<1>7. FirstValidRows(u) # {}
  <2>1. accepted[u] \in Seq(Nat) /\ accepted[u] # <<>>
    BY <1>1 DEF UploadSound
  <2>2. 1 \in DOMAIN accepted[u]
    BY <2>1
  <2>3. {accepted[u][i] : i \in DOMAIN accepted[u]} = FirstValidRows(u)
    BY <1>1 DEF UploadSound
  <2> QED BY <2>2, <2>3
<1>8. \A s1, s2 \in uploads'[u] : s1[IdColumn] = s2[IdColumn] => s1 = s2
  BY <1>1, <1>6, AcceptedDiffer
<1>9. uploads'[u] \subseteq ValidStores
  <2>1. ASSUME NEW n \in FirstValidRows(u) PROVE Store(u, n) \in ValidStores
    <3>1. file[u] # <<>>
      BY <1>1, <2>1 DEF UploadSound, FirstValidRows
    <3>2. file[u][1] \in Headers /\ ValidHeader(file[u][1])
      BY <1>1, <3>1 DEF UploadSound
    <3>3. file[u][n] \in Records /\ ValidRow(file[u][1], file[u][n])
      BY <1>1, <2>1 DEF UploadSound, FirstValidRows, Valid
    <3> DEFINE f == <<file[u][1], file[u][n]>>
    <3>4. f \in {g \in Headers \X Records : ValidHeader(g[1]) /\ ValidRow(g[1], g[2])}
      BY <3>2, <3>3
    <3>5. Store(u, n) = StoreOf(f[1], f[2])
      BY DEF Store
    <3> QED BY <3>4, <3>5 DEF ValidStores
  <2> QED BY <1>6, <2>1
<1>10. IsFiniteSet(uploads'[u])
  <2> DEFINE f == [n \in FirstValidRows(u) |-> Store(u, n)]
  <2>1. Len(file[u]) \in Int
    BY <1>1 DEF UploadSound
  <2>2. IsFiniteSet(FirstValidRows(u))
    <3>1. FirstValidRows(u) \in SUBSET (2..Len(file[u]))
      BY DEF FirstValidRows
    <3>2. IsFiniteSet(2..Len(file[u]))
      BY <2>1, FS_Interval
    <3> QED BY <3>1, <3>2, FS_Subset
  <2>3. f \in Surjection(FirstValidRows(u), uploads'[u])
    BY <1>6 DEF Surjection
  <2> QED BY <2>2, <2>3, FS_Surjection
<1>11. UploadSound(u)'
  <2>1. uploads'[u] # {}
    BY <1>6, <1>7
  <2>2. uploads'[u] = {Store(u, n)' : n \in FirstValidRows(u)'}
    BY <1>4, <1>6
  <2>3. /\ file'[u] = file[u] /\ accepted'[u] = accepted[u] /\ rejected'[u] = rejected[u]
        /\ inserted'[u] = inserted[u] /\ accepted[u] # <<>> /\ phase'[u] \in Phases
    BY <1>1, <1>2, <1>3 DEF UploadSound, Phases
  <2>4. \A n \in 2..Len(file[u]) : Valid(u, n)' => Store(u, n)'[IdColumn] \in SeenIds(u)'
    BY <1>1, <1>4, <1>5, Zenon DEF UploadSound
  <2>5. /\ file[u] \in Seq(Headers \cup Records) /\ accepted[u] \in Seq(Nat)
        /\ rejected[u] \in SUBSET Nat /\ inserted[u] \in Nat
        /\ file[u] # <<>> => file[u][1] \in Headers /\ ValidHeader(file[u][1])
        /\ \A n \in 2..Len(file[u]) : file[u][n] \in Records
        /\ inserted[u] <= Len(accepted[u])
        /\ {accepted[u][i] : i \in DOMAIN accepted[u]} = FirstValidRows(u)
        /\ rejected[u] = 2..Len(file[u]) \ FirstValidRows(u)
        /\ \A i, k \in DOMAIN accepted[u] : i < k => accepted[u][i] < accepted[u][k]
    BY <1>1, Zenon DEF UploadSound
  <2> QED BY <1>3, <1>4, <1>8, <1>9, <1>10, <2>1, <2>2, <2>3, <2>4, <2>5 DEF UploadSound
<1> QED BY <1>3, <1>11, StepOfOneRequest

-----------------------------------------------------------------------------
LEMMA UploadStepInv ==
  ASSUME UploadInv, NEW u \in Uploads, UploadStep(u)
  PROVE  UploadInv'
<1>1. CASE MalformedCsv(u)
  BY <1>1, FinishKeepsInv DEF MalformedCsv
<1>2. CASE InsertFails(u)
  BY <1>2, FinishKeepsInv DEF InsertFails
<1>3. CASE AnswerUpload(u)
  BY <1>3, FinishKeepsInv DEF AnswerUpload
<1> QED BY <1>1, <1>2, <1>3, ReadHeaderKeepsInv, ReadRowKeepsInv, EndOfFileKeepsInv,
           InsertChunkKeepsInv, CommitUploadKeepsInv DEF UploadStep

LEMMA UploadInitInv == UploadInit => UploadInv
<1> SUFFICES ASSUME UploadInit PROVE UploadInv
  OBVIOUS
<1>1. Shapes
  BY DEF UploadInit, Shapes, Phases
<1>2. ASSUME NEW u \in Uploads PROVE UploadSound(u)
  <2>1. FirstValidRows(u) = {} /\ 2..Len(file[u]) = {}
    BY DEF UploadInit, FirstValidRows
  <2> QED BY <2>1, FS_EmptySet DEF UploadInit, UploadSound, Phases
<1> QED BY <1>1, <1>2, UploadByUpload

(* An upload that was created keeps its stores, whatever else happens.      *)
LEMMA UploadsStay ==
  ASSUME UploadInv, NEW u \in Uploads, UploadStep(u), NEW v \in Uploads, phase[v] = "answered"
  PROVE  phase'[v] = "answered" /\ uploads'[v] = uploads[v]
BY DEF UploadInv, UploadTypeOK, UploadStep, ReadHeader, ReadRow, AcceptRow, RejectRow, MalformedCsv,
       EndOfFile, InsertChunk, CommitUpload, InsertFails, AnswerUpload, Finish

-----------------------------------------------------------------------------
(* The scoring rule.                                                        *)

LEMMA TotalsGrow ==
  ASSUME NEW config, ValidConfig(config), NEW few, NEW many, few \subseteq many
  PROVE  /\ Total(few, config) \in 0..100
         /\ Total(few, config) <= Total(many, config)
         /\ Metrics \subseteq few => Total(few, config) = 100
<1> DEFINE w == config.weights
<1>1. /\ w["footfall"] \in Nat /\ w["revenue"] \in Nat /\ w["sizeSqft"] \in Nat
      /\ w["footfall"] + w["revenue"] + w["sizeSqft"] = 100
  BY DEF ValidConfig, Metrics
<1>2. \A k \in Metrics :
        /\ Earned(k, few, config) \in {0, w[k]} /\ Earned(k, many, config) \in {0, w[k]}
        /\ k \in few => Earned(k, few, config) = w[k] /\ Earned(k, many, config) = w[k]
        /\ k \notin few => Earned(k, few, config) = 0
  BY DEF Earned
<1> HIDE DEF w
<1> QED BY <1>1, <1>2 DEF Total, Metrics

LEMMA TiersGrow ==
  ASSUME NEW config, ValidConfig(config), NEW a \in 0..100, NEW b \in 0..100, a <= b
  PROVE  TierFor(a, config) \in Tiers /\ TierRank(TierFor(a, config)) <= TierRank(TierFor(b, config))
<1>1. config.large \in Nat /\ config.medium \in Nat /\ config.medium < config.large
  BY DEF ValidConfig
<1>2. TierFor(a, config) = "LARGE" => TierFor(b, config) = "LARGE"
  BY <1>1 DEF TierFor
<1>3. TierFor(a, config) = "MEDIUM" => TierFor(b, config) \in {"MEDIUM", "LARGE"}
  BY <1>1 DEF TierFor
<1>4. TierFor(a, config) \in Tiers /\ TierFor(b, config) \in Tiers
  BY DEF TierFor, Tiers
<1> QED BY <1>2, <1>3, <1>4 DEF TierRank, Tiers

LEMMA BetterClearsMore ==
  ASSUME NEW config, ValidConfig(config),
         NEW m \in [Metrics -> Nat], NEW n \in [Metrics -> Nat], AtLeastAsGood(m, n)
  PROVE  ClearedBars(n, config) \subseteq ClearedBars(m, config)
BY DEF ValidConfig, AtLeastAsGood, ClearedBars

LEMMA RowsAreRanked ==
  ASSUME NEW config \in Configs, NEW t \in Tasks
  PROVE  /\ ScoreRow(t, config).task = t
         /\ ScoreRow(t, config) \in [task : Tasks, score : 0..100, tier : Tiers]
         /\ ScoreRow(t, config).score = Total(ClearedBars(MetricsOf[t], config), config)
         /\ ScoreRow(t, config).tier =
              TierFor(Total(ClearedBars(MetricsOf[t], config), config), config)
<1>1. ValidConfig(config)
  BY ScoringAssumption
<1>2. Total(ClearedBars(MetricsOf[t], config), config) \in 0..100
  BY <1>1, TotalsGrow
<1> QED BY <1>1, <1>2, TiersGrow DEF ScoreRow, ScoreStore

(* The runs there are. *)
Run == [job : Jobs, config : Configs, saved : BOOLEAN, claim : Claims,
        scores : SUBSET [task : Tasks, score : 0..100, tier : Tiers]]

LEMMA RunsAreRuns ==
  ASSUME ScoringTypeOK
  PROVE  /\ runs \in Seq(Run) /\ Len(runs) \in 0..MaxRuns /\ DOMAIN runs = 1..Len(runs)
         /\ \A n \in DOMAIN runs :
              /\ runs[n] \in Run /\ n \in 1..MaxRuns
              /\ runs[n].job \in Jobs /\ runs[n].config \in Configs
<1>1. runs \in Seq(Run) /\ Len(runs) <= MaxRuns
  BY DEF ScoringTypeOK, Run
<1> HIDE DEF Run
<1>2. Len(runs) \in 0..MaxRuns /\ DOMAIN runs = 1..Len(runs) /\ \A n \in DOMAIN runs : runs[n] \in Run
  BY <1>1, ScoringAssumption
<1> QED BY <1>1, <1>2, ScoringAssumption DEF Run

LEMMA RuleRanksByMerit == ScoringInv => RankedByMerit
<1> SUFFICES ASSUME ScoringInv, NEW n \in Saved, NEW r \in runs[n].scores, NEW s \in runs[n].scores
             PROVE  /\ AtLeastAsGood(MetricsOf[r.task], MetricsOf[s.task]) =>
                         TierRank(r.tier) >= TierRank(s.tier)
                    /\ ClearedBars(MetricsOf[r.task], runs[n].config) = Metrics => r.tier = "LARGE"
                    /\ r.score = runs[n].config.large => r.tier = "LARGE"
                    /\ r.score = runs[n].config.medium => r.tier = "MEDIUM"
  BY DEF RankedByMerit
<1> DEFINE config == runs[n].config
<1>1. config \in Configs /\ ValidConfig(config)
  BY ScoringAssumption, RunsAreRuns DEF ScoringInv, Saved
<1>2. /\ r.task \in Tasks /\ r = ScoreRow(r.task, config)
      /\ s.task \in Tasks /\ s = ScoreRow(s.task, config)
  BY DEF ScoringInv, RunsFollowTheRule, Saved, TasksOf
<1> HIDE DEF config
<1>3. /\ r.score = Total(ClearedBars(MetricsOf[r.task], config), config)
      /\ r.tier = TierFor(r.score, config)
      /\ s.tier = TierFor(Total(ClearedBars(MetricsOf[s.task], config), config), config)
  BY <1>1, <1>2, RowsAreRanked
<1>4. /\ MetricsOf[r.task] \in [Metrics -> Nat] /\ MetricsOf[s.task] \in [Metrics -> Nat]
  BY <1>2, ScoringAssumption
<1>5. ASSUME AtLeastAsGood(MetricsOf[r.task], MetricsOf[s.task])
      PROVE  TierRank(r.tier) >= TierRank(s.tier)
  <2>1. /\ Total(ClearedBars(MetricsOf[s.task], config), config) \in 0..100
        /\ Total(ClearedBars(MetricsOf[s.task], config), config) <= r.score
        /\ r.score \in 0..100
    BY <1>1, <1>3, <1>4, <1>5, BetterClearsMore, TotalsGrow
  <2>2. TierRank(TierFor(Total(ClearedBars(MetricsOf[s.task], config), config), config))
          <= TierRank(TierFor(r.score, config))
    BY <1>1, <2>1, TiersGrow
  <2>3. \A tier : TierRank(tier) \in {0, 1, 2} \/ tier \notin Tiers
    BY DEF TierRank, Tiers
  <2> QED BY <1>1, <1>3, <2>1, <2>2, <2>3, TiersGrow
<1>6. ClearedBars(MetricsOf[r.task], config) = Metrics => r.tier = "LARGE"
  <2>1. ClearedBars(MetricsOf[r.task], config) = Metrics => r.score = 100
    BY <1>1, <1>3, TotalsGrow
  <2> QED BY <1>1, <1>3, <2>1 DEF ValidConfig, TierFor
<1>7. /\ r.score = config.large => r.tier = "LARGE"
      /\ r.score = config.medium => r.tier = "MEDIUM"
  BY <1>1, <1>3 DEF ValidConfig, TierFor
<1> QED BY <1>5, <1>6, <1>7 DEF config

-----------------------------------------------------------------------------
(* Jobs: every step of theirs is one of the contract.                       *)

LEMMA JobOfTasks ==
  /\ ContractConstants
  /\ \A j \in Jobs, s \in ValidStores : <<j, s>> \in Tasks /\ JobOf[<<j, s>>] = j
  /\ \A t \in Tasks : t = <<JobOf[t], t[2]>> /\ JobOf[t] \in Jobs /\ t[2] \in ValidStores
BY TasksAssumption DEF ContractConstants

LEMMA StartingStarts ==
  ASSUME UploadInv, NEW j \in Jobs, NEW u \in Uploads, StartFromUpload(j, u)
  PROVE  Start(j)
<1>1. uploads[u] # {} /\ uploads[u] \subseteq ValidStores
  BY DEF UploadInv, UploadsAreWhole, StartFromUpload, Offered
<1>2. \A s \in uploads[u] : <<j, s>> \in TasksOf(j)
  BY <1>1, JobOfTasks DEF TasksOf
<1>3. {<<j, s>> : s \in uploads[u]} \in SUBSET TasksOf(j) /\ {<<j, s>> : s \in uploads[u]} # {}
  BY <1>1, <1>2
<1> QED BY <1>3 DEF Start, StartFromUpload

LEMMA JobStepsAreContractSteps ==
  ASSUME UploadInv, Starting \/ Enriching
  PROVE  ContractNext
BY StartingStarts DEF Starting, Enriching, ContractNext

(* What a job that is over has to show does not change any more.            *)
LEMMA JobsOverStay ==
  ASSUME ContractInv, ContractNext, NEW j \in Jobs, jobs[j] # "ABSENT"
  PROVE  /\ jobs'[j] # "ABSENT"
         /\ jobs[j] # "RUNNING" =>
              jobs'[j] = jobs[j] /\ \A t \in TasksOf(j) : results'[t] = results[t]
<1> USE JobOfTasks DEF ContractInv, ContractTypeOK, TasksOf
<1>1. ASSUME NEW k \in Jobs, Start(k) PROVE j # k /\ jobs'[j] = jobs[j]
  BY <1>1 DEF Start, StartWith
<1>2. ASSUME NEW k \in Jobs, Start(k), NEW t \in TasksOf(j) PROVE results'[t] = results[t]
  BY <1>1, <1>2 DEF Start, StartWith
<1>3. ASSUME NEW k \in Jobs, Close(k)
      PROVE  jobs'[j] # "ABSENT" /\ (jobs[j] # "RUNNING" => jobs'[j] = jobs[j]) /\ results' = results
  BY <1>3 DEF Close
<1>4. ASSUME NEW k \in Jobs, Stop(k)
      PROVE  jobs'[j] # "ABSENT" /\ (jobs[j] # "RUNNING" => j # k /\ jobs'[j] = jobs[j])
  BY <1>4 DEF Stop
<1>5. ASSUME NEW k \in Jobs, Stop(k), jobs[j] # "RUNNING", NEW t \in TasksOf(j)
      PROVE  results'[t] = results[t]
  BY <1>4, <1>5 DEF Stop
<1>6. CASE Settle
  BY <1>6 DEF Settle
<1> QED BY <1>1, <1>2, <1>3, <1>4, <1>5, <1>6 DEF ContractNext

(* The jobs move on and the uploads and runs stand still.                   *)
LEMMA JobsKeepScoring ==
  ASSUME ContractInv, ScoringInv, ContractNext, UNCHANGED scoringVars
  PROVE  ScoringInv'
<1>1. UNCHANGED <<runs, post, shown, lookup, lists>>
  BY DEF scoringVars
<1>2. ScoringTypeOK
  BY DEF ScoringInv
<1>3. \A c \in Clients : JobOpen[c] \in Jobs
  BY ScoringAssumption
<1>4. ASSUME NEW j \in Jobs, jobs[j] \notin {"ABSENT", "RUNNING"}
      PROVE  jobs'[j] = jobs[j] /\ Enriched(j)' = Enriched(j)
  BY <1>4, JobsOverStay DEF Enriched
<1>5. ScoringTypeOK'
  BY <1>1, <1>2 DEF ScoringTypeOK
<1>6. RunsFollowTheRule'
  BY <1>1, <1>2, RunsAreRuns, JobsOverStay DEF ScoringInv, RunsFollowTheRule, ScoreRow
<1>7. PostsInOrder'
  <2> SUFFICES ASSUME NEW c \in Clients
               PROVE  /\ post[c].step # "idle" =>
                           /\ post[c].status # "ABSENT" /\ jobs'[JobOpen[c]] # "ABSENT"
                           /\ ~Partial(c) => jobs'[JobOpen[c]] = post[c].status
                      /\ post[c].step \in Writing =>
                           /\ post[c].run \in DOMAIN runs
                           /\ RunOfPost(c).job = JobOpen[c] /\ RunOfPost(c).claim = "none"
                           /\ RunOfPost(c).saved <=> post[c].step = "saved"
                           /\ post[c].step # "inserted" /\ ~Partial(c) =>
                                {s.task : s \in RunOfPost(c).scores} = Enriched(JobOpen[c])'
                           /\ \A d \in Clients : post[d].step \in Writing /\ post[d].run = post[c].run => d = c
    BY <1>1 DEF PostsInOrder, Partial, RunOfPost
  <2>1. post[c].step # "idle" => /\ post[c].status # "ABSENT" /\ jobs[JobOpen[c]] # "ABSENT"
                                 /\ ~Partial(c) => jobs[JobOpen[c]] = post[c].status
    BY DEF ScoringInv, PostsInOrder
  <2>2. post[c].step # "idle" /\ ~Partial(c) =>
          jobs'[JobOpen[c]] = jobs[JobOpen[c]] /\ Enriched(JobOpen[c])' = Enriched(JobOpen[c])
    BY <1>3, <1>4, <2>1 DEF Partial
  <2>3. post[c].step # "idle" => jobs'[JobOpen[c]] # "ABSENT"
    BY <1>3, <2>1, JobsOverStay
  <2>4. post[c].step \in Writing =>
          /\ post[c].run \in DOMAIN runs
          /\ RunOfPost(c).job = JobOpen[c] /\ RunOfPost(c).claim = "none"
          /\ RunOfPost(c).saved <=> post[c].step = "saved"
          /\ post[c].step # "inserted" /\ ~Partial(c) =>
               {s.task : s \in RunOfPost(c).scores} = Enriched(JobOpen[c])
          /\ \A d \in Clients : post[d].step \in Writing /\ post[d].run = post[c].run => d = c
    BY Zenon DEF ScoringInv, PostsInOrder
  <2>5. post[c].step \in Writing => post[c].step # "idle"
    BY DEF Writing
  <2>6. ASSUME post[c].step \in Writing, post[c].step # "inserted", ~Partial(c)
        PROVE  {s.task : s \in RunOfPost(c).scores} = Enriched(JobOpen[c])'
    BY <2>2, <2>4, <2>5, <2>6, Zenon
  <2>7. post[c].step # "idle" =>
          /\ post[c].status # "ABSENT" /\ jobs'[JobOpen[c]] # "ABSENT"
          /\ ~Partial(c) => jobs'[JobOpen[c]] = post[c].status
    BY <2>1, <2>2, <2>3, Zenon
  <2>8. post[c].step \in Writing =>
          /\ post[c].run \in DOMAIN runs
          /\ RunOfPost(c).job = JobOpen[c] /\ RunOfPost(c).claim = "none"
          /\ RunOfPost(c).saved <=> post[c].step = "saved"
          /\ \A d \in Clients : post[d].step \in Writing /\ post[d].run = post[c].run => d = c
    BY <2>4, Zenon
  <2> QED BY <2>6, <2>7, <2>8, Zenon
<1>8. PagesInOrder'
  BY <1>1 DEF ScoringInv, PagesInOrder, OwnTiers, Saved, ScoreRow
<1>9. PartialIsTruthful'
  <2> SUFFICES ASSUME NEW n \in DOMAIN runs, runs[n].claim = "complete"
               PROVE  /\ jobs'[runs[n].job] # "RUNNING"
                      /\ {s.task : s \in runs[n].scores} = Enriched(runs[n].job)'
    BY <1>1 DEF PartialIsTruthful
  <2>1. /\ runs[n].job \in Jobs /\ jobs[runs[n].job] \notin {"ABSENT", "RUNNING"}
        /\ {s.task : s \in runs[n].scores} = Enriched(runs[n].job)
    BY <1>2, RunsAreRuns DEF ScoringInv, RunsFollowTheRule, PartialIsTruthful
  <2>2. PICK j \in Jobs : j = runs[n].job
    BY <2>1
  <2>3. jobs'[j] = jobs[j] /\ Enriched(j)' = Enriched(j)
    BY <1>4, <2>1, <2>2
  <2>4. Enriched(runs[n].job)' = Enriched(j)'
    BY <1>1, <2>2
  <2> QED BY <2>1, <2>2, <2>3, <2>4
<1> QED BY <1>1, <1>5, <1>6, <1>7, <1>8, <1>9 DEF ScoringInv

-----------------------------------------------------------------------------
(* The scoring requests.                                                    *)

Request == [step : {"idle", "checked", "inserted", "scored", "saved"},
            status : JobStatuses, run : 0..MaxRuns]

(* What the invariant says of a request r of client c.                      *)
RequestSound(c, r) ==
  /\ r.step # "idle" => /\ r.status # "ABSENT" /\ jobs[JobOpen[c]] # "ABSENT"
                        /\ r.status # "RUNNING" => jobs[JobOpen[c]] = r.status
  /\ r.step \in Writing =>
       /\ r.run \in DOMAIN runs
       /\ runs[r.run].job = JobOpen[c] /\ runs[r.run].claim = "none"
       /\ runs[r.run].saved <=> r.step = "saved"
       /\ r.step # "inserted" /\ r.status # "RUNNING" =>
            {s.task : s \in runs[r.run].scores} = Enriched(JobOpen[c])

(* And of the run of a job j.                                               *)
RunSound(r) ==
  /\ jobs[r.job] # "ABSENT"
  /\ \A s \in r.scores : s.task \in TasksOf(r.job) /\ s = ScoreRow(s.task, r.config)
  /\ r.claim # "none" => r.saved
  /\ r.claim = "complete" => jobs[r.job] # "RUNNING" /\ {s.task : s \in r.scores} = Enriched(r.job)

OwnRuns ==
  \A c, d \in Clients :
    post[c].step \in Writing /\ post[d].step \in Writing /\ post[d].run = post[c].run => d = c

LEMMA ScoringByParts ==
  ScoringInv <=> /\ ScoringTypeOK /\ PagesInOrder /\ OwnRuns
                 /\ \A c \in Clients : RequestSound(c, post[c])
                 /\ \A n \in DOMAIN runs : RunSound(runs[n])
<1>1. ASSUME NEW c \in Clients, PostsInOrder PROVE RequestSound(c, post[c])
  BY <1>1, Zenon DEF PostsInOrder, RequestSound, Partial, RunOfPost
<1>2. PostsInOrder => OwnRuns
  BY Zenon DEF PostsInOrder, OwnRuns
<1>3. OwnRuns /\ (\A c \in Clients : RequestSound(c, post[c])) => PostsInOrder
  BY Zenon DEF PostsInOrder, OwnRuns, RequestSound, Partial, RunOfPost
<1>4. RunsFollowTheRule /\ PartialIsTruthful
        /\ (\A n \in DOMAIN runs : runs[n].claim # "none" => runs[n].saved)
      <=> \A n \in DOMAIN runs : RunSound(runs[n])
  BY Zenon DEF RunsFollowTheRule, PartialIsTruthful, RunSound
<1> QED BY <1>1, <1>2, <1>3, <1>4, Zenon DEF ScoringInv

LEMMA NextScoringByParts ==
  (/\ ScoringTypeOK /\ PagesInOrder /\ OwnRuns
   /\ \A c \in Clients : RequestSound(c, post[c])
   /\ \A n \in DOMAIN runs : RunSound(runs[n]))' => ScoringInv'
BY ScoringByParts, PTL

LEMMA PostsArePosts ==
  ASSUME ScoringTypeOK
  PROVE  post \in [Clients -> Request]
BY DEF ScoringTypeOK, Request

(* A request works on its own run: the other requests and runs, and what    *)
(* pages know, stay sound if the two of them do.                            *)
LEMMA OwnRunStep ==
  ASSUME ScoringInv, UNCHANGED <<jobs, results, lookup, lists>>,
         NEW c \in Clients, post[c].step \in Writing,
         NEW k, k = post[c].run,
         NEW r \in Run, runs' = [runs EXCEPT ![k] = r], RunSound(r),
         r.job = runs[k].job, r.config = runs[k].config, runs[k].saved => r.saved,
         NEW q \in Request, post' = [post EXCEPT ![c] = q], RequestSound(c, q)',
         q.step \in Writing => q.run = k,
         shown' \in [Pages -> 0..MaxRuns],
         \A p \in Pages : shown'[p] = shown[p] \/ (r.saved /\ shown'[p] = k)
  PROVE  ScoringInv'
<1>1. /\ ScoringTypeOK /\ PagesInOrder /\ OwnRuns
      /\ \A d \in Clients : RequestSound(d, post[d])
      /\ \A n \in DOMAIN runs : RunSound(runs[n])
  BY ScoringByParts
<1>2. k \in DOMAIN runs /\ runs \in Seq(Run)
  BY <1>1, RunsAreRuns DEF RequestSound
<1>3. /\ runs' \in Seq(Run) /\ Len(runs') = Len(runs) /\ DOMAIN runs' = DOMAIN runs
      /\ \A n \in DOMAIN runs : runs'[n] = IF n = k THEN r ELSE runs[n]
  <2>1. k \in 1..Len(runs) /\ DOMAIN runs = 1..Len(runs)
    BY <1>1, <1>2, RunsAreRuns
  <2> HIDE DEF Run
  <2> QED BY <1>2, <2>1, ExceptSeq
<1>4. /\ post' \in [Clients -> Request]
      /\ \A d \in Clients : post'[d] = IF d = c THEN q ELSE post[d]
  BY <1>1, PostsArePosts
<1>5. ScoringTypeOK'
  BY <1>1, <1>3, <1>4 DEF ScoringTypeOK, Run, Request
<1>6. Saved \subseteq Saved' /\ (r.saved => k \in Saved')
  BY <1>2, <1>3 DEF Saved
<1>7. PagesInOrder'
  <2>1. \A n \in Saved : runs'[n].config = runs[n].config
    BY <1>3 DEF Saved
  <2>2. ASSUME NEW p \in Pages PROVE (lookup[p] \cup {shown[p]} \subseteq Saved \cup {0})'
    BY <1>1, <1>6 DEF PagesInOrder
  <2>3. ASSUME NEW p \in Pages, NEW n \in 1..MaxRuns, lists[p][n] # {}
        PROVE  n \in Saved' /\ OwnTiers(n, lists[p][n])'
    BY <1>1, <1>6, <2>1, <2>3 DEF PagesInOrder, OwnTiers, ScoreRow
  <2> QED BY <2>2, <2>3 DEF PagesInOrder
<1>8. OwnRuns'
  BY <1>1, <1>4 DEF OwnRuns
<1>9. ASSUME NEW d \in Clients PROVE RequestSound(d, post[d])'
  <2>1. CASE d = c
    <3>1. post'[d] = q
      BY <1>4, <2>1
    <3> QED BY <2>1, <3>1 DEF RequestSound, Enriched
  <2>2. CASE d # c
    <3>1. post'[d] = post[d] /\ RequestSound(d, post[d])
      BY <1>1, <1>4, <2>2
    <3>2. post[d].step \in Writing => post[d].run \in DOMAIN runs /\ runs'[post[d].run] = runs[post[d].run]
      BY <1>1, <1>3, <2>2, <3>1 DEF OwnRuns, RequestSound
    <3> QED BY <1>3, <3>1, <3>2 DEF RequestSound, Enriched
  <2> QED BY <2>1, <2>2
<1>10. ASSUME NEW n \in DOMAIN runs' PROVE RunSound(runs[n])'
  <2>1. RunSound(runs'[n])
    BY <1>1, <1>3
  <2> QED BY <2>1 DEF RunSound, Enriched, ScoreRow
<1> QED BY <1>5, <1>7, <1>8, <1>9, <1>10, NextScoringByParts

(* A request that has no run, or no longer one.                             *)
LEMMA RequestStep ==
  ASSUME ScoringInv, UNCHANGED <<jobs, results, runs, page>>,
         NEW c \in Clients, NEW q \in Request, q.step \notin Writing,
         post' = [post EXCEPT ![c] = q], RequestSound(c, q)
  PROVE  ScoringInv'
<1>1. /\ ScoringTypeOK /\ PagesInOrder /\ OwnRuns
      /\ \A d \in Clients : RequestSound(d, post[d])
      /\ \A n \in DOMAIN runs : RunSound(runs[n])
  BY ScoringByParts
<1>2. /\ post' \in [Clients -> Request]
      /\ \A d \in Clients : post'[d] = IF d = c THEN q ELSE post[d]
  BY <1>1, PostsArePosts
<1>3. ScoringTypeOK'
  BY <1>1, <1>2 DEF ScoringTypeOK, Request, page
<1>4. PagesInOrder'
  BY <1>1 DEF PagesInOrder, OwnTiers, Saved, ScoreRow, page
<1>5. OwnRuns'
  BY <1>1, <1>2 DEF OwnRuns
<1>6. ASSUME NEW d \in Clients PROVE RequestSound(d, post[d])'
  <2>1. RequestSound(d, post'[d])
    BY <1>1, <1>2
  <2> QED BY <2>1 DEF RequestSound, Enriched
<1>7. ASSUME NEW n \in DOMAIN runs' PROVE RunSound(runs[n])'
  BY <1>1 DEF RunSound, Enriched, ScoreRow
<1> QED BY <1>3, <1>4, <1>5, <1>6, <1>7, NextScoringByParts

LEMMA IdleIsSound == Idle \in Request /\ Idle.step = "idle" /\ \A c : RequestSound(c, Idle)
BY ScoringAssumption DEF Idle, Request, RequestSound, JobStatuses, Writing

LEMMA InsertConfigKeepsInv ==
  ASSUME ScoringInv, UNCHANGED <<jobs, results>>,
         NEW c \in Clients, NEW config \in Configs, InsertConfig(c, config)
  PROVE  ScoringInv'
<1>1. /\ ScoringTypeOK /\ PagesInOrder /\ OwnRuns
      /\ \A d \in Clients : RequestSound(d, post[d])
      /\ \A n \in DOMAIN runs : RunSound(runs[n])
  BY ScoringByParts
<1> DEFINE r == [job |-> JobOpen[c], config |-> config, scores |-> {}, saved |-> FALSE, claim |-> "none"]
<1>2. /\ post[c].step = "checked" /\ Len(runs) < MaxRuns
      /\ runs' = Append(runs, r)
      /\ post' = [post EXCEPT ![c].step = "inserted", ![c].run = Len(runs) + 1]
      /\ UNCHANGED <<shown, lookup, lists>>
  BY DEF InsertConfig, page
<1>3. r \in Run
  BY ScoringAssumption DEF Run, Claims
<1>4. PICK top \in Nat : /\ top = Len(runs) + 1 /\ top \in 1..MaxRuns
                         /\ DOMAIN runs = 1..(top - 1)
  BY <1>1, <1>2, RunsAreRuns, ScoringAssumption
<1>5. /\ runs' \in Seq(Run) /\ Len(runs') = top /\ DOMAIN runs' = 1..top
      /\ runs'[top] = r /\ \A n \in DOMAIN runs : runs'[n] = runs[n]
  <2> HIDE DEF Run, r
  <2> QED BY <1>1, <1>2, <1>3, <1>4, RunsAreRuns
<1>6. /\ \A d \in Clients \ {c} : post'[d] = post[d]
      /\ post'[c].step = "inserted" /\ post'[c].run = top /\ post'[c].status = post[c].status
      /\ post' \in [Clients -> Request]
  <2>1. post \in [Clients -> Request]
    BY <1>1, PostsArePosts
  <2>2. post' = [post EXCEPT ![c] = [post[c] EXCEPT !.step = "inserted", !.run = top]]
    BY <1>2, <1>4, <2>1
  <2>3. [post[c] EXCEPT !.step = "inserted", !.run = top] \in Request
    <3>1. post[c] \in Request /\ top \in 0..MaxRuns
      BY <1>4, <2>1, ScoringAssumption
    <3> QED BY <3>1 DEF Request
  <2> QED BY <2>1, <2>2, <2>3 DEF Request
<1>7. ScoringTypeOK'
  BY <1>1, <1>2, <1>4, <1>5, <1>6 DEF ScoringTypeOK, Run, Request
<1>8. Saved' = Saved
  BY <1>4, <1>5 DEF Saved
<1>9. PagesInOrder'
  BY <1>1, <1>2, <1>5, <1>8 DEF PagesInOrder, OwnTiers, ScoreRow, Saved
<1>10. OwnRuns'
  <2>1. \A d \in Clients \ {c} : post[d].step \in Writing => post[d].run \in 1..(top - 1)
    BY <1>1, <1>4 DEF RequestSound
  <2>2. top \notin 1..(top - 1)
    BY <1>4
  <2> QED BY <1>1, <1>6, <2>1, <2>2 DEF OwnRuns
<1>11. ASSUME NEW d \in Clients PROVE RequestSound(d, post[d])'
  <2>1. CASE d = c
    <3>1. /\ post[c].status # "ABSENT" /\ jobs[JobOpen[c]] # "ABSENT"
          /\ post[c].status # "RUNNING" => jobs[JobOpen[c]] = post[c].status
      BY <1>1, <1>2 DEF RequestSound
    <3> QED BY <1>4, <1>5, <1>6, <2>1, <3>1 DEF RequestSound
  <2>2. CASE d # c
    <3>1. post'[d] = post[d] /\ RequestSound(d, post[d])
      BY <1>1, <1>6, <2>2
    <3>2. post[d].step \in Writing => runs'[post[d].run] = runs[post[d].run] /\ post[d].run \in DOMAIN runs'
      BY <1>4, <1>5, <3>1 DEF RequestSound
    <3> QED BY <3>1, <3>2 DEF RequestSound, Enriched
  <2> QED BY <2>1, <2>2
<1>12. ASSUME NEW n \in DOMAIN runs' PROVE RunSound(runs[n])'
  <2>1. RunSound(r)
    <3>1. jobs[JobOpen[c]] # "ABSENT"
      BY <1>1, <1>2 DEF RequestSound
    <3> QED BY <3>1 DEF RunSound
  <2>2. n = top \/ n \in DOMAIN runs
    BY <1>4, <1>5
  <2> HIDE DEF r
  <2>3. RunSound(runs'[n])
    BY <1>1, <1>5, <2>1, <2>2
  <2> QED BY <2>3 DEF RunSound, Enriched, ScoreRow
<1> QED BY <1>7, <1>9, <1>10, <1>11, <1>12, NextScoringByParts

LEMMA PostStepKeepsInv ==
  ASSUME ContractInv, ScoringInv, UNCHANGED <<jobs, results>>, NEW c \in Clients, PostStep(c)
  PROVE  ScoringInv'
<1>1. /\ ScoringTypeOK /\ OwnRuns /\ RequestSound(c, post[c]) /\ post \in [Clients -> Request]
      /\ \A n \in DOMAIN runs : RunSound(runs[n])
      /\ JobOpen[c] \in Jobs /\ shown \in [Pages -> 0..MaxRuns]
  BY ScoringByParts, PostsArePosts, ScoringAssumption DEF ScoringTypeOK
<1>2. PICK k : k = post[c].run
  OBVIOUS
<1>3. post[c].step \in Writing =>
        /\ k \in DOMAIN runs /\ runs[k] \in Run /\ RunSound(runs[k]) /\ k \in 1..MaxRuns
        /\ runs[k].job = JobOpen[c] /\ runs[k].claim = "none"
  BY <1>1, <1>2, RunsAreRuns DEF RequestSound
<1>4. CASE RequireJob(c)
  <2> DEFINE q == [step |-> "checked", status |-> jobs[JobOpen[c]], run |-> 0]
  <2>1. q \in Request
    BY <1>1, ScoringAssumption DEF Request, ContractInv, ContractTypeOK
  <2>2. RequestSound(c, q)
    BY <1>4 DEF RequireJob, RequestSound, Writing
  <2>3. q.step \notin Writing
    BY DEF Writing
  <2> HIDE DEF q
  <2>4. UNCHANGED <<runs, page>> /\ post' = [post EXCEPT ![c] = q]
    BY <1>4 DEF RequireJob, q
  <2> QED BY <2>1, <2>2, <2>3, <2>4, RequestStep
<1>5. CASE AnswerLost(c)
  <2>1. Idle.step \notin Writing
    BY IdleIsSound DEF Writing
  <2> QED BY <1>5, <2>1, IdleIsSound, RequestStep DEF AnswerLost
<1>6. CASE ScoreStores(c)
  <2> DEFINE scores == {ScoreRow(t, runs[k].config) : t \in Enriched(JobOpen[c])}
             r == [runs[k] EXCEPT !.scores = scores]
  <2>1. post[c].step = "inserted" /\ post[c].step \in Writing
    BY <1>6 DEF ScoreStores, Writing
  <2>2. /\ \A t \in Enriched(JobOpen[c]) :
             /\ t \in TasksOf(JobOpen[c])
             /\ ScoreRow(t, runs[k].config).task = t
             /\ ScoreRow(t, runs[k].config) \in [task : Tasks, score : 0..100, tier : Tiers]
    BY <1>3, <2>1, RowsAreRanked DEF Enriched, TasksOf, Run
  <2>3. \A s \in scores : s.task \in TasksOf(JobOpen[c]) /\ s = ScoreRow(s.task, runs[k].config)
    BY <2>2
  <2>4. {s.task : s \in scores} = Enriched(JobOpen[c])
    BY <2>2
  <2>5. r \in Run /\ r.job = runs[k].job /\ r.config = runs[k].config /\ r.scores = scores
        /\ r.claim = "none" /\ r.saved = runs[k].saved
    BY <1>3, <2>1, <2>2 DEF Run
  <2>6. RunSound(r)
    BY <1>3, <2>1, <2>3, <2>5 DEF RunSound
  <2>7. PICK q \in Request : /\ q = [post[c] EXCEPT !.step = "scored"]
                            /\ q.run = k /\ q.step = "scored" /\ q.status = post[c].status
    <3>1. [post[c] EXCEPT !.step = "scored"] \in Request
      BY <1>1 DEF Request
    <3>2. post[c] \in Request
      BY <1>1
    <3> QED BY <1>2, <3>1, <3>2 DEF Request
  <2>8. /\ runs' = [runs EXCEPT ![k] = r] /\ post' = [post EXCEPT ![c] = q]
        /\ UNCHANGED <<shown, lookup, lists>>
    BY <1>1, <1>2, <1>3, <1>6, <2>1, <2>7 DEF ScoreStores, page
  <2>9. DOMAIN runs' = DOMAIN runs /\ runs'[k] = r
    BY <1>3, <2>1, <2>8
  <2>10. RequestSound(c, q)'
    <3>1. runs[k].saved <=> FALSE
      BY <1>1, <1>2, <2>1, Zenon DEF RequestSound
    <3>2. Enriched(JobOpen[c])' = Enriched(JobOpen[c])
      BY DEF Enriched
    <3> HIDE DEF r
    <3> QED BY <1>1, <1>3, <2>1, <2>4, <2>5, <2>7, <2>9, <3>1, <3>2 DEF RequestSound
  <2> HIDE DEF r
  <2> QED BY <1>1, <1>2, <2>1, <2>5, <2>6, <2>7, <2>8, <2>10, OwnRunStep
<1>7. CASE CommitRun(c)
  <2> DEFINE r == [runs[k] EXCEPT !.saved = TRUE]
  <2>1. post[c].step = "scored" /\ post[c].step \in Writing
    BY <1>7 DEF CommitRun, Writing
  <2>2. r \in Run /\ r.job = runs[k].job /\ r.config = runs[k].config /\ r.scores = runs[k].scores
        /\ r.claim = "none" /\ r.saved
    BY <1>3, <2>1 DEF Run
  <2>3. RunSound(r)
    BY <1>3, <2>1, <2>2 DEF RunSound
  <2>4. PICK q \in Request : /\ q = [post[c] EXCEPT !.step = "saved"]
                            /\ q.run = k /\ q.step = "saved" /\ q.status = post[c].status
    <3>1. [post[c] EXCEPT !.step = "saved"] \in Request
      BY <1>1 DEF Request
    <3>2. post[c] \in Request
      BY <1>1
    <3> QED BY <1>2, <3>1, <3>2 DEF Request
  <2>5. /\ runs' = [runs EXCEPT ![k] = r] /\ post' = [post EXCEPT ![c] = q]
        /\ UNCHANGED <<shown, lookup, lists>>
    BY <1>1, <1>2, <1>3, <1>7, <2>1, <2>4 DEF CommitRun, page
  <2>6. DOMAIN runs' = DOMAIN runs /\ runs'[k] = r
    BY <1>3, <2>1, <2>5
  <2>7. RequestSound(c, q)'
    <3>1. Enriched(JobOpen[c])' = Enriched(JobOpen[c])
      BY DEF Enriched
    <3>2. post[c].status # "RUNNING" => {s.task : s \in r.scores} = Enriched(JobOpen[c])
      BY <1>1, <1>2, <2>1, <2>2 DEF RequestSound
    <3> HIDE DEF r
    <3> QED BY <1>1, <1>3, <2>1, <2>2, <2>4, <2>6, <3>1, <3>2 DEF RequestSound
  <2> HIDE DEF r
  <2> QED BY <1>1, <1>2, <2>1, <2>2, <2>3, <2>4, <2>5, <2>7, OwnRunStep
<1>8. CASE RunFails(c)
  <2> DEFINE r == [runs[k] EXCEPT !.scores = {}]
  <2>1. post[c].step \in {"inserted", "scored"} /\ post[c].step \in Writing
    BY <1>8 DEF RunFails, Writing
  <2>2. r \in Run /\ r.job = runs[k].job /\ r.config = runs[k].config /\ r.scores = {}
        /\ r.claim = "none" /\ r.saved = runs[k].saved
    BY <1>3, <2>1 DEF Run
  <2>3. RunSound(r)
    BY <1>3, <2>1, <2>2 DEF RunSound
  <2>4. /\ runs' = [runs EXCEPT ![k] = r] /\ post' = [post EXCEPT ![c] = Idle]
        /\ UNCHANGED <<shown, lookup, lists>>
    BY <1>1, <1>2, <1>3, <1>8, <2>1 DEF RunFails, page
  <2>5. RequestSound(c, Idle)' /\ Idle.step \notin Writing
    BY IdleIsSound DEF RequestSound, Writing
  <2> HIDE DEF r
  <2> QED BY <1>1, <1>2, <2>1, <2>2, <2>3, <2>4, <2>5, IdleIsSound, OwnRunStep
<1>9. CASE AnswerRun(c)
  <2> DEFINE claim == IF Partial(c) THEN "partial" ELSE "complete"
             r == [runs[k] EXCEPT !.claim = claim]
  <2>1. post[c].step = "saved" /\ post[c].step \in Writing
    BY <1>9 DEF AnswerRun, Writing
  <2>2. r \in Run /\ r.job = runs[k].job /\ r.config = runs[k].config /\ r.scores = runs[k].scores
        /\ r.claim = claim /\ r.saved = runs[k].saved
    BY <1>3, <2>1 DEF Run, Claims
  <2>3. runs[k].saved
    BY <1>1, <1>2, <2>1 DEF RequestSound
  <2>4. claim = "complete" =>
          jobs[JobOpen[c]] # "RUNNING" /\ {s.task : s \in runs[k].scores} = Enriched(JobOpen[c])
    BY <1>1, <1>2, <2>1 DEF RequestSound, Partial
  <2>5. RunSound(r)
    BY <1>3, <2>1, <2>2, <2>3, <2>4 DEF RunSound
  <2>6. /\ runs' = [runs EXCEPT ![k] = r] /\ post' = [post EXCEPT ![c] = Idle]
        /\ UNCHANGED <<lookup, lists>>
        /\ shown' = [p \in Pages |-> IF p = c THEN k ELSE shown[p]]
    BY <1>1, <1>2, <1>3, <1>9, <2>1 DEF AnswerRun, ShowRun
  <2>7. RequestSound(c, Idle)' /\ Idle.step \notin Writing
    BY IdleIsSound DEF RequestSound, Writing
  <2>8. /\ shown' \in [Pages -> 0..MaxRuns]
        /\ \A p \in Pages : shown'[p] = shown[p] \/ (r.saved /\ shown'[p] = k)
    BY <1>1, <1>3, <2>1, <2>2, <2>3, <2>6
  <2> HIDE DEF r
  <2> QED BY <1>1, <1>2, <2>1, <2>2, <2>3, <2>5, <2>6, <2>7, <2>8, IdleIsSound, OwnRunStep
<1> QED BY <1>4, <1>5, <1>6, <1>7, <1>8, <1>9, InsertConfigKeepsInv DEF PostStep

-----------------------------------------------------------------------------
(* The pages.                                                               *)

LEMMA PageStepKeepsInv ==
  ASSUME ScoringInv, UNCHANGED <<jobs, results>>, NEW p \in Pages, PageStep(p)
  PROVE  ScoringInv'
<1>1. /\ ScoringTypeOK /\ PagesInOrder /\ OwnRuns
      /\ \A d \in Clients : RequestSound(d, post[d])
      /\ \A n \in DOMAIN runs : RunSound(runs[n])
  BY ScoringByParts
<1>2. UNCHANGED <<runs, post>>
  BY DEF PageStep, ReadLatest, LatestArrives, ReadStores, server
<1>3. OwnRuns' /\ (\A d \in Clients : RequestSound(d, post[d])')
      /\ \A n \in DOMAIN runs' : RunSound(runs[n])'
  BY <1>1, <1>2 DEF OwnRuns, RequestSound, RunSound, Enriched, ScoreRow
<1>4. Saved' = Saved /\ Saved \subseteq 1..MaxRuns
  BY <1>1, <1>2, RunsAreRuns DEF Saved
<1>5. /\ shown \in [Pages -> 0..MaxRuns] /\ DOMAIN lookup = Pages /\ DOMAIN lists = Pages
      /\ \A q \in Pages : DOMAIN lists[q] = 1..MaxRuns
      /\ \A q \in Pages : lookup[q] \subseteq Saved \cup {0} /\ shown[q] \in Saved \cup {0}
  BY <1>1 DEF ScoringTypeOK, PagesInOrder
<1>6. CASE ReadLatest(p)
  <2>1. PICK n \in Saved \cup {0} : lookup' = [lookup EXCEPT ![p] = {n}]
    BY <1>6 DEF ReadLatest
  <2>2. UNCHANGED <<shown, lists>>
    BY <1>6 DEF ReadLatest
  <2>3. ScoringTypeOK'
    BY <1>1, <1>2, <1>5, <2>1, <2>2 DEF ScoringTypeOK
  <2>4. PagesInOrder'
    BY <1>1, <1>2, <1>4, <1>5, <2>1, <2>2 DEF PagesInOrder, OwnTiers, ScoreRow
  <2> QED BY <1>3, <2>3, <2>4, NextScoringByParts
<1>7. CASE LatestArrives(p)
  <2>1. PICK n \in lookup[p] \cup {shown[p]} : shown' = [shown EXCEPT ![p] = n]
    BY <1>7 DEF LatestArrives
  <2>2. lookup' = [lookup EXCEPT ![p] = {}] /\ UNCHANGED lists
    BY <1>7 DEF LatestArrives
  <2>3. n \in Saved \cup {0} /\ n \in 0..MaxRuns
    <3>1. n \in Saved \cup {0}
      BY <1>5, <2>1
    <3>2. Saved \cup {0} \subseteq 0..MaxRuns
      BY <1>4, ScoringAssumption
    <3> QED BY <3>1, <3>2
  <2>4. ScoringTypeOK'
    BY <1>1, <1>2, <1>5, <2>1, <2>2, <2>3 DEF ScoringTypeOK
  <2>5. PagesInOrder'
    BY <1>1, <1>2, <1>4, <1>5, <2>1, <2>2, <2>3 DEF PagesInOrder, OwnTiers, ScoreRow
  <2> QED BY <1>3, <2>4, <2>5, NextScoringByParts
<1>8. CASE ReadStores(p)
  <2>1. PICK n \in Saved : n = shown[p] /\ n \in 1..MaxRuns /\ n \in DOMAIN runs
    BY <1>4, <1>5, <1>8 DEF ReadStores, Saved
  <2>2. /\ lists' = [lists EXCEPT ![p] = [lists[p] EXCEPT ![n] = Listed(p, n)]]
        /\ UNCHANGED <<shown, lookup>>
    BY <1>8, <2>1 DEF ReadStores
  <2>3. OwnTiers(n, Listed(p, n))
    <3> SUFFICES ASSUME NEW t \in Enriched(JobOpen[p]), TierIn(n, t) # "none"
                 PROVE  TierIn(n, t) = ScoreRow(t, runs[n].config).tier
      BY DEF OwnTiers, Listed
    <3>1. \E s \in runs[n].scores : s.task = t
      BY DEF TierIn
    <3> DEFINE found == CHOOSE s \in runs[n].scores : s.task = t
    <3>2. found \in runs[n].scores /\ found.task = t
      BY <3>1
    <3>3. TierIn(n, t) = found.tier
      BY <3>1 DEF TierIn
    <3> HIDE DEF found
    <3>4. found = ScoreRow(found.task, runs[n].config)
      BY <1>1, <2>1, <3>2 DEF RunSound
    <3> QED BY <3>2, <3>3, <3>4
  <2>4. ScoringTypeOK'
    BY <1>1, <1>2, <1>5, <2>1, <2>2 DEF ScoringTypeOK
  <2>5. PagesInOrder'
    <3>1. ASSUME NEW q \in Pages, NEW m \in 1..MaxRuns, lists'[q][m] # {}
          PROVE  m \in Saved /\ OwnTiers(m, lists'[q][m])
      <4>1. lists'[q][m] = lists[q][m] \/ (m = n /\ lists'[q][m] = Listed(p, n))
        BY <1>5, <2>2
      <4> QED BY <1>1, <2>1, <2>3, <3>1, <4>1 DEF PagesInOrder
    <3>2. \A q \in Pages : (lookup[q] \cup {shown[q]} \subseteq Saved \cup {0})'
      BY <1>4, <1>5, <2>2
    <3> QED BY <1>2, <1>4, <3>1, <3>2 DEF PagesInOrder, OwnTiers, ScoreRow
  <2> QED BY <1>3, <2>4, <2>5, NextScoringByParts
<1> QED BY <1>6, <1>7, <1>8 DEF PageStep

-----------------------------------------------------------------------------
(* All of it together.                                                      *)

LEMMA CoverStays ==
  ASSUME IndInv, Next
  PROVE  DOMAIN source' = Jobs /\ JobsCoverUploads'
<1> USE JobOfTasks
<1>1. /\ DOMAIN source = Jobs
      /\ \A j \in Jobs : jobs[j] # "ABSENT" =>
           /\ source[j] \in Uploads /\ phase[source[j]] = "answered"
           /\ \A t \in TasksOf(j) : results[t] # "absent" <=> t[2] \in uploads[source[j]]
      /\ UploadInv /\ ContractInv
  BY DEF IndInv, JobsCoverUploads
<1>2. CASE Uploading
  <2>1. PICK u \in Uploads : UploadStep(u)
    BY <1>2 DEF Uploading
  <2>2. \A v \in Uploads : phase[v] = "answered" => phase'[v] = "answered" /\ uploads'[v] = uploads[v]
    BY <1>1, <2>1, UploadsStay
  <2> QED BY <1>1, <1>2, <2>2 DEF Uploading, JobsCoverUploads
<1>3. CASE Starting
  <2>1. PICK j \in Jobs, u \in Uploads : StartFromUpload(j, u)
    BY <1>3 DEF Starting
  <2>2. /\ jobs[j] = "ABSENT" /\ phase[u] = "answered"
        /\ source' = [source EXCEPT ![j] = u]
        /\ jobs' = [jobs EXCEPT ![j] = "RUNNING"]
        /\ results' = [t \in Tasks |-> IF t \in {<<j, s>> : s \in uploads[u]} THEN "open" ELSE results[t]]
        /\ UNCHANGED <<phase, uploads>>
    BY <1>3, <2>1 DEF Starting, StartFromUpload, StartWith, Offered, uploadVars
  <2>3. \A t \in Tasks : t \in {<<j, s>> : s \in uploads[u]} <=> JobOf[t] = j /\ t[2] \in uploads[u]
    <3>1. \A s \in uploads[u] : <<j, s>>[2] = s /\ JobOf[<<j, s>>] = j
      BY <1>1 DEF UploadInv
    <3>2. ASSUME NEW t \in Tasks, JobOf[t] = j, t[2] \in uploads[u]
          PROVE  t \in {<<j, s>> : s \in uploads[u]}
      BY <3>2
    <3> QED BY <3>1, <3>2
  <2>4. ASSUME NEW k \in Jobs, jobs'[k] # "ABSENT"
        PROVE  /\ source'[k] \in Uploads /\ phase'[source'[k]] = "answered"
               /\ \A t \in TasksOf(k) : results'[t] # "absent" <=> t[2] \in uploads'[source'[k]]
    <3>1. CASE k = j
      <4>1. \A t \in TasksOf(j) : results[t] = "absent"
        BY <1>1, <2>2 DEF ContractInv, StatusMatchesResults, TasksOf
      <4> QED BY <1>1, <2>2, <2>3, <3>1, <4>1 DEF TasksOf
    <3>2. CASE k # j
      <4>1. jobs[k] # "ABSENT" /\ source'[k] = source[k]
        BY <1>1, <2>2, <2>4, <3>2 DEF ContractInv, ContractTypeOK
      <4>2. \A t \in TasksOf(k) : results'[t] = results[t]
        BY <2>2, <2>3, <3>2 DEF TasksOf
      <4> QED BY <1>1, <2>2, <4>1, <4>2
    <3> QED BY <3>1, <3>2
  <2> QED BY <1>1, <2>2, <2>4 DEF JobsCoverUploads
<1>4. CASE Enriching
  <2>1. UNCHANGED <<phase, uploads, source>>
    BY <1>4 DEF Enriching, uploadVars
  <2>2. ASSUME NEW t \in Tasks PROVE results'[t] = "absent" <=> results[t] = "absent"
    BY <1>1, <1>4 DEF Enriching, Settle, Close, Stop, ContractInv, ContractTypeOK
  <2>3. ASSUME NEW j \in Jobs, jobs[j] = "ABSENT" PROVE jobs'[j] = "ABSENT"
    BY <1>1, <1>4, <2>3 DEF Enriching, Settle, Close, Stop, ContractInv, ContractTypeOK
  <2> QED BY <1>1, <2>1, <2>2, <2>3 DEF JobsCoverUploads, TasksOf
<1>5. CASE ScoringOrViewing
  BY <1>1, <1>5 DEF ScoringOrViewing, uploadVars, JobsCoverUploads, TasksOf
<1> QED BY <1>2, <1>3, <1>4, <1>5 DEF Next

(* Each part's invariant is about its own variables, the last one's also    *)
(* about the tables of the jobs.                                            *)
LEMMA StandingStill ==
  /\ UploadInv /\ UNCHANGED uploadVars => UploadInv'
  /\ ContractInv /\ UNCHANGED <<jobs, results>> => ContractInv'
  /\ ScoringInv /\ UNCHANGED <<jobs, results, scoringVars>> => ScoringInv'
<1>1. ASSUME UploadInv, UNCHANGED uploadVars PROVE UploadInv'
  <2>1. Shapes' /\ \A u \in Uploads : Still(u)
    BY <1>1, UploadByUpload DEF uploadVars, Shapes, Still
  <2>2. \A u \in Uploads : UploadSound(u)'
    BY <1>1, <2>1, UploadByUpload, StillSound
  <2> QED BY <2>1, <2>2, NextUploadByUpload
<1>2. ASSUME ContractInv, UNCHANGED <<jobs, results>> PROVE ContractInv'
  BY <1>2, ContractNextInv, JobOfTasks DEF contractVars
<1>3. ASSUME ScoringInv, UNCHANGED <<jobs, results, scoringVars>> PROVE ScoringInv'
  <2>1. /\ ScoringTypeOK /\ PagesInOrder /\ OwnRuns
        /\ \A d \in Clients : RequestSound(d, post[d])
        /\ \A n \in DOMAIN runs : RunSound(runs[n])
    BY <1>3, ScoringByParts
  <2>2. UNCHANGED <<jobs, results, runs, post, shown, lookup, lists>>
    BY <1>3 DEF scoringVars
  <2>3. ScoringTypeOK' /\ OwnRuns'
    BY <2>1, <2>2 DEF ScoringTypeOK, OwnRuns
  <2>4. PagesInOrder'
    BY <2>1, <2>2 DEF PagesInOrder, OwnTiers, Saved, ScoreRow
  <2>5. (\A d \in Clients : RequestSound(d, post[d])') /\ \A n \in DOMAIN runs' : RunSound(runs[n])'
    BY <2>1, <2>2 DEF RequestSound, RunSound, Enriched, ScoreRow
  <2> QED BY <2>3, <2>4, <2>5, NextScoringByParts
<1> QED BY <1>1, <1>2, <1>3

LEMMA InitInv == Init => IndInv
<1> SUFFICES ASSUME Init PROVE IndInv
  OBVIOUS
<1>1. UploadInv /\ ContractInv
  BY UploadInitInv, ContractInitInv, JobOfTasks DEF Init
<1>2. JobsCoverUploads /\ DOMAIN source = Jobs
  BY DEF Init, ContractInit, JobsCoverUploads
<1>3. ScoringInv
  <2>1. runs = <<>> /\ DOMAIN runs = {} /\ Len(runs) = 0
    BY DEF Init, ScoringInit
  <2>2. \A c \in Clients : post[c] = Idle
    BY DEF Init, ScoringInit
  <2>3. /\ ScoringTypeOK
    BY <2>1, ScoringAssumption, IdleIsSound DEF Init, ScoringInit, ScoringTypeOK, Request
  <2>4. PagesInOrder
    BY <2>1 DEF Init, ScoringInit, PagesInOrder, Saved
  <2>5. OwnRuns /\ \A c \in Clients : RequestSound(c, post[c])
    BY <2>2, IdleIsSound DEF OwnRuns, Writing
  <2> QED BY <2>1, <2>3, <2>4, <2>5, ScoringByParts
<1> QED BY <1>1, <1>2, <1>3 DEF IndInv

LEMMA NextInv == IndInv /\ [Next]_vars => IndInv'
<1> SUFFICES ASSUME IndInv, [Next]_vars PROVE IndInv'
  OBVIOUS
<1>1. UploadInv /\ ContractInv /\ ScoringInv /\ DOMAIN source = Jobs /\ JobsCoverUploads
  BY DEF IndInv
<1>2. CASE Uploading
  <2>1. UploadInv'
    BY <1>1, <1>2, UploadStepInv DEF Uploading
  <2>2. UNCHANGED <<jobs, results, scoringVars>>
    BY <1>2 DEF Uploading
  <2> QED BY <1>1, <1>2, <2>1, <2>2, CoverStays, StandingStill DEF IndInv, Next
<1>3. CASE Starting \/ Enriching
  <2>1. ContractNext
    BY <1>1, <1>3, JobStepsAreContractSteps
  <2>2. UNCHANGED <<uploadVars, scoringVars>>
    BY <1>3 DEF Starting, Enriching
  <2>3. ContractInv'
    BY <1>1, <2>1, ContractNextInv, JobOfTasks
  <2>4. ScoringInv'
    BY <1>1, <2>1, <2>2, JobsKeepScoring
  <2> QED BY <1>1, <1>3, <2>2, <2>3, <2>4, CoverStays, StandingStill DEF IndInv, Next
<1>4. CASE ScoringOrViewing
  <2>1. UNCHANGED <<uploadVars, jobs, results>>
    BY <1>4 DEF ScoringOrViewing
  <2>2. ScoringInv'
    BY <1>1, <1>4, <2>1, PostStepKeepsInv, PageStepKeepsInv DEF ScoringOrViewing, ScoringStep
  <2> QED BY <1>1, <1>4, <2>1, <2>2, CoverStays, StandingStill DEF IndInv, Next
<1>5. CASE UNCHANGED vars
  <2>1. UNCHANGED <<uploadVars, jobs, results, scoringVars, source>>
    BY <1>5 DEF vars, uploadVars, scoringVars
  <2>2. JobsCoverUploads'
    BY <1>1, <2>1 DEF JobsCoverUploads, uploadVars, TasksOf
  <2> QED BY <1>1, <2>1, <2>2, StandingStill DEF IndInv
<1> QED BY <1>2, <1>3, <1>4, <1>5 DEF Next

(* The inductive invariant, of which the next theorems are consequences.    *)
THEOREM Invariance == Spec => []IndInv
BY InitInv, NextInv, PTL DEF Spec

(* What an upload accepts is the first valid row of every store id, at any  *)
(* point of any file.                                                       *)
THEOREM UploadsSound == Spec => []KeepsFirstValidRows
<1>1. IndInv => KeepsFirstValidRows
  BY DEF IndInv, UploadInv
<1> QED BY <1>1, Invariance, PTL

(* An upload exists once its transaction has committed and not before, and  *)
(* then it has every row the request accepted, one per store id, however    *)
(* many chunks they were inserted in.                                       *)
THEOREM UploadsWhole == Spec => []UploadsAreWhole
<1>1. IndInv => UploadsAreWhole
  BY DEF IndInv, UploadInv
<1> QED BY <1>1, Invariance, PTL

(* A run that was answered as complete never misses an enriched store,      *)
(* however the job moved between the statements of the request.             *)
THEOREM CompleteIsComplete == Spec => []PartialIsTruthful
<1>1. IndInv => PartialIsTruthful
  BY DEF IndInv, ScoringInv
<1> QED BY <1>1, Invariance, PTL

(* From end to end: the stores with a tier are those the file was accepted  *)
(* with.                                                                    *)
THEOREM EndToEnd == Spec => []EveryStoreGetsATier
<1>1. IndInv => EveryStoreGetsATier
  <2> SUFFICES ASSUME IndInv, NEW n \in DOMAIN runs, NEW j, j = runs[n].job,
                      runs[n].claim = "complete", jobs[j] = "COMPLETED"
               PROVE  {s.task[2] : s \in runs[n].scores} = uploads[source[j]]
    BY DEF EveryStoreGetsATier
  <2> USE JobOfTasks
  <2>1. j \in Jobs /\ {s.task : s \in runs[n].scores} = Enriched(j)
    BY RunsAreRuns DEF IndInv, ScoringInv, PartialIsTruthful
  <2>2. \A t \in TasksOf(j) : t \in Enriched(j) <=> t[2] \in uploads[source[j]]
    BY <2>1 DEF IndInv, JobsCoverUploads, ContractInv, StatusMatchesResults, Enriched, TasksOf
  <2>3. \A t \in Enriched(j) : t[2] \in uploads[source[j]]
    BY <2>2 DEF Enriched
  <2>4. ASSUME NEW s \in uploads[source[j]] PROVE <<j, s>> \in Enriched(j) /\ <<j, s>>[2] = s
    <3>1. s \in ValidStores
      BY <2>1, <2>4 DEF IndInv, UploadInv, JobsCoverUploads
    <3> QED BY <2>1, <2>2, <2>4, <3>1 DEF TasksOf
  <2>5. {s.task[2] : s \in runs[n].scores} = {t[2] : t \in {s.task : s \in runs[n].scores}}
    OBVIOUS
  <2>6. {s.task[2] : s \in runs[n].scores} = {t[2] : t \in Enriched(j)}
    BY <2>1, <2>5
  <2>7. \A s \in uploads[source[j]] : \E t \in Enriched(j) : t[2] = s
    BY <2>4
  <2>8. {t[2] : t \in Enriched(j)} = uploads[source[j]]
    BY <2>3, <2>7
  <2> QED BY <2>6, <2>8
<1> QED BY <1>1, Invariance, PTL

(* No settings and no metrics rank a store below a worse one.               *)
THEOREM MeritRanks == Spec => []RankedByMerit
<1>1. IndInv => RankedByMerit
  BY RuleRanksByMerit DEF IndInv
<1> QED BY <1>1, Invariance, PTL

-----------------------------------------------------------------------------
(* Paging.                                                                  *)

(* Where the order is total, the place of a row in a listing is the number  *)
(* of rows that do not sort after it, whatever listing that is.             *)
OrderedIn(n, rows) == \A t, u \in rows : t # u => SortsAfter(n, t, u) \/ SortsAfter(n, u, t)
NotAfter(n, rows, t) == {u \in rows \ {t} : ~SortsAfter(n, u, t)}

LEMMA PlaceInListing ==
  ASSUME NEW n, NEW rows, rows = Enriched(runs[n].job), IsFiniteSet(rows),
         OrderedIn(n, rows), NEW s \in Listings(n)
  PROVE  /\ DOMAIN s = 1..Cardinality(rows) /\ Cardinality(rows) \in Nat
         /\ \A t \in rows : \E i \in DOMAIN s : s[i] = t
         /\ \A i \in DOMAIN s : s[i] \in rows /\ i = Cardinality(NotAfter(n, rows, s[i])) + 1
<1>1. /\ s \in [1..Cardinality(rows) -> rows]
      /\ \A t \in rows : \E i \in DOMAIN s : s[i] = t
      /\ \A i, k \in DOMAIN s : i < k => ~SortsAfter(n, s[i], s[k])
  BY DEF Listings
<1>2. Cardinality(rows) \in Nat
  BY FS_CardinalityType
<1>3. \A i, k \in DOMAIN s : s[i] = s[k] => i = k
  <2>1. IsFiniteSet(1..Cardinality(rows)) /\ Cardinality(1..Cardinality(rows)) = Cardinality(rows)
    BY <1>2, FS_Interval
  <2>2. s \in Surjection(1..Cardinality(rows), rows)
    BY <1>1 DEF Surjection
  <2>3. s \in Injection(1..Cardinality(rows), rows)
    BY <2>1, <2>2, FS_Surjection
  <2> QED BY <1>1, <2>3 DEF Injection, IsInjective
<1>4. ASSUME NEW i \in DOMAIN s PROVE i = Cardinality(NotAfter(n, rows, s[i])) + 1
  <2> DEFINE before == [k \in 1..(i - 1) |-> s[k]]
             B == NotAfter(n, rows, s[i])
  <2>1. i \in 1..Cardinality(rows) /\ 1..(i - 1) \subseteq DOMAIN s
    BY <1>1, <1>2, <1>4
  <2>2. \A k \in 1..(i - 1) : s[k] \in B
    BY <1>1, <1>3, <2>1 DEF NotAfter
  <2>3. ASSUME NEW u \in B PROVE \E k \in 1..(i - 1) : s[k] = u
    <3>1. PICK k \in DOMAIN s : s[k] = u
      BY <1>1 DEF NotAfter
    <3>2. k # i /\ s[k] \in rows /\ s[i] \in rows /\ s[k] # s[i] /\ ~SortsAfter(n, s[k], s[i])
      BY <1>1, <3>1 DEF NotAfter
    <3>3. ~(i < k)
      BY <1>1, <1>4, <3>1, <3>2 DEF OrderedIn
    <3> QED BY <1>1, <1>2, <2>1, <3>1, <3>2, <3>3
  <2> HIDE DEF B
  <2>4. before \in Surjection(1..(i - 1), B)
    BY <2>2, <2>3 DEF Surjection
  <2>5. before \in Injection(1..(i - 1), B)
    BY <1>3, <2>1, <2>2 DEF Injection, IsInjective
  <2>6. IsFiniteSet(1..(i - 1)) /\ Cardinality(1..(i - 1)) = i - 1
    <3>1. 1 \in Int /\ i - 1 \in Int /\ 0 <= i - 1
      BY <1>2, <2>1
    <3>2. Cardinality(1..(i - 1)) = IF 1 > i - 1 THEN 0 ELSE (i - 1) - 1 + 1
      BY <3>1, FS_Interval
    <3> QED BY <3>1, <3>2, FS_Interval
  <2>7. Cardinality(B) = i - 1
    BY <2>4, <2>5, <2>6, FS_Surjection
  <2> QED BY <1>2, <2>1, <2>7 DEF B
<1> QED BY <1>1, <1>2, <1>4

(* A job's enriched stores are finitely many, of different ids.             *)
LEMMA EnrichedDiffer ==
  ASSUME IndInv, NEW j \in Jobs, jobs[j] # "ABSENT"
  PROVE  /\ IsFiniteSet(Enriched(j))
         /\ \A t, u \in Enriched(j) : t # u =>
              /\ StoreIdOf[t] # StoreIdOf[u] /\ StoreIdOf[t] \in Nat /\ StoreIdOf[u] \in Nat
<1> DEFINE stores == uploads[source[j]]
           task == [s \in stores |-> <<j, s>>]
<1>1. /\ source[j] \in Uploads /\ \A t \in TasksOf(j) : results[t] # "absent" <=> t[2] \in stores
      /\ IsFiniteSet(stores) /\ \A s1, s2 \in stores : s1[IdColumn] = s2[IdColumn] => s1 = s2
  BY DEF IndInv, JobsCoverUploads, UploadInv, UploadsAreWhole
<1>2. ASSUME NEW t \in Enriched(j)
      PROVE  t \in Tasks /\ t[2] \in stores /\ t = <<j, t[2]>>
  BY <1>1, JobOfTasks DEF Enriched, TasksOf
<1> HIDE DEF stores
<1>3. IsFiniteSet(Enriched(j))
  <2>1. task \in Surjection(stores, {task[s] : s \in stores})
    BY DEF Surjection
  <2>2. IsFiniteSet({task[s] : s \in stores})
    BY <1>1, <2>1, FS_Surjection
  <2>3. Enriched(j) \in SUBSET {task[s] : s \in stores}
    BY <1>2
  <2> QED BY <2>2, <2>3, FS_Subset
<1>4. ASSUME NEW t \in Enriched(j), NEW u \in Enriched(j), t # u
      PROVE  StoreIdOf[t] # StoreIdOf[u] /\ StoreIdOf[t] \in Nat /\ StoreIdOf[u] \in Nat
  <2>1. t[2] # u[2]
    BY <1>2, <1>4
  <2>2. t[2][IdColumn] # u[2][IdColumn]
    BY <1>1, <1>2, <2>1
  <2> QED BY <1>2, <2>2, RankAssumption, ScoringAssumption
<1> QED BY <1>3, <1>4

Place(n, t) == Cardinality(NotAfter(n, Enriched(runs[n].job), t)) + 1

PlacesAreGiven ==
  \A n \in Saved : LET rows == Enriched(runs[n].job) IN
    /\ IsFiniteSet(rows)
    /\ \A s \in Listings(n) :
         /\ DOMAIN s = 1..Cardinality(rows)
         /\ \A t \in rows : \E i \in DOMAIN s : s[i] = t
         /\ \A i \in DOMAIN s : s[i] \in rows /\ i = Place(n, s[i])

LEMMA PlacesHold == IndInv => PlacesAreGiven
<1> SUFFICES ASSUME IndInv, NEW n \in Saved, NEW rows, rows = Enriched(runs[n].job)
             PROVE  /\ IsFiniteSet(rows)
                    /\ \A s \in Listings(n) :
                         /\ DOMAIN s = 1..Cardinality(rows)
                         /\ \A t \in rows : \E i \in DOMAIN s : s[i] = t
                         /\ \A i \in DOMAIN s : s[i] \in rows /\ i = Place(n, s[i])
  BY DEF PlacesAreGiven
<1>1. n \in DOMAIN runs /\ runs[n].job \in Jobs /\ jobs[runs[n].job] # "ABSENT"
  BY RunsAreRuns DEF IndInv, ScoringInv, RunsFollowTheRule, Saved
<1>2. /\ IsFiniteSet(rows)
      /\ \A v, u \in rows : v # u =>
           StoreIdOf[v] # StoreIdOf[u] /\ StoreIdOf[v] \in Nat /\ StoreIdOf[u] \in Nat
  BY <1>1, EnrichedDiffer
<1>3. OrderedIn(n, rows)
  <2> SUFFICES ASSUME NEW v \in rows, NEW u \in rows, v # u
               PROVE  SortsAfter(n, v, u) \/ SortsAfter(n, u, v)
    BY DEF OrderedIn
  <2>1. StoreIdOf[v] < StoreIdOf[u] \/ StoreIdOf[u] < StoreIdOf[v]
    BY <1>2
  <2> QED BY <2>1 DEF SortsAfter
<1>4. ASSUME NEW s \in Listings(n)
      PROVE  /\ DOMAIN s = 1..Cardinality(rows)
             /\ \A t \in rows : \E i \in DOMAIN s : s[i] = t
             /\ \A i \in DOMAIN s : s[i] \in rows /\ i = Cardinality(NotAfter(n, rows, s[i])) + 1
  BY <1>1, <1>2, <1>3, PlaceInListing
<1>5. \A t : Place(n, t) = Cardinality(NotAfter(n, rows, t)) + 1
  BY DEF Place
<1> QED BY <1>2, <1>4, <1>5

(* A run that is saved keeps its job and its scores.                        *)
LEMMA SavedRunsStay ==
  ASSUME IndInv, [Next]_vars, NEW n \in Saved
  PROVE  n \in Saved' /\ runs'[n].job = runs[n].job /\ runs'[n].scores = runs[n].scores
<1>1. /\ n \in DOMAIN runs /\ runs[n].saved /\ DOMAIN runs = 1..Len(runs)
      /\ runs \in Seq(Run) /\ runs[n] \in Run /\ Len(runs) \in Nat
  BY RunsAreRuns, ScoringAssumption DEF IndInv, ScoringInv, Saved
<1>2. CASE runs' = runs
  BY <1>1, <1>2 DEF Saved
<1>3. ASSUME NEW c \in Clients, PostStep(c), runs' # runs
      PROVE  n \in Saved' /\ runs'[n].job = runs[n].job /\ runs'[n].scores = runs[n].scores
  <2>1. ASSUME NEW config \in Configs, InsertConfig(c, config)
        PROVE  n \in DOMAIN runs' /\ runs'[n] = runs[n]
    <3>1. PICK r : runs' = Append(runs, r)
      BY <2>1 DEF InsertConfig
    <3> QED BY <1>1, <3>1
  <2>2. CASE ScoreStores(c) \/ RunFails(c)
    <3>1. post[c].step \in {"inserted", "scored"}
      BY <2>2 DEF ScoreStores, RunFails
    <3>2. post[c].run # n
      BY <1>1, <3>1 DEF IndInv, ScoringInv, PostsInOrder, RunOfPost, Writing
    <3>3. DOMAIN runs' = DOMAIN runs /\ runs'[n] = runs[n]
      BY <1>1, <2>2, <3>2 DEF ScoreStores, RunFails
    <3> QED BY <1>1, <3>3 DEF Saved
  <2>3. CASE CommitRun(c)
    BY <1>1, <2>3 DEF CommitRun, Saved, Run
  <2>4. CASE AnswerRun(c)
    BY <1>1, <2>4 DEF AnswerRun, Saved, Run
  <2> QED BY <1>1, <1>3, <2>1, <2>2, <2>3, <2>4 DEF PostStep, RequireJob, AnswerLost, Saved
<1>4. (\E c \in Clients : PostStep(c)) \/ runs' = runs
  BY DEF Next, vars, Uploading, Starting, Enriching, ScoringOrViewing, ScoringStep, PageStep,
         ReadLatest, LatestArrives, ReadStores, server, scoringVars
<1> QED BY <1>2, <1>3, <1>4

(* A list only grows, and only while its job runs.                          *)
LEMMA EnrichedGrows ==
  ASSUME IndInv, [Next]_vars, NEW j \in Jobs, jobs[j] # "ABSENT"
  PROVE  /\ Enriched(j) \subseteq Enriched(j)'
         /\ jobs[j] # "RUNNING" => Enriched(j)' = Enriched(j)
<1>1. UploadInv /\ ContractInv
  BY DEF IndInv
<1>2. CASE UNCHANGED <<jobs, results>>
  BY <1>2 DEF Enriched
<1>3. CASE ContractNext
  <2>1. jobs[j] # "RUNNING" => \A t \in TasksOf(j) : results'[t] = results[t]
    BY <1>1, <1>3, JobsOverStay
  <2>2. ASSUME NEW t \in Enriched(j) PROVE results'[t] = "enriched"
    <3>1. t \in Tasks /\ JobOf[t] = j /\ results[t] = "enriched" /\ results \in [Tasks -> Results]
      BY <1>1 DEF Enriched, TasksOf, ContractInv, ContractTypeOK
    <3>2. ASSUME NEW k \in Jobs, Start(k) PROVE results'[t] = "enriched"
      BY <3>1, <3>2 DEF Start, StartWith, TasksOf
    <3> QED BY <1>3, <3>1, <3>2 DEF ContractNext, Close, Stop, Settle
  <2> QED BY <2>1, <2>2 DEF Enriched, TasksOf
<1>4. ContractNext \/ UNCHANGED <<jobs, results>>
  BY <1>1, JobStepsAreContractSteps DEF Next, vars, Uploading, ScoringOrViewing
<1> QED BY <1>2, <1>3, <1>4

(* Turning the pages of a list skips no store while the job runs, and       *)
(* repeats none once it is over, however many scores tie.                   *)
THEOREM PagingIsStable == Spec => PagesSkipNothing
<1> DEFINE Forward ==
      \A n \in Saved : \A s \in Listings(n), r \in Listings(n)' : \A k \in 0..Len(s) :
        /\ Beyond(s, k) \subseteq Beyond(r, k)
        /\ jobs[runs[n].job] # "RUNNING" => OnPage(r, k) = OnPage(s, k)
<1>1. IndInv /\ PlacesAreGiven /\ PlacesAreGiven' /\ [Next]_vars => Forward
  <2> SUFFICES ASSUME IndInv, PlacesAreGiven, PlacesAreGiven', [Next]_vars,
                      NEW n \in Saved, NEW s \in Listings(n), NEW r \in Listings(n)', NEW k \in Int,
                      NEW rows, rows = Enriched(runs[n].job),
                      NEW later, later = Enriched(runs[n].job)'
               PROVE  /\ Beyond(s, k) \subseteq Beyond(r, k)
                      /\ jobs[runs[n].job] # "RUNNING" => OnPage(r, k) = OnPage(s, k)
    OBVIOUS
  <2>1. n \in Saved' /\ runs'[n].job = runs[n].job /\ runs'[n].scores = runs[n].scores
    BY SavedRunsStay
  <2>2. rows \subseteq later /\ (jobs[runs[n].job] # "RUNNING" => later = rows)
    <3>1. runs[n].job \in Jobs /\ jobs[runs[n].job] # "ABSENT"
      BY RunsAreRuns DEF IndInv, ScoringInv, RunsFollowTheRule, Saved
    <3>2. later = Enriched(runs[n].job)'
      OBVIOUS
    <3> QED BY <2>1, <3>1, EnrichedGrows DEF Enriched
  <2>3. /\ IsFiniteSet(rows) /\ DOMAIN s = 1..Cardinality(rows)
        /\ \A i \in DOMAIN s : s[i] \in rows /\ i = Place(n, s[i])
    BY DEF PlacesAreGiven
  <2>4. /\ IsFiniteSet(later) /\ DOMAIN r = 1..Cardinality(later)
        /\ \A t \in later : \E i \in DOMAIN r : r[i] = t
        /\ \A i \in DOMAIN r : i = Place(n, r[i])'
    BY <2>1 DEF PlacesAreGiven
  <2>5. \A t, u : SortsAfter(n, t, u)' <=> SortsAfter(n, t, u)
    BY <2>1 DEF SortsAfter, HigherScore, ScoreIn
  <2>6. ASSUME NEW t \in rows
        PROVE  /\ Place(n, t) \in Nat /\ Place(n, t)' \in Nat /\ Place(n, t) <= Place(n, t)'
               /\ later = rows => Place(n, t)' = Place(n, t)
    <3> DEFINE before == NotAfter(n, rows, t)
               then == {u \in later \ {t} : ~SortsAfter(n, u, t)}
    <3>1. Place(n, t) = Cardinality(before) + 1
      BY DEF Place
    <3>2. Place(n, t)' = Cardinality(then) + 1
      BY <2>5 DEF Place, NotAfter
    <3>3. before \subseteq then /\ then \subseteq later /\ (later = rows => then = before)
      BY <2>2 DEF NotAfter
    <3> HIDE DEF before, then
    <3>4. IsFiniteSet(then)
      BY <2>4, <3>3, FS_Subset
    <3>5. IsFiniteSet(before) /\ Cardinality(before) <= Cardinality(then)
      BY <3>3, <3>4, FS_Subset
    <3>6. Cardinality(before) \in Nat /\ Cardinality(then) \in Nat
      BY <3>4, <3>5, FS_CardinalityType
    <3> QED BY <3>1, <3>2, <3>3, <3>5, <3>6
  <2>7. ASSUME NEW i \in DOMAIN s
        PROVE  \E m \in DOMAIN r : r[m] = s[i] /\ m >= i /\ (later = rows => m = i)
    BY <2>2, <2>3, <2>4, <2>6
  <2>8. DOMAIN s \subseteq Int /\ DOMAIN r \subseteq Int /\ (k + 1) * PageSize \in Int
    BY <2>3, <2>4, ScoringAssumption
  <2>9. Beyond(s, k) \subseteq Beyond(r, k)
    BY <2>7, <2>8 DEF Beyond
  <2>10. ASSUME jobs[runs[n].job] # "RUNNING" PROVE OnPage(r, k) = OnPage(s, k)
    <3>1. DOMAIN r = DOMAIN s /\ \A i \in DOMAIN s : r[i] = s[i]
      BY <2>2, <2>3, <2>4, <2>7, <2>10
    <3> QED BY <3>1 DEF OnPage
  <2> QED BY <2>9, <2>10
<1>2. IndInv /\ PlacesAreGiven /\ PlacesAreGiven' /\ [Next]_vars
        => [Forward]_<<jobs, results, scoringVars>>
  BY <1>1
<1> HIDE DEF Forward
<1>3. Spec => [][Forward]_<<jobs, results, scoringVars>>
  BY <1>2, Invariance, PlacesHold, PTL DEF Spec
<1> QED BY <1>3 DEF Forward, PagesSkipNothing

(* The bars a page marks add up to the tiers it lists under the run it      *)
(* shows.                                                                   *)
THEOREM MarksAgree == Spec => []MarksAgreeOnceLoaded
<1>1. IndInv => MarksAgreeOnceLoaded
  <2> SUFFICES ASSUME IndInv, NEW p \in Pages, shown[p] # 0,
                      NEW row \in lists[p][shown[p]], row.tier # "none"
               PROVE  row.tier = TierFor(Total(Marked(p, row.task), runs[shown[p]].config),
                                         runs[shown[p]].config)
    BY DEF MarksAgreeOnceLoaded
  <2>1. shown[p] \in 1..MaxRuns
    BY ScoringAssumption DEF IndInv, ScoringInv, ScoringTypeOK
  <2>2. OwnTiers(shown[p], lists[p][shown[p]])
    BY <2>1 DEF IndInv, ScoringInv, PagesInOrder
  <2> QED BY <2>2 DEF OwnTiers, ScoreRow, ScoreStore, Marked
<1> QED BY <1>1, Invariance, PTL

(* Jobs started from uploads keep the contract the engine implements.       *)
THEOREM ContractKept == Spec => KeepsContract
<1>1. Init => Contract!ContractInit
  BY DEF Init, ContractInit, Contract!ContractInit
<1>2. ContractNext => Contract!ContractNext
  BY DEF ContractNext, Start, StartWith, Settle, Close, Stop, TasksOf, Results,
         Contract!ContractNext, Contract!Start, Contract!StartWith, Contract!Settle,
         Contract!Close, Contract!Stop, Contract!TasksOf, Contract!Results
<1>3. IndInv /\ [Next]_vars => [Contract!ContractNext]_(Contract!contractVars)
  <2> SUFFICES ASSUME IndInv, [Next]_vars
               PROVE  Contract!ContractNext \/ UNCHANGED <<jobs, results>>
    BY DEF Contract!contractVars
  <2>1. CASE Starting \/ Enriching
    BY <1>2, <2>1, JobStepsAreContractSteps DEF IndInv
  <2>2. CASE Uploading \/ ScoringOrViewing \/ UNCHANGED vars
    BY <2>2 DEF Uploading, ScoringOrViewing, vars
  <2> QED BY <2>1, <2>2 DEF Next
<1> QED BY <1>1, <1>3, Invariance, PTL DEF Spec, KeepsContract, Contract!ContractSpec
=============================================================================
