---------------------------- MODULE StoreUpload ----------------------------
(***************************************************************************)
(* POST /uploads, from the first record of the file to the answer          *)
(* (uploads/csv-parser.ts, upload.repository.ts, upload.routes.ts).        *)
(*                                                                         *)
(* The file is a stream of records, sequences of cells as csv-parse yields *)
(* them: trimmed, blank lines skipped.  Header names stand for what        *)
(* normalizeHeader makes of them.  A cell is a value, Blank or TooLong.    *)
(* Requests share nothing but the tables, each with an upload of its own.  *)
(***************************************************************************)
EXTENDS Naturals, Sequences, FiniteSets

CONSTANTS
  Uploads,    (* requests POST /uploads, each with the upload it may create *)
  Columns,    (* REQUIRED_COLUMNS                                           *)
  IdColumn,   (* the column that tells stores apart, store_id               *)
  Headers,    (* first records a file may have                              *)
  Records,    (* the other records a file may have                          *)
  Blank,      (* the cell ''                                                *)
  TooLong,    (* a cell longer than maxFieldLength                          *)
  MaxRows,    (* maxRows                                                    *)
  ChunkSize   (* INSERT_CHUNK_SIZE                                          *)

ASSUME ColumnsAssumption == IsFiniteSet(Columns) /\ IdColumn \in Columns
ASSUME ChunkAssumption == ChunkSize \in Nat \ {0} /\ MaxRows \in Nat

VARIABLES
  phase,      (* where each request stands                                  *)
  file,       (* the records it has read, header first                      *)
  accepted,   (* stores: the numbers of the records accepted, in order      *)
  rejected,   (* the numbers of the records rejected                        *)
  inserted,   (* how many stores its open transaction has inserted          *)
  uploads     (* the committed stores of each upload, {} if there is none   *)

request == <<phase, file, accepted, rejected, inserted>>
uploadVars == <<phase, file, accepted, rejected, inserted, uploads>>

Phases == {"reading", "inserting", "created", "answered", "refused", "failed"}

UploadInit ==
  /\ phase = [u \in Uploads |-> "reading"]
  /\ file = [u \in Uploads |-> <<>>]
  /\ accepted = [u \in Uploads |-> <<>>]
  /\ rejected = [u \in Uploads |-> {}]
  /\ inserted = [u \in Uploads |-> 0]
  /\ uploads = [u \in Uploads |-> {}]

-----------------------------------------------------------------------------
(* The rules for headers and rows.                                          *)

Named(header) == {header[i] : i \in DOMAIN header}

(* Nothing missing, nothing unexpected, nothing twice.                      *)
ValidHeader(header) ==
  /\ Columns \ Named(header) = {}
  /\ Named(header) \ Columns = {}
  /\ \A i, k \in DOMAIN header : header[i] = header[k] => i = k

ColumnIndex(header, c) == CHOOSE i \in DOMAIN header : header[i] = c

StoreOf(header, record) == [c \in Columns |-> record[ColumnIndex(header, c)]]

ValidRow(header, record) ==
  /\ Len(record) = Len(header)
  /\ \A c \in Columns : StoreOf(header, record)[c] \notin {Blank, TooLong}

(* The n-th record of the request's file and its store.                     *)
Store(u, n) == StoreOf(file[u][1], file[u][n])

(* seenIds: the ids of the stores accepted so far.                          *)
SeenIds(u) == {Store(u, accepted[u][i])[IdColumn] : i \in DOMAIN accepted[u]}

TotalRows(u) == Len(file[u]) - 1

(* The request is over: its handler's variables are gone.                   *)
Finish(u, how) ==
  /\ phase' = [phase EXCEPT ![u] = how]
  /\ file' = [file EXCEPT ![u] = <<>>]
  /\ accepted' = [accepted EXCEPT ![u] = <<>>]
  /\ rejected' = [rejected EXCEPT ![u] = {}]
  /\ inserted' = [inserted EXCEPT ![u] = 0]
  /\ UNCHANGED uploads

-----------------------------------------------------------------------------
(* Reading the file.                                                        *)

ReadHeader(u, header) ==
  /\ phase[u] = "reading"
  /\ file[u] = <<>>
  /\ IF ValidHeader(header)
       THEN /\ file' = [file EXCEPT ![u] = <<header>>]
            /\ UNCHANGED <<phase, accepted, rejected, inserted, uploads>>
       ELSE Finish(u, "refused")

(* Mutated form of Accepts: an id counts as seen even if its row was        *)
(* rejected.                                                                *)
AcceptsUnlessIdRead(u, record) ==
  /\ ValidRow(file[u][1], record)
  /\ \A n \in 2..Len(file[u]) : Len(file[u][n]) = Len(file[u][1]) =>
       Store(u, n)[IdColumn] # StoreOf(file[u][1], record)[IdColumn]

Accepts(u, record) ==
  /\ ValidRow(file[u][1], record)
  /\ StoreOf(file[u][1], record)[IdColumn] \notin SeenIds(u)

AcceptRow(u, record) ==
  /\ Accepts(u, record)
  /\ accepted' = [accepted EXCEPT ![u] = Append(@, Len(file[u]) + 1)]
  /\ UNCHANGED rejected

RejectRow(u, record) ==
  /\ ~Accepts(u, record)
  /\ rejected' = [rejected EXCEPT ![u] = @ \cup {Len(file[u]) + 1}]
  /\ UNCHANGED accepted

ReadRow(u, record) ==
  /\ phase[u] = "reading"
  /\ file[u] # <<>>
  /\ IF TotalRows(u) + 1 > MaxRows
       THEN Finish(u, "refused")
       ELSE /\ AcceptRow(u, record) \/ RejectRow(u, record)
            /\ file' = [file EXCEPT ![u] = Append(@, record)]
            /\ UNCHANGED <<phase, inserted, uploads>>

(* csv-parse gives up on the rest of the file, an unclosed quote say.       *)
MalformedCsv(u) ==
  /\ phase[u] = "reading"
  /\ Finish(u, "refused")

(* Mutated form of EndOfFile: a file without a valid row is an upload too.  *)
EndOfFileAnyway(u) ==
  /\ phase[u] = "reading"
  /\ phase' = [phase EXCEPT ![u] = "inserting"]
  /\ UNCHANGED <<file, accepted, rejected, inserted, uploads>>

EndOfFile(u) ==
  /\ phase[u] = "reading"
  /\ IF accepted[u] = <<>>        \* EMPTY_CSV or NO_VALID_ROWS
       THEN Finish(u, "refused")
       ELSE /\ phase' = [phase EXCEPT ![u] = "inserting"]
            /\ UNCHANGED <<file, accepted, rejected, inserted, uploads>>

-----------------------------------------------------------------------------
(* The transaction, and the answer.                                         *)

Chunk(u) == {i \in DOMAIN accepted[u] : inserted[u] < i /\ i <= inserted[u] + ChunkSize}

(* stores has UNIQUE (upload_id, store_id).                                 *)
Conflicts(u) ==
  \E i \in Chunk(u) : \E k \in 1..(i - 1) :
    Store(u, accepted[u][i])[IdColumn] = Store(u, accepted[u][k])[IdColumn]

InsertChunk(u) ==
  /\ phase[u] = "inserting"
  /\ inserted[u] < Len(accepted[u])
  /\ ~Conflicts(u)
  /\ inserted' = [inserted EXCEPT ![u] = @ + Cardinality(Chunk(u))]
  /\ UNCHANGED <<phase, file, accepted, rejected, uploads>>

(* Mutated form of CommitUpload: no transaction around the chunks, the last *)
(* one is forgotten.                                                        *)
CommitFirstChunk(u) ==
  /\ phase[u] = "inserting"
  /\ inserted[u] > 0
  /\ uploads' = [uploads EXCEPT ![u] = {Store(u, accepted[u][i]) : i \in 1..inserted[u]}]
  /\ phase' = [phase EXCEPT ![u] = "created"]
  /\ UNCHANGED <<file, accepted, rejected, inserted>>

CommitUpload(u) ==
  /\ phase[u] = "inserting"
  /\ inserted[u] = Len(accepted[u])
  /\ uploads' = [uploads EXCEPT ![u] = {Store(u, accepted[u][i]) : i \in 1..inserted[u]}]
  /\ phase' = [phase EXCEPT ![u] = "created"]
  /\ UNCHANGED <<file, accepted, rejected, inserted>>

(* A statement of the transaction fails: Postgres forgets all of it.        *)
InsertFails(u) ==
  /\ phase[u] = "inserting"
  /\ Finish(u, "failed")

(* The 201 with its counts, or the connection it was for is gone.           *)
AnswerUpload(u) ==
  /\ phase[u] = "created"
  /\ Finish(u, "answered")

UploadStep(u) ==
  \/ \E header \in Headers : ReadHeader(u, header)
  \/ \E record \in Records : ReadRow(u, record)
  \/ MalformedCsv(u)
  \/ EndOfFile(u)
  \/ InsertChunk(u)
  \/ CommitUpload(u)
  \/ InsertFails(u)
  \/ AnswerUpload(u)

-----------------------------------------------------------------------------
UploadTypeOK ==
  /\ phase \in [Uploads -> Phases]
  /\ file \in [Uploads -> Seq(Headers \cup Records)]
  /\ accepted \in [Uploads -> Seq(Nat)]
  /\ rejected \in [Uploads -> SUBSET Nat]
  /\ inserted \in [Uploads -> Nat]
  /\ DOMAIN uploads = Uploads

(* What the accepted rows should be, from the file alone: every valid row   *)
(* that no earlier valid row has the id of.                                 *)
Valid(u, n) == ValidRow(file[u][1], file[u][n])

FirstValidRows(u) ==
  {n \in 2..Len(file[u]) :
    /\ Valid(u, n)
    /\ \A k \in 2..(n - 1) : Valid(u, k) => Store(u, k)[IdColumn] # Store(u, n)[IdColumn]}

(* Whatever order good, bad and repeated rows come in, the parser keeps the *)
(* first valid row of each store and accounts for every row once: a bad row *)
(* never costs a later good one of the same store, and accepted and         *)
(* rejected rows add up to the rows read (csv-parser.ts:119-165).           *)
KeepsFirstValidRows ==
  \A u \in Uploads :
    /\ {accepted[u][i] : i \in DOMAIN accepted[u]} = FirstValidRows(u)
    /\ rejected[u] = 2..Len(file[u]) \ FirstValidRows(u)
    /\ \A i, k \in DOMAIN accepted[u] : i < k => accepted[u][i] < accepted[u][k]

(* An upload is in the tables with all the stores it accepted, under ids    *)
(* that differ, or not at all; the unique constraint on stores, which would *)
(* fail the request, never has to refuse one (upload.repository.ts:24-46).  *)
UploadsAreWhole ==
  \A u \in Uploads :
    /\ uploads[u] # {} <=> phase[u] \in {"created", "answered"}
    /\ phase[u] = "created" => uploads[u] = {Store(u, n) : n \in FirstValidRows(u)}
    /\ phase[u] = "inserting" => ~Conflicts(u)
    /\ \A s1, s2 \in uploads[u] : s1[IdColumn] = s2[IdColumn] => s1 = s2

(* What a handler has in hand at each point, and what can be in the table.  *)
HandlersInOrder ==
  \A u \in Uploads :
    /\ phase[u] \in {"answered", "refused", "failed"} =>
         file[u] = <<>> /\ accepted[u] = <<>> /\ rejected[u] = {}
    /\ file[u] # <<>> => file[u][1] \in Headers /\ ValidHeader(file[u][1])
    /\ \A n \in 2..Len(file[u]) : file[u][n] \in Records
    /\ phase[u] \in {"inserting", "created"} => accepted[u] # <<>>
    /\ inserted[u] <= Len(accepted[u])

(* Every valid row's store is accounted for. *)
ValidIdsSeen ==
  \A u \in Uploads : \A n \in 2..Len(file[u]) :
    Valid(u, n) => Store(u, n)[IdColumn] \in SeenIds(u)

ValidStores ==
  {StoreOf(f[1], f[2]) :
     f \in {g \in Headers \X Records : ValidHeader(g[1]) /\ ValidRow(g[1], g[2])}}

UploadInv ==
  /\ UploadTypeOK
  /\ HandlersInOrder
  /\ KeepsFirstValidRows
  /\ ValidIdsSeen
  /\ UploadsAreWhole
  /\ \A u \in Uploads : IsFiniteSet(uploads[u]) /\ uploads[u] \subseteq ValidStores
=============================================================================
