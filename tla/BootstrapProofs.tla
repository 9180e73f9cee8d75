-------------------------- MODULE BootstrapProofs --------------------------
(***************************************************************************)
(* Proofs about Bootstrap for any requests, revisions, failures and deaths. *)
(* The inductive invariant follows an item through a call: asked for, its   *)
(* rows and its key wait together; written, it is in the last file of its   *)
(* dataset; registered, it is marked.  An item the call has passed by is    *)
(* done, waiting or a known failure, so the snapshot, which reads the files *)
(* and not the marks, leaves none out.                                      *)
(***************************************************************************)
EXTENDS Bootstrap, FiniteSetTheorems, TLAPS

Fetching == {"fetch", "write", "list", "mark", "resolve"}
Closing == {"publish", "record", "finish"}

Waiting == Requests[at - 1].dataset

CallConsistent ==
    /\ pc # "idle" => run = "RUNNING"
    /\ pc \notin Fetching => keys = {}
    /\ pc \in {"write", "list", "mark", "resolve"} => at > 1
    /\ keys # {} => at > 1 /\ \A i \in keys : DatasetOf(i) = Waiting
    /\ pc = "fetch" /\ keys # {} =>
         at <= Len(Requests) /\ Requests[at].dataset = Waiting

RowsConsistent ==
    /\ DOMAIN rows \subseteq keys
    /\ pc \in {"fetch", "write", "list"} => keys \cap done = {}
    /\ pc \in {"fetch", "write", "list"} =>
         \A i \in keys : offered[i] > 0 => i \in DOMAIN rows
    /\ pc \in {"write", "list"} => rows # NoRows
    /\ pc = "list" => files[Waiting] # <<>> /\ files[Waiting][Len(files[Waiting])] = rows
    /\ pc \in {"mark", "resolve"} =>
         rows = NoRows /\ \A i \in keys : offered[i] > 0 => Registered(i)
    /\ \A f \in listed : f[2] \in DOMAIN files[f[1]]

Handled(i) == i \in done \cup keys \/ Known(i)

PassedAreHandled ==
    pc \in Fetching =>
        \A n \in 1 .. at - 1 : \A i \in Requests[n].items :
            offered[i] > 0 => Handled(i)

SnapshotConsistent ==
    pc \in Closing \/ run = "COMPLETED" =>
        /\ snapshot \in Snapshots
        /\ \A i \in Items :
             offered[i] > 0 =>
                 i \in DOMAIN snapshot.rows \cup snapshot.clashes \/ Known(i)
        /\ pc = "publish" => snapshot.published \in {{}, {"daily_bars"}}
        /\ pc # "publish" => snapshot.published = Publications
        /\ pc \notin {"publish", "record"} => snapshot.recorded

Held(i) == i \in done \/ (pc \in {"list", "mark", "resolve"} /\ i \in keys)

CopiesConsistent ==
    \A i \in Items :
        Cardinality(Copies(i)) <= deaths + IF Held(i) THEN 1 ELSE 0

Consistent ==
    /\ CallConsistent /\ RowsConsistent /\ PassedAreHandled
    /\ DoneIsStored /\ SnapshotConsistent /\ CopiesConsistent

IInv == TypeOK /\ Consistent

USE DEF Modes, Versions, Failures, Publications, ledgers, call, bounds

\* An item belongs to one request, whose dataset is the item's.
LEMMA RequestFacts ==
    /\ Len(Requests) \in Nat /\ DOMAIN Requests = 1 .. Len(Requests)
    /\ \A n \in DOMAIN Requests :
         /\ Requests[n].dataset \in Datasets
         /\ Requests[n].dated \in BOOLEAN
         /\ Requests[n].items \subseteq Items
         /\ \A i \in Requests[n].items :
              RequestOf(i) = n /\ DatasetOf(i) = Requests[n].dataset
    /\ \A i \in Items :
         /\ RequestOf(i) \in DOMAIN Requests /\ i \in Requests[RequestOf(i)].items
         /\ DatasetOf(i) \in Datasets
  <1> DEFINE Request == [items : SUBSET Items, dataset : Datasets,
                         dated : BOOLEAN, mode : Modes]
  <1>1. Requests \in Seq(Request)
    BY RequestsAssumption
  <1>2. \A i \in Items : \E n \in DOMAIN Requests : i \in Requests[n].items
    BY DEF Items
  <1>3. \A i \in Items :
          RequestOf(i) \in DOMAIN Requests /\ i \in Requests[RequestOf(i)].items
    BY <1>2 DEF RequestOf
  <1>4. \A n \in DOMAIN Requests :
          /\ Requests[n].items \subseteq Items
          /\ Requests[n].dataset \in Datasets /\ Requests[n].dated \in BOOLEAN
    <2>1. \A n \in DOMAIN Requests : Requests[n] \in Request
      <3> HIDE DEF Request
      <3> QED
        BY <1>1
    <2> QED
      BY <2>1
  <1>5. ASSUME NEW n \in DOMAIN Requests, NEW i \in Requests[n].items
        PROVE  RequestOf(i) = n
    <2>1. RequestOf(i) \in DOMAIN Requests /\ i \in Requests[RequestOf(i)].items
      BY <1>3, <1>4
    <2>2. RequestOf(i) # n => Requests[RequestOf(i)].items \cap Requests[n].items = {}
      BY <2>1, RequestsAssumption
    <2> QED
      BY <2>1, <2>2
  <1>6. Len(Requests) \in Nat /\ DOMAIN Requests = 1 .. Len(Requests)
    BY <1>1
  <1> QED
    BY <1>3, <1>4, <1>5, <1>6 DEF DatasetOf

\* What a batch is: versions of some items.
LEMMA BatchType ==
    ASSUME NEW b
    PROVE  b \in Batches <=> DOMAIN b \subseteq Items /\ b \in [DOMAIN b -> 1 .. MaxVersion]
  BY DEF Batches

\* No rows are a batch, and a batch with an item in it is not that one.
LEMMA NoRowsFacts ==
    /\ NoRows \in Batches /\ DOMAIN NoRows = {}
    /\ \A b \in Batches : DOMAIN b = {} <=> b = NoRows
  <1>1. DOMAIN NoRows = {}
    BY DEF NoRows
  <1>2. NoRows \in Batches
    BY <1>1, BatchType DEF NoRows
  <1>3. \A b \in Batches : DOMAIN b = {} => b = NoRows
    BY BatchType DEF NoRows
  <1> QED
    BY <1>1, <1>2, <1>3

\* The batch that waits after an answer.
Merged(n) ==
    LET served == {i \in Todo(n) : offered[i] > 0}
    IN  [i \in DOMAIN rows \cup served |-> IF i \in served THEN offered[i] ELSE rows[i]]

\* It is a batch, of the items that waited and those that were served.
LEMMA MergedType ==
    ASSUME TypeOK, NEW n \in DOMAIN Requests
    PROVE  /\ Merged(n) \in Batches
           /\ DOMAIN Merged(n) = DOMAIN rows \cup {i \in Todo(n) : offered[i] > 0}
           /\ Todo(n) \subseteq Items
  <1> DEFINE served == {i \in Todo(n) : offered[i] > 0}
  <1>1. Todo(n) \subseteq Items
    BY RequestFacts DEF Todo
  <1>2. \A i \in served : offered[i] \in 1 .. MaxVersion
    BY <1>1, BoundAssumption DEF TypeOK
  <1>3. /\ DOMAIN rows \subseteq Items
        /\ \A i \in DOMAIN rows : rows[i] \in 1 .. MaxVersion
    BY BatchType DEF TypeOK
  <1>4. DOMAIN Merged(n) = DOMAIN rows \cup served
    BY DEF Merged
  <1>5. \A i \in DOMAIN rows \cup served : Merged(n)[i] \in 1 .. MaxVersion
    BY <1>2, <1>3 DEF Merged
  <1>6. Merged(n) \in [DOMAIN rows \cup served -> 1 .. MaxVersion]
    BY <1>5 DEF Merged
  <1> QED
    BY <1>1, <1>3, <1>4, <1>6, BatchType

\* Proceed, with its types.
LEMMA ProceedType ==
    ASSUME NEW n \in DOMAIN Requests, NEW waiting \in Batches, NEW keyed \in SUBSET Items,
           Proceed(n, waiting, keyed)
    PROVE  /\ pc' \in {"write", "fetch"}
           /\ rows' \in Batches /\ keys' \subseteq Items
  BY NoRowsFacts DEF Proceed

-----------------------------------------------------------------------------
(* Types *)

\* The batches that a file of a dataset may hold.
Filed == Batches \ {NoRows}

\* A file appended to those of a dataset.
LEMMA AppendType ==
    ASSUME NEW d \in Datasets, NEW b \in Filed, files \in [Datasets -> Seq(Filed)],
           files' = [files EXCEPT ![d] = Append(@, b)]
    PROVE  /\ files' \in [Datasets -> Seq(Filed)]
           /\ \A e \in Datasets :
                /\ Len(files[e]) \in Nat /\ DOMAIN files[e] = 1 .. Len(files[e])
                /\ DOMAIN files[e] \subseteq DOMAIN files'[e]
                /\ \A n \in DOMAIN files[e] : files'[e][n] = files[e][n]
           /\ files'[d] # <<>> /\ files'[d][Len(files'[d])] = b
           /\ DOMAIN files'[d] = DOMAIN files[d] \cup {Len(files[d]) + 1}
           /\ files'[d][Len(files[d]) + 1] = b
           /\ \A e \in Datasets \ {d} : files'[e] = files[e]
  <1>1. files'[d] = Append(files[d], b) /\ \A e \in Datasets \ {d} : files'[e] = files[e]
    OBVIOUS
  <1>2. \A e \in Datasets :
          /\ files[e] \in Seq(Filed)
          /\ Len(files[e]) \in Nat /\ DOMAIN files[e] = 1 .. Len(files[e])
    OBVIOUS
  <1>3. /\ Append(files[d], b) \in Seq(Filed)
        /\ Len(Append(files[d], b)) = Len(files[d]) + 1
        /\ DOMAIN Append(files[d], b) = 1 .. Len(files[d]) + 1
        /\ \A n \in 1 .. Len(files[d]) : Append(files[d], b)[n] = files[d][n]
        /\ Append(files[d], b)[Len(files[d]) + 1] = b
    BY <1>2
  <1>4. files' \in [Datasets -> Seq(Filed)]
    BY <1>1, <1>2, <1>3
  <1>5. Append(files[d], b) # <<>>
    BY <1>2, <1>3
  <1> QED
    BY <1>1, <1>2, <1>3, <1>4, <1>5

\* The files of an item hold versions of it.
LEMMA StoredType ==
    ASSUME TypeOK, NEW i \in Items
    PROVE  /\ Stored(i) \subseteq 1 .. MaxVersion
           /\ \A n \in DOMAIN files[DatasetOf(i)] :
                i \in DOMAIN files[DatasetOf(i)][n] =>
                    files[DatasetOf(i)][n][i] \in Stored(i)
  <1>1. files[DatasetOf(i)] \in Seq(Batches \ {NoRows})
    BY RequestFacts DEF TypeOK
  <1>2. \A n \in DOMAIN files[DatasetOf(i)] : files[DatasetOf(i)][n] \in Batches
    BY <1>1
  <1>3. \A b \in Batches : i \in DOMAIN b => b[i] \in 1 .. MaxVersion
    BY BatchType
  <1> QED
    BY <1>2, <1>3 DEF Stored, Range

\* A snapshot taken of the files, and what it covers.
LEMMA CreateSnapshotType ==
    ASSUME TypeOK, CreateSnapshot
    PROVE  /\ snapshot' \in Snapshots
           /\ snapshot'.published = {}
           /\ \A i \in Items : Stored(i) # {} =>
                i \in DOMAIN snapshot'.rows \cup snapshot'.clashes
  <1> DEFINE clashes == {i \in Items : \E v, w \in Stored(i) : v # w}
             single == {i \in Items : Stored(i) # {}} \ clashes
             table == [i \in single |-> CHOOSE v \in Stored(i) : TRUE]
  <1>1. snapshot' = [rows |-> table, clashes |-> clashes, sources |-> listed,
                     published |-> {}, recorded |-> FALSE]
    BY DEF CreateSnapshot
  <1>2. \A i \in single : (CHOOSE v \in Stored(i) : TRUE) \in Stored(i)
    OBVIOUS
  <1>3. \A i \in single : table[i] \in 1 .. MaxVersion
    BY <1>2, StoredType
  <1>4. table \in Batches
    <2>1. table \in [single -> 1 .. MaxVersion] /\ DOMAIN table = single
      BY <1>3
    <2> HIDE DEF table
    <2> QED
      BY <2>1, BatchType
  <1>5. clashes \subseteq Items /\ listed \subseteq Datasets \X Nat
    BY DEF TypeOK
  <1>6. snapshot' \in Snapshots
    <2> HIDE DEF table, clashes
    <2> QED
      BY <1>1, <1>4, <1>5 DEF Snapshots
  <1>7. \A i \in Items : Stored(i) # {} => i \in DOMAIN table \cup clashes
    OBVIOUS
  <1> HIDE DEF table, clashes
  <1> QED
    BY <1>1, <1>6, <1>7

-----------------------------------------------------------------------------
(* Requests *)

\* Whatever a request does, if each of its items waits with its rows or has
\* failed, the call goes on consistently.
LEMMA Proceeding ==
    ASSUME IInv, NEW n \in DOMAIN Requests, pc = "fetch", at = n,
           NEW waiting \in Batches, NEW keyed \in SUBSET Items,
           DOMAIN waiting \subseteq keyed, keys \subseteq keyed,
           keyed \subseteq keys \cup Todo(n),
           \A i \in keyed : offered[i] > 0 => i \in DOMAIN waiting,
           \A i \in Todo(n) : i \in keyed \/ Known(i)',
           \A i \in Items : Known(i) => Known(i)',
           Proceed(n, waiting, keyed), at' = n + 1,
           UNCHANGED <<offered, run, done, listed, snapshot, files, deaths>>
    PROVE  Consistent'
  <1>1. /\ n \in 1 .. Len(Requests) /\ Len(Requests) \in Nat
        /\ at' > 1 /\ at' - 1 = n /\ Waiting' = Requests[n].dataset
    BY RequestFacts DEF Waiting
  <1>2. \A i \in Todo(n) : DatasetOf(i) = Requests[n].dataset /\ i \in Items \ done
    BY RequestFacts DEF Todo
  <1>3. \A i \in keyed : DatasetOf(i) = Requests[n].dataset /\ i \notin done
    <2>1. \A i \in keys : DatasetOf(i) = Requests[n].dataset /\ i \notin done
      BY DEF IInv, Consistent, CallConsistent, RowsConsistent
    <2> QED
      BY <1>2, <2>1
  <1>4. /\ pc' \in {"write", "fetch"} /\ keys' \subseteq keyed
        /\ DOMAIN rows' \subseteq keys'
        /\ \A i \in keys' : offered[i] > 0 => i \in DOMAIN rows'
        /\ pc' = "write" => rows' # NoRows
        /\ pc' = "fetch" /\ keys' # {} => MayWait(n)
        /\ \A i \in keyed : offered[i] > 0 => i \in keys'
    BY NoRowsFacts DEF Proceed
  <1>5. CallConsistent'
    BY <1>1, <1>3, <1>4 DEF IInv, Consistent, CallConsistent, Fetching, MayWait
  <1>6. RowsConsistent'
    BY <1>3, <1>4 DEF IInv, Consistent, RowsConsistent
  <1>7. PassedAreHandled'
    <2> SUFFICES ASSUME NEW m \in 1 .. n, NEW i \in Requests[m].items, offered[i] > 0
                 PROVE  Handled(i)'
      BY <1>1 DEF PassedAreHandled
    <2>1. i \in Items
      BY <1>1, RequestFacts
    <2>2. CASE m = n
      BY <1>4, <2>1, <2>2 DEF Todo, Handled
    <2>3. CASE m < n
      <3>1. Handled(i)
        BY <1>1, <2>3 DEF IInv, Consistent, PassedAreHandled, Fetching
      <3> QED
        BY <1>4, <2>1, <3>1 DEF Handled
    <2> QED
      BY <1>1, <2>2, <2>3
  <1>8. DoneIsStored'
    BY DEF IInv, Consistent, DoneIsStored, Registered, Rows
  <1>9. SnapshotConsistent'
    BY <1>4 DEF IInv, Consistent, CallConsistent, SnapshotConsistent, Closing, Fetching
  <1>10. CopiesConsistent'
    <2>1. \A i \in Items : Held(i)' <=> Held(i)
      BY <1>4 DEF Held
    <2> QED
      BY <2>1 DEF IInv, Consistent, CopiesConsistent, Copies
  <1> QED
    BY <1>5, <1>6, <1>7, <1>8, <1>9, <1>10 DEF Consistent

\* A request that is answered.
LEMMA Answering ==
    ASSUME IInv, NEW n \in DOMAIN Requests, Answered(n)
    PROVE  IInv'
  <1> DEFINE keyed == keys \cup Todo(n)
  <1>1. /\ pc = "fetch" /\ at = n /\ at' = n + 1
        /\ Proceed(n, Merged(n), keyed)
        /\ UNCHANGED <<offered, ledgers, files, answer, bounds>>
    BY DEF Answered, Merged
  <1>2. TypeOK
    BY DEF IInv
  <1>3. Merged(n) \in Batches /\ keyed \subseteq Items
    BY <1>2, MergedType DEF TypeOK
  <1>4. /\ DOMAIN Merged(n) \subseteq keyed
        /\ \A i \in keyed : offered[i] > 0 => i \in DOMAIN Merged(n)
    BY <1>1, <1>2, MergedType DEF IInv, Consistent, RowsConsistent
  <1> HIDE DEF keyed
  <1>5. keys \subseteq keyed /\ keyed \subseteq keys \cup Todo(n) /\ Todo(n) \subseteq keyed
    BY DEF keyed
  <1>6. \A i \in Items : Known(i) => Known(i)'
    BY <1>1 DEF Known
  <1>7. Consistent'
    BY <1>1, <1>3, <1>4, <1>5, <1>6, Proceeding
  <1>8. pc' \in {"write", "fetch"} /\ rows' \in Batches /\ keys' \subseteq Items
    BY <1>1, <1>3, ProceedType
  <1>9. n + 1 \in 1 .. Len(Requests) + 1
    BY RequestFacts
  <1>10. TypeOK'
    BY <1>1, <1>2, <1>8, <1>9 DEF TypeOK
  <1> QED
    BY <1>7, <1>10 DEF IInv

\* A request that fails.
LEMMA Failing ==
    ASSUME IInv, NEW n \in DOMAIN Requests,
           NEW status \in {"PENDING", "DEFERRED_RATE_LIMIT"}, Failed(n, status)
    PROVE  IInv'
  <1>1. /\ pc = "fetch" /\ at = n /\ at' = n + 1
        /\ Proceed(n, rows, keys)
        /\ ledger' = [i \in Items |-> IF i \in Todo(n) THEN status ELSE ledger[i]]
        /\ failures < MaxFailures /\ failures' = failures + 1
        /\ UNCHANGED <<offered, run, done, files, listed, snapshot, answer, deaths>>
    BY DEF Failed
  <1>2. TypeOK
    BY DEF IInv
  <1>3. rows \in Batches /\ keys \subseteq Items /\ Todo(n) \subseteq Items
    BY <1>2, MergedType DEF TypeOK
  <1>4. /\ DOMAIN rows \subseteq keys
        /\ \A i \in keys : offered[i] > 0 => i \in DOMAIN rows
    BY <1>1 DEF IInv, Consistent, RowsConsistent
  <1>5. \A i \in Todo(n) : Known(i)'
    BY <1>1, <1>3 DEF Known
  <1>6. \A i \in Items : Known(i) => Known(i)'
    BY <1>1 DEF Known
  <1>7. Consistent'
    BY <1>1, <1>3, <1>4, <1>5, <1>6, Proceeding
  <1>8. pc' \in {"write", "fetch"} /\ rows' \in Batches /\ keys' \subseteq Items
    BY <1>1, <1>3, ProceedType
  <1>9. n + 1 \in 1 .. Len(Requests) + 1 /\ failures + 1 \in 0 .. MaxFailures
    BY <1>1, <1>2, RequestFacts, BoundAssumption DEF TypeOK
  <1>10. ledger' \in [Items -> Failures]
    BY <1>1, <1>2 DEF TypeOK
  <1>11. TypeOK'
    BY <1>1, <1>2, <1>8, <1>9, <1>10 DEF TypeOK
  <1> QED
    BY <1>7, <1>11 DEF IInv

-----------------------------------------------------------------------------
(* A flush *)

\* The files an item is in can be counted.
LEMMA CopiesType ==
    ASSUME TypeOK, NEW i \in Items
    PROVE  IsFiniteSet(Copies(i)) /\ Cardinality(Copies(i)) \in Nat
  <1>1. files[DatasetOf(i)] \in Seq(Batches \ {NoRows})
    BY RequestFacts DEF TypeOK
  <1>2. Len(files[DatasetOf(i)]) \in Nat
        /\ DOMAIN files[DatasetOf(i)] = 1 .. Len(files[DatasetOf(i)])
    BY <1>1
  <1>3. IsFiniteSet(1 .. Len(files[DatasetOf(i)]))
    BY <1>2, FS_Interval
  <1>4. Copies(i) \in SUBSET (1 .. Len(files[DatasetOf(i)]))
    BY <1>2 DEF Copies
  <1> QED
    BY <1>3, <1>4, FS_Subset, FS_CardinalityType

\* One more element counts at most one more.
LEMMA OneMore ==
    ASSUME NEW S, NEW x, IsFiniteSet(S), Cardinality(S) \in Nat
    PROVE  Cardinality(S \cup {x}) \in Nat /\ Cardinality(S \cup {x}) <= Cardinality(S) + 1
  BY FS_AddElement

\* The rows that wait are written to a new file.
LEMMA Writing ==
    ASSUME IInv, WriteBatch
    PROVE  IInv'
  <1> DEFINE d == Waiting
  <1>1. /\ pc = "write" /\ pc' = "list"
        /\ files' = [files EXCEPT ![d] = Append(@, rows)]
        /\ UNCHANGED <<offered, ledgers, answer, at, rows, keys, bounds>>
    BY DEF WriteBatch, Waiting
  <1>2. /\ TypeOK /\ CallConsistent /\ RowsConsistent /\ PassedAreHandled
        /\ DoneIsStored /\ SnapshotConsistent /\ CopiesConsistent
    BY DEF IInv, Consistent
  <1>3. at > 1 /\ at \in 1 .. Len(Requests) + 1 /\ run = "RUNNING"
    BY <1>1, <1>2 DEF CallConsistent, TypeOK
  <1>4. at - 1 \in DOMAIN Requests
    BY <1>3, RequestFacts
  <1>5. d \in Datasets /\ rows \in Filed
    BY <1>1, <1>2, <1>4, RequestFacts DEF Waiting, RowsConsistent, TypeOK, Filed
  <1>6. files \in [Datasets -> Seq(Filed)]
    BY <1>2 DEF TypeOK, Filed
  <1> HIDE DEF d
  <1>7. /\ files' \in [Datasets -> Seq(Filed)]
        /\ \A e \in Datasets :
             /\ DOMAIN files[e] \subseteq DOMAIN files'[e]
             /\ \A n \in DOMAIN files[e] : files'[e][n] = files[e][n]
        /\ files'[d] # <<>> /\ files'[d][Len(files'[d])] = rows
        /\ DOMAIN files'[d] = DOMAIN files[d] \cup {Len(files[d]) + 1}
        /\ files'[d][Len(files[d]) + 1] = rows
        /\ \A e \in Datasets \ {d} : files'[e] = files[e]
    BY <1>1, <1>5, <1>6, AppendType
  <1>8. TypeOK'
    BY <1>1, <1>2, <1>7 DEF TypeOK, Filed
  <1>9. Waiting' = Waiting
    BY <1>1 DEF Waiting
  <1>10. CallConsistent'
    BY <1>1, <1>2, <1>9 DEF CallConsistent, Fetching
  <1>11. \A f \in listed :
           /\ f[1] \in Datasets /\ f[2] \in DOMAIN files[f[1]]
           /\ f[2] \in DOMAIN files'[f[1]] /\ Rows(f)' = Rows(f)
    <2>1. \A f \in listed : f[1] \in Datasets /\ f[2] \in DOMAIN files[f[1]]
      BY <1>2 DEF TypeOK, RowsConsistent
    <2> QED
      BY <1>7, <2>1 DEF Rows
  <1>12. RowsConsistent'
    <2>1. files'[Waiting'] # <<>> /\ files'[Waiting'][Len(files'[Waiting'])] = rows
      BY <1>7, <1>9 DEF d
    <2>2. \A f \in listed : f[2] \in DOMAIN files'[f[1]]
      BY <1>11
    <2> QED
      BY <1>1, <1>2, <2>1, <2>2 DEF RowsConsistent
  <1>13. PassedAreHandled'
    BY <1>1, <1>2 DEF PassedAreHandled, Fetching, Handled, Known
  <1>14. DoneIsStored'
    <2>1. \A i \in Items : Registered(i) => Registered(i)'
      BY <1>1, <1>11 DEF Registered
    <2> QED
      BY <1>1, <1>2, <2>1 DEF DoneIsStored, TypeOK
  <1>15. SnapshotConsistent'
    BY <1>1, <1>3 DEF SnapshotConsistent, Closing
  <1>16. CopiesConsistent'
    <2> SUFFICES ASSUME NEW i \in Items
                 PROVE  Cardinality(Copies(i)') <= deaths + IF Held(i)' THEN 1 ELSE 0
      BY <1>1 DEF CopiesConsistent
    <2>1. DatasetOf(i) \in Datasets /\ deaths \in Nat
      BY <1>2, RequestFacts DEF TypeOK
    <2>2. IsFiniteSet(Copies(i)) /\ Cardinality(Copies(i)) \in Nat
      BY <1>2, CopiesType
    <2>3. Cardinality(Copies(i)) <= deaths + IF Held(i) THEN 1 ELSE 0
      BY <1>2 DEF CopiesConsistent
    <2>4. Held(i) => Held(i)'
      BY <1>1 DEF Held
    <2>5. CASE DatasetOf(i) # d \/ i \notin DOMAIN rows
      <3>1. Copies(i)' = Copies(i)
        <4>1. CASE DatasetOf(i) # d
          BY <1>7, <2>1, <4>1 DEF Copies
        <4>2. CASE DatasetOf(i) = d /\ i \notin DOMAIN rows
          BY <1>7, <2>1, <4>2 DEF Copies
        <4> QED
          BY <2>5, <4>1, <4>2
      <3> QED
        BY <2>1, <2>2, <2>3, <2>4, <3>1
    <2>6. CASE DatasetOf(i) = d /\ i \in DOMAIN rows
      <3>1. Copies(i)' = Copies(i) \cup {Len(files[d]) + 1}
        BY <1>7, <2>1, <2>6 DEF Copies
      <3>2. /\ Cardinality(Copies(i)') \in Nat
            /\ Cardinality(Copies(i)') <= Cardinality(Copies(i)) + 1
        <4> DEFINE copies == Copies(i)
        <4>1. IsFiniteSet(copies) /\ Cardinality(copies) \in Nat
          BY <2>2
        <4> HIDE DEF copies
        <4>2. /\ Cardinality(copies \cup {Len(files[d]) + 1}) \in Nat
              /\ Cardinality(copies \cup {Len(files[d]) + 1}) <= Cardinality(copies) + 1
          BY <4>1, OneMore
        <4> QED
          BY <3>1, <4>2 DEF copies
      <3>3. i \in keys /\ ~Held(i) /\ Held(i)'
        BY <1>1, <1>2, <2>6 DEF RowsConsistent, Held
      <3> QED
        BY <2>1, <2>2, <2>3, <3>2, <3>3
    <2> QED
      BY <2>5, <2>6
  <1> QED
    BY <1>8, <1>10, <1>12, <1>13, <1>14, <1>15, <1>16 DEF IInv, Consistent

\* The new file is registered.
LEMMA Listing ==
    ASSUME IInv, ListFile
    PROVE  IInv'
  <1>1. /\ pc = "list" /\ pc' = "mark" /\ rows' = NoRows
        /\ listed' = listed \cup {<<Waiting, Len(files[Waiting])>>}
        /\ UNCHANGED <<offered, run, done, ledger, snapshot, files, answer, at, keys, bounds>>
    BY DEF ListFile, Waiting
  <1>2. /\ TypeOK /\ CallConsistent /\ RowsConsistent /\ PassedAreHandled
        /\ DoneIsStored /\ SnapshotConsistent /\ CopiesConsistent
    BY DEF IInv, Consistent
  <1>3. at - 1 \in DOMAIN Requests /\ run = "RUNNING"
    BY <1>1, <1>2, RequestFacts DEF CallConsistent, TypeOK
  <1>4. Waiting \in Datasets /\ files[Waiting] \in Seq(Batches \ {NoRows})
    BY <1>2, <1>3, RequestFacts DEF Waiting, TypeOK
  <1>5. /\ Len(files[Waiting]) \in Nat
        /\ Len(files[Waiting]) \in DOMAIN files[Waiting]
        /\ files[Waiting][Len(files[Waiting])] = rows
    <2>1. files[Waiting] # <<>> /\ files[Waiting][Len(files[Waiting])] = rows
      BY <1>1, <1>2 DEF RowsConsistent
    <2> QED
      BY <1>4, <2>1
  <1>6. TypeOK'
    BY <1>1, <1>2, <1>4, <1>5, NoRowsFacts DEF TypeOK
  <1>7. CallConsistent'
    BY <1>1, <1>2 DEF CallConsistent, Fetching, Waiting
  <1>8. \A i \in Items : Registered(i) => Registered(i)'
    BY <1>1 DEF Registered, Rows
  <1>9. \A i \in keys : offered[i] > 0 => Registered(i)'
    <2> SUFFICES ASSUME NEW i \in keys, offered[i] > 0
                 PROVE  Registered(i)'
      OBVIOUS
    <2>1. DatasetOf(i) = Waiting /\ i \in DOMAIN rows
      BY <1>1, <1>2 DEF CallConsistent, RowsConsistent
    <2>2. <<Waiting, Len(files[Waiting])>> \in listed'
      BY <1>1
    <2> QED
      BY <1>1, <1>5, <2>1, <2>2 DEF Registered, Rows
  <1>10. RowsConsistent'
    <2>1. \A f \in listed' : f[2] \in DOMAIN files'[f[1]]
      BY <1>1, <1>2, <1>5 DEF RowsConsistent
    <2> QED
      BY <1>1, <1>9, <2>1, NoRowsFacts DEF RowsConsistent
  <1>11. PassedAreHandled'
    BY <1>1, <1>2 DEF PassedAreHandled, Fetching, Handled, Known
  <1>12. DoneIsStored'
    BY <1>1, <1>2, <1>8 DEF DoneIsStored, TypeOK
  <1>13. SnapshotConsistent'
    BY <1>1, <1>3 DEF SnapshotConsistent, Closing
  <1>14. CopiesConsistent'
    BY <1>1, <1>2 DEF CopiesConsistent, Copies, Held
  <1> QED
    BY <1>6, <1>7, <1>10, <1>11, <1>12, <1>13, <1>14 DEF IInv, Consistent

\* An item is COMPLETED.
LEMMA Marking ==
    ASSUME IInv, NEW i \in Items, Mark(i)
    PROVE  IInv'
  <1>1. /\ pc = "mark" /\ pc' = "resolve" /\ i \in keys
        /\ done' = done \cup {i}
        /\ UNCHANGED <<offered, run, ledger, listed, snapshot, files, answer, at, rows,
                       keys, bounds>>
    BY DEF Mark
  <1>2. /\ TypeOK /\ CallConsistent /\ RowsConsistent /\ PassedAreHandled
        /\ DoneIsStored /\ SnapshotConsistent /\ CopiesConsistent
    BY DEF IInv, Consistent
  <1>3. TypeOK'
    BY <1>1, <1>2 DEF TypeOK
  <1>4. CallConsistent'
    BY <1>1, <1>2 DEF CallConsistent, Fetching, Waiting
  <1>5. RowsConsistent'
    BY <1>1, <1>2 DEF RowsConsistent, Registered, Rows
  <1>6. PassedAreHandled'
    BY <1>1, <1>2 DEF PassedAreHandled, Fetching, Handled, Known
  <1>7. DoneIsStored'
    BY <1>1, <1>2 DEF DoneIsStored, RowsConsistent, Registered, Rows
  <1>8. SnapshotConsistent'
    BY <1>1, <1>2 DEF SnapshotConsistent, CallConsistent, Closing
  <1>9. CopiesConsistent'
    <2>1. \A j \in Items : Held(j)' <=> Held(j)
      BY <1>1 DEF Held
    <2> QED
      BY <1>1, <1>2, <2>1 DEF CopiesConsistent, Copies
  <1> QED
    BY <1>3, <1>4, <1>5, <1>6, <1>7, <1>8, <1>9 DEF IInv, Consistent

\* The failures recorded under its code are resolved.
LEMMA Resolving ==
    ASSUME IInv, NEW i \in Items, Resolve(i)
    PROVE  IInv'
  <1>1. /\ pc = "resolve" /\ pc' \in {"fetch", "mark"} /\ i \in keys /\ i \in done
        /\ pc' = "fetch" => keys' = {}
        /\ keys' = keys \ {i}
        /\ ledger' \in {ledger, [ledger EXCEPT ![i] = "RESOLVED"]}
        /\ UNCHANGED <<offered, run, done, listed, snapshot, files, answer, at, rows, bounds>>
    BY DEF Resolve
  <1>2. /\ TypeOK /\ CallConsistent /\ RowsConsistent /\ PassedAreHandled
        /\ DoneIsStored /\ SnapshotConsistent /\ CopiesConsistent
    BY DEF IInv, Consistent
  <1>3. TypeOK'
    BY <1>1, <1>2 DEF TypeOK
  <1>4. CallConsistent'
    BY <1>1, <1>2 DEF CallConsistent, Fetching, Waiting
  <1>5. RowsConsistent'
    BY <1>1, <1>2, NoRowsFacts DEF RowsConsistent, Registered, Rows
  <1>6. PassedAreHandled'
    <2>1. \A j \in Items : Handled(j) => Handled(j)'
      BY <1>1, <1>2 DEF Handled, Known, TypeOK
    <2>2. \A m \in 1 .. at - 1 : Requests[m].items \subseteq Items
      <3>1. at \in 1 .. Len(Requests) + 1
        BY <1>2 DEF TypeOK
      <3>2. 1 .. at - 1 \subseteq DOMAIN Requests
        BY <3>1, RequestFacts
      <3> QED
        BY <3>2, RequestFacts
    <2> QED
      BY <1>1, <1>2, <2>1, <2>2 DEF PassedAreHandled, Fetching
  <1>7. DoneIsStored'
    BY <1>1, <1>2 DEF DoneIsStored, Registered, Rows
  <1>8. SnapshotConsistent'
    BY <1>1, <1>2 DEF SnapshotConsistent, CallConsistent, Closing
  <1>9. CopiesConsistent'
    <2>1. \A j \in Items : Held(j) => Held(j)'
      BY <1>1 DEF Held
    <2>2. \A j \in Items : Cardinality(Copies(j)) \in Nat
      BY <1>2, CopiesType
    <2> QED
      BY <1>1, <1>2, <2>1, <2>2 DEF CopiesConsistent, Copies, TypeOK
  <1> QED
    BY <1>3, <1>4, <1>5, <1>6, <1>7, <1>8, <1>9 DEF IInv, Consistent

-----------------------------------------------------------------------------
(* The start and the end of a call *)

\* A step that keeps what is stored keeps what is said of the files.
LEMMA FilesKept ==
    ASSUME IInv, UNCHANGED <<done, listed, files>>, deaths' \in Nat,
           \A i \in Items : (offered'[i] > 0) => offered[i] > 0
    PROVE  /\ DoneIsStored'
           /\ \A f \in listed' : f[2] \in DOMAIN files'[f[1]]
           /\ (\A i \in Items : Held(i) => deaths < deaths' \/ Held(i)') /\ deaths <= deaths'
                => CopiesConsistent'
  <1>1. TypeOK /\ RowsConsistent /\ DoneIsStored /\ CopiesConsistent
    BY DEF IInv, Consistent
  <1>2. DoneIsStored'
    BY <1>1 DEF DoneIsStored, Registered, Rows, TypeOK
  <1>3. \A f \in listed' : f[2] \in DOMAIN files'[f[1]]
    BY <1>1 DEF RowsConsistent
  <1>4. ASSUME \A i \in Items : Held(i) => deaths < deaths' \/ Held(i)', deaths <= deaths',
               NEW i \in Items
        PROVE  Cardinality(Copies(i)') <= deaths' + IF Held(i)' THEN 1 ELSE 0
    <2>1. Copies(i)' = Copies(i)
      BY DEF Copies
    <2>2. Cardinality(Copies(i)) \in Nat /\ deaths \in Nat
      BY <1>1, CopiesType DEF TypeOK
    <2>3. Cardinality(Copies(i)) <= deaths + IF Held(i) THEN 1 ELSE 0
      BY <1>1 DEF CopiesConsistent
    <2> QED
      BY <1>4, <2>1, <2>2, <2>3
  <1> QED
    BY <1>2, <1>3, <1>4 DEF CopiesConsistent

\* A call begins.
LEMMA Beginning ==
    ASSUME IInv, NEW force \in BOOLEAN, Begin(force)
    PROVE  IInv'
  <1>1. /\ pc = "idle" /\ run' = "RUNNING" /\ answer' = "none"
        /\ pc' = "fetch" /\ at' = 1 /\ rows' = NoRows /\ keys' = {}
        /\ UNCHANGED <<offered, done, ledger, files, listed, snapshot, bounds>>
    BY DEF Begin
  <1>2. TypeOK
    BY DEF IInv
  <1>3. TypeOK'
    BY <1>1, <1>2, RequestFacts, NoRowsFacts DEF TypeOK
  <1>4. CallConsistent' /\ PassedAreHandled' /\ SnapshotConsistent'
    BY <1>1 DEF CallConsistent, PassedAreHandled, SnapshotConsistent, Fetching, Closing
  <1>5. /\ DoneIsStored' /\ CopiesConsistent'
        /\ \A f \in listed' : f[2] \in DOMAIN files'[f[1]]
    BY <1>1, <1>2, FilesKept DEF TypeOK, Held
  <1>6. RowsConsistent'
    BY <1>1, <1>5, NoRowsFacts DEF RowsConsistent
  <1> QED
    BY <1>3, <1>4, <1>5, <1>6 DEF IInv, Consistent

\* A call that is over, for whatever reason but its completion.
LEMMA Dying ==
    ASSUME IInv, Die
    PROVE  IInv'
  <1>1. /\ pc # "idle" /\ run' \in {run, "FAILED"} /\ deaths < MaxDeaths
        /\ pc' = "idle" /\ at' = 1 /\ rows' = NoRows /\ keys' = {}
        /\ deaths' = deaths + 1
        /\ UNCHANGED <<offered, done, ledger, listed, snapshot, files, answer, failures>>
    BY DEF Die
  <1>2. TypeOK /\ run = "RUNNING"
    BY <1>1 DEF IInv, Consistent, CallConsistent
  <1>3. deaths \in Nat /\ deaths + 1 \in 0 .. MaxDeaths
    BY <1>1, <1>2, BoundAssumption DEF TypeOK
  <1>4. TypeOK'
    BY <1>1, <1>2, <1>3, RequestFacts, NoRowsFacts DEF TypeOK
  <1>5. CallConsistent' /\ PassedAreHandled' /\ SnapshotConsistent'
    BY <1>1, <1>2 DEF CallConsistent, PassedAreHandled, SnapshotConsistent, Fetching, Closing
  <1>6. /\ DoneIsStored' /\ CopiesConsistent'
        /\ \A f \in listed' : f[2] \in DOMAIN files'[f[1]]
    BY <1>1, <1>3, FilesKept
  <1>7. RowsConsistent'
    BY <1>1, <1>6, NoRowsFacts DEF RowsConsistent
  <1> QED
    BY <1>4, <1>5, <1>6, <1>7 DEF IInv, Consistent

\* So is one that is over while it records a failure.
LEMMA DyingInFailure ==
    ASSUME IInv, NEW n \in DOMAIN Requests, NEW status \in {"PENDING", "DEFERRED_RATE_LIMIT"},
           DieFailing(n, status)
    PROVE  IInv'
  <1>1. /\ pc = "fetch" /\ run' \in {run, "FAILED"}
        /\ failures < MaxFailures /\ deaths < MaxDeaths
        /\ pc' = "idle" /\ at' = 1 /\ rows' = NoRows /\ keys' = {}
        /\ failures' = failures + 1 /\ deaths' = deaths + 1
        /\ UNCHANGED <<offered, done, listed, snapshot, files, answer>>
    BY DEF DieFailing
  <1>2. TypeOK /\ run = "RUNNING"
    BY <1>1 DEF IInv, Consistent, CallConsistent
  <1>3. /\ deaths \in Nat /\ deaths + 1 \in 0 .. MaxDeaths
        /\ failures + 1 \in 0 .. MaxFailures
    BY <1>1, <1>2, BoundAssumption DEF TypeOK
  <1>4. ledger' \in [Items -> Failures]
    BY <1>2 DEF DieFailing, TypeOK, Failures
  <1>5. TypeOK'
    BY <1>1, <1>2, <1>3, <1>4, RequestFacts, NoRowsFacts DEF TypeOK
  <1>6. CallConsistent' /\ PassedAreHandled' /\ SnapshotConsistent'
    BY <1>1, <1>2 DEF CallConsistent, PassedAreHandled, SnapshotConsistent, Fetching, Closing
  <1>7. /\ DoneIsStored' /\ CopiesConsistent'
        /\ \A f \in listed' : f[2] \in DOMAIN files'[f[1]]
    BY <1>1, <1>3, FilesKept
  <1>8. RowsConsistent'
    BY <1>1, <1>7, NoRowsFacts DEF RowsConsistent
  <1> QED
    BY <1>5, <1>6, <1>7, <1>8 DEF IInv, Consistent

\* The snapshot of a call covers what it has passed by.
LEMMA Snapshotting ==
    ASSUME IInv, CreateSnapshot
    PROVE  IInv'
  <1>1. /\ pc = "fetch" /\ at = Len(Requests) + 1 /\ pc' = "publish"
        /\ UNCHANGED <<offered, run, done, ledger, listed, files, answer, at, rows,
                       keys, bounds>>
    BY DEF CreateSnapshot
  <1>2. /\ TypeOK /\ CallConsistent /\ RowsConsistent /\ PassedAreHandled /\ DoneIsStored
        /\ run = "RUNNING"
    BY <1>1 DEF IInv, Consistent, CallConsistent
  <1>3. /\ snapshot' \in Snapshots /\ snapshot'.published = {}
        /\ \A i \in Items : Stored(i) # {} =>
             i \in DOMAIN snapshot'.rows \cup snapshot'.clashes
    BY <1>2, CreateSnapshotType
  <1>4. keys = {}
    BY <1>1, <1>2, RequestFacts DEF CallConsistent
  <1>5. TypeOK'
    BY <1>1, <1>2, <1>3 DEF TypeOK
  <1>6. CallConsistent' /\ PassedAreHandled'
    BY <1>1, <1>2, <1>4 DEF CallConsistent, PassedAreHandled, Fetching, Waiting
  <1>7. ASSUME NEW i \in Items, offered[i] > 0
        PROVE  i \in DOMAIN snapshot'.rows \cup snapshot'.clashes \/ Known(i)
    <2>1. RequestOf(i) \in 1 .. at - 1 /\ i \in Requests[RequestOf(i)].items
      BY <1>1, RequestFacts
    <2>2. i \in done \/ Known(i)
      BY <1>1, <1>2, <1>4, <1>7, <2>1 DEF PassedAreHandled, Handled, Fetching
    <2>3. CASE i \in done
      <3>1. PICK f \in listed : f[1] = DatasetOf(i) /\ i \in DOMAIN Rows(f)
        BY <1>2, <1>7, <2>3 DEF DoneIsStored, Registered
      <3>2. f[2] \in DOMAIN files[DatasetOf(i)] /\ i \in DOMAIN files[DatasetOf(i)][f[2]]
        BY <1>2, <3>1 DEF RowsConsistent, Rows
      <3>3. Stored(i) # {}
        BY <1>2, <3>2, StoredType
      <3> QED
        BY <1>3, <3>3
    <2> QED
      BY <2>2, <2>3
  <1>8. SnapshotConsistent'
    BY <1>1, <1>2, <1>3, <1>7 DEF SnapshotConsistent, Closing, Known
  <1>9. RowsConsistent'
    BY <1>1, <1>2, <1>4 DEF RowsConsistent
  <1>10. DoneIsStored' /\ CopiesConsistent'
    BY <1>1, <1>2, FilesKept DEF TypeOK, Held
  <1> QED
    BY <1>5, <1>6, <1>8, <1>9, <1>10 DEF IInv, Consistent

\* The publications, the records and the status of the run.
LEMMA Closes ==
    ASSUME IInv, RecordResults \/ Finish \/ \E dataset \in Publications : Publish(dataset)
    PROVE  IInv'
  <1>1. /\ TypeOK /\ CallConsistent /\ RowsConsistent /\ PassedAreHandled
        /\ pc \in Closing /\ run = "RUNNING" /\ keys = {} /\ SnapshotConsistent
    BY DEF IInv, Consistent, CallConsistent, RecordResults, Finish, Publish, Closing, Fetching
  <1>2. /\ snapshot \in Snapshots
        /\ \A i \in Items :
             offered[i] > 0 => i \in DOMAIN snapshot.rows \cup snapshot.clashes \/ Known(i)
        /\ pc = "publish" => snapshot.published \in {{}, {"daily_bars"}}
        /\ pc # "publish" => snapshot.published = Publications
        /\ pc \notin {"publish", "record"} => snapshot.recorded
    BY <1>1 DEF SnapshotConsistent
  <1>3. UNCHANGED <<offered, done, ledger, listed, files, bounds>>
    BY DEF RecordResults, Finish, Publish
  <1>4. /\ DoneIsStored' /\ CopiesConsistent'
        /\ \A f \in listed' : f[2] \in DOMAIN files'[f[1]]
    <2>1. \A i \in Items : Held(i) => Held(i)'
      BY <1>1, <1>3 DEF Held
    <2> QED
      BY <1>1, <1>3, <2>1, FilesKept DEF TypeOK
  <1>5. ASSUME NEW dataset \in Publications, Publish(dataset)
        PROVE  IInv'
    <2>1. /\ pc = "publish" /\ pc' \in {"publish", "record"}
          /\ snapshot' = [snapshot EXCEPT !.published = @ \cup {dataset}]
          /\ UNCHANGED <<run, answer, at, rows, keys>>
      BY <1>5 DEF Publish
    <2>2. /\ snapshot' \in Snapshots
          /\ snapshot'.rows = snapshot.rows /\ snapshot'.clashes = snapshot.clashes
          /\ snapshot'.published = snapshot.published \cup {dataset}
      BY <1>2, <2>1 DEF Snapshots
    <2>3. /\ pc' = "publish" => snapshot'.published = {"daily_bars"}
          /\ pc' = "record" => snapshot'.published = Publications
      BY <1>2, <1>5, <2>1, <2>2 DEF Publish
    <2>4. TypeOK'
      BY <1>1, <1>3, <2>1, <2>2 DEF TypeOK
    <2>5. CallConsistent' /\ PassedAreHandled'
      BY <1>1, <2>1 DEF CallConsistent, PassedAreHandled, Fetching, Closing
    <2>6. SnapshotConsistent'
      BY <1>1, <1>2, <1>3, <2>1, <2>2, <2>3 DEF SnapshotConsistent, Closing, Known
    <2>7. RowsConsistent'
      BY <1>1, <1>4, <2>1 DEF RowsConsistent
    <2> QED
      BY <1>4, <2>4, <2>5, <2>6, <2>7 DEF IInv, Consistent
  <1>6. CASE RecordResults
    <2>1. /\ pc = "record" /\ pc' = "finish"
          /\ snapshot' = [snapshot EXCEPT !.recorded = TRUE]
          /\ UNCHANGED <<run, answer, at, rows, keys>>
      BY <1>6 DEF RecordResults
    <2>2. /\ snapshot' \in Snapshots /\ snapshot'.recorded
          /\ snapshot'.rows = snapshot.rows /\ snapshot'.clashes = snapshot.clashes
          /\ snapshot'.published = snapshot.published
      BY <1>2, <2>1 DEF Snapshots
    <2>3. TypeOK'
      BY <1>1, <1>3, <2>1, <2>2 DEF TypeOK
    <2>4. CallConsistent' /\ PassedAreHandled'
      BY <1>1, <2>1 DEF CallConsistent, PassedAreHandled, Fetching, Closing
    <2>5. SnapshotConsistent'
      BY <1>1, <1>2, <1>3, <2>1, <2>2 DEF SnapshotConsistent, Closing, Known
    <2>6. RowsConsistent'
      BY <1>1, <1>4, <2>1 DEF RowsConsistent
    <2> QED
      BY <1>4, <2>3, <2>4, <2>5, <2>6 DEF IInv, Consistent
  <1>7. CASE Finish
    <2>1. /\ pc = "finish" /\ pc' = "idle" /\ run' = "COMPLETED" /\ answer' = "built"
          /\ at' = 1 /\ rows' = NoRows /\ keys' = {}
          /\ UNCHANGED snapshot
      BY <1>7 DEF Finish
    <2>2. TypeOK'
      BY <1>1, <1>3, <2>1, RequestFacts, NoRowsFacts DEF TypeOK
    <2>3. CallConsistent' /\ PassedAreHandled'
      BY <2>1 DEF CallConsistent, PassedAreHandled, Fetching
    <2>4. SnapshotConsistent'
      BY <1>1, <1>2, <1>3, <2>1 DEF SnapshotConsistent, Closing, Known
    <2>5. RowsConsistent'
      BY <1>4, <2>1, NoRowsFacts DEF RowsConsistent
    <2> QED
      BY <1>4, <2>2, <2>3, <2>4, <2>5 DEF IInv, Consistent
  <1> QED
    BY <1>5, <1>6, <1>7

-----------------------------------------------------------------------------
(* The invariant *)

\* A provider's correction changes what is offered and nothing that is kept.
LEMMA Revising ==
    ASSUME IInv, NEW i \in Items, Revise(i)
    PROVE  IInv'
  <1>1. /\ offered[i] \in 1 .. MaxVersion - 1
        /\ offered' = [offered EXCEPT ![i] = @ + 1]
        /\ UNCHANGED <<ledgers, files, answer, call, bounds>>
    BY DEF Revise
  <1>2. /\ TypeOK /\ CallConsistent /\ RowsConsistent /\ PassedAreHandled
        /\ SnapshotConsistent
    BY DEF IInv, Consistent
  <1>3. /\ offered' \in [Items -> Versions]
        /\ \A j \in Items : offered'[j] > 0 <=> offered[j] > 0
    BY <1>1, <1>2, BoundAssumption DEF TypeOK
  <1>4. TypeOK'
    BY <1>1, <1>2, <1>3 DEF TypeOK
  <1>5. CallConsistent'
    BY <1>1, <1>2 DEF CallConsistent, Fetching, Waiting
  <1>6. RowsConsistent'
    BY <1>1, <1>2, <1>3 DEF RowsConsistent, Registered, Rows, Waiting, TypeOK
  <1>7. PassedAreHandled'
    <2>1. at \in 1 .. Len(Requests) + 1
      BY <1>2 DEF TypeOK
    <2>2. 1 .. at - 1 \subseteq DOMAIN Requests
      BY <2>1, RequestFacts
    <2>3. \A m \in 1 .. at - 1 : Requests[m].items \subseteq Items
      BY <2>2, RequestFacts
    <2> QED
      BY <1>1, <1>2, <1>3, <2>3 DEF PassedAreHandled, Handled, Known
  <1>8. SnapshotConsistent'
    BY <1>1, <1>2, <1>3 DEF SnapshotConsistent, Known
  <1>9. DoneIsStored' /\ CopiesConsistent'
    BY <1>1, <1>2, <1>3, FilesKept DEF TypeOK, Held
  <1> QED
    BY <1>4, <1>5, <1>6, <1>7, <1>8, <1>9 DEF IInv, Consistent

\* The empty registry is consistent.
LEMMA Initially == Init => IInv
  <1> SUFFICES ASSUME Init PROVE IInv
    OBVIOUS
  <1>1. TypeOK
    <2>1. offered \in [Items -> Versions]
      BY BoundAssumption DEF Init
    <2>2. files \in [Datasets -> Seq(Batches \ {NoRows})]
      BY DEF Init
    <2>3. at \in 1 .. Len(Requests) + 1 /\ failures \in 0 .. MaxFailures
          /\ deaths \in 0 .. MaxDeaths
      BY RequestFacts, BoundAssumption DEF Init
    <2> QED
      BY <2>1, <2>2, <2>3, NoRowsFacts DEF Init, TypeOK
  <1>2. CopiesConsistent
    <2> SUFFICES ASSUME NEW i \in Items
                 PROVE  Cardinality(Copies(i)) <= deaths + IF Held(i) THEN 1 ELSE 0
      BY DEF CopiesConsistent
    <2>1. Copies(i) = {}
      BY RequestFacts DEF Init, Copies
    <2> QED
      BY <2>1, FS_EmptySet DEF Init
  <1>3. CallConsistent /\ RowsConsistent /\ PassedAreHandled /\ DoneIsStored
        /\ SnapshotConsistent
    BY NoRowsFacts DEF Init, CallConsistent, RowsConsistent, PassedAreHandled,
       DoneIsStored, SnapshotConsistent, Fetching, Closing
  <1> QED
    BY <1>1, <1>2, <1>3 DEF IInv, Consistent

\* Every step of a call, of a provider or of nobody keeps the invariant.
LEMMA Inductive == IInv /\ [Next]_vars => IInv'
  <1> SUFFICES ASSUME IInv, [Next]_vars PROVE IInv'
    OBVIOUS
  <1>1. ASSUME NEW force \in BOOLEAN, Reuse(force) PROVE IInv'
    BY <1>1 DEF Reuse, IInv, TypeOK, Consistent, CallConsistent, RowsConsistent,
       PassedAreHandled, DoneIsStored, SnapshotConsistent, CopiesConsistent, Waiting,
       Registered, Rows, Handled, Known, Held, Copies
  <1>2. ASSUME NEW force \in BOOLEAN, Begin(force) PROVE IInv'
    BY <1>2, Beginning
  <1>3. ASSUME NEW n \in DOMAIN Requests, Answered(n) PROVE IInv'
    BY <1>3, Answering
  <1>4. ASSUME NEW n \in DOMAIN Requests, NEW status \in {"PENDING", "DEFERRED_RATE_LIMIT"},
               Failed(n, status)
        PROVE  IInv'
    BY <1>4, Failing
  <1>5. CASE WriteBatch
    BY <1>5, Writing
  <1>6. CASE ListFile
    BY <1>6, Listing
  <1>7. ASSUME NEW i \in Items, Mark(i) PROVE IInv'
    BY <1>7, Marking
  <1>8. ASSUME NEW i \in Items, Resolve(i) PROVE IInv'
    BY <1>8, Resolving
  <1>9. CASE CreateSnapshot
    BY <1>9, Snapshotting
  <1>10. CASE RecordResults \/ Finish \/ \E dataset \in Publications : Publish(dataset)
    BY <1>10, Closes
  <1>11. CASE Die
    BY <1>11, Dying
  <1>14. ASSUME NEW n \in DOMAIN Requests, NEW status \in {"PENDING", "DEFERRED_RATE_LIMIT"},
                DieFailing(n, status)
         PROVE  IInv'
    BY <1>14, DyingInFailure
  <1>12. ASSUME NEW i \in Items, Revise(i) PROVE IInv'
    BY <1>12, Revising
  <1>13. CASE UNCHANGED vars
    <2>1. UNCHANGED <<offered, ledgers, files, answer, call, bounds>>
      BY <1>13 DEF vars
    <2>2. TypeOK' /\ CallConsistent' /\ PassedAreHandled' /\ SnapshotConsistent'
      BY <2>1 DEF IInv, TypeOK, Consistent, CallConsistent, PassedAreHandled,
         SnapshotConsistent, Waiting, Handled, Known
    <2>3. RowsConsistent' /\ DoneIsStored' /\ CopiesConsistent'
      BY <2>1 DEF IInv, Consistent, RowsConsistent, DoneIsStored, CopiesConsistent,
         Waiting, Registered, Rows, Held, Copies
    <2> QED
      BY <2>2, <2>3 DEF IInv, Consistent
  <1> QED
    BY <1>1, <1>2, <1>3, <1>4, <1>5, <1>6, <1>7, <1>8, <1>9, <1>10, <1>11, <1>12, <1>13,
       <1>14 DEF Next, Step, Fetch

\* So it holds throughout.
LEMMA Invariance == Spec => []IInv
  BY Initially, Inductive, PTL DEF Spec

\* Every variable keeps its type: the tables, files and the place of the call.
THEOREM TypeCorrect == Spec => []TypeOK
  <1>1. IInv => TypeOK
    BY DEF IInv
  <1> QED
    BY <1>1, Invariance, PTL

\* An item marked COMPLETED, which fetch_rows never asks for again, has its
\* rows in a raw file that is registered, wherever calls died.
THEOREM ProgressIsStored == Spec => []DoneIsStored
  <1>1. IInv => DoneIsStored
    BY DEF IInv, Consistent
  <1> QED
    BY <1>1, Invariance, PTL

\* When _bootstrap_impl has completed the run, every item that has rows is in
\* its snapshot, quarantined by it, or recorded as a failure.
THEOREM RunIsAccounted == Spec => []Accounted
  <1>1. IInv => Accounted
    <2> SUFFICES ASSUME IInv, run = "COMPLETED" PROVE Accounted
      BY DEF Accounted
    <2>1. pc = "idle" /\ SnapshotConsistent
      BY DEF IInv, Consistent, CallConsistent
    <2>2. snapshot # None
      BY <2>1, NoneAssumption DEF SnapshotConsistent
    <2> QED
      BY <2>1, <2>2 DEF SnapshotConsistent, Accounted
  <1> QED
    BY <1>1, Invariance, PTL

\* An item is in more than one raw file only if calls died between writing the
\* file and marking the item.
THEOREM NothingFetchedTwice == Spec => []FetchedOnce
  <1>1. IInv => FetchedOnce
    <2> SUFFICES ASSUME IInv, NEW i \in Items
                 PROVE  Cardinality(Copies(i)) <= 1 + deaths
      BY DEF FetchedOnce
    <2>1. Cardinality(Copies(i)) \in Nat /\ deaths \in Nat
      BY CopiesType DEF IInv, TypeOK
    <2>2. Cardinality(Copies(i)) <= deaths + IF Held(i) THEN 1 ELSE 0
      BY DEF IInv, Consistent, CopiesConsistent
    <2> QED
      BY <2>1, <2>2
  <1> QED
    BY <1>1, Invariance, PTL

\* A resumed call appends raw files and never replaces or removes one.
THEOREM RawFilesKept == Spec => RawImmutable
  <1> DEFINE Kept == \A d \in Datasets : \A n \in DOMAIN files[d] :
                       n \in DOMAIN files'[d] /\ files'[d][n] = files[d][n]
  <1>1. IInv /\ [Next]_vars => [Kept]_vars
    <2> SUFFICES ASSUME IInv, Next PROVE Kept
      OBVIOUS
    <2>1. CASE WriteBatch
      <3>1. /\ files' = [files EXCEPT ![Waiting] = Append(@, rows)]
            /\ pc = "write"
        BY <2>1 DEF WriteBatch, Waiting
      <3>2. TypeOK /\ at - 1 \in DOMAIN Requests /\ rows # NoRows
        BY <3>1, RequestFacts DEF IInv, Consistent, CallConsistent, RowsConsistent, TypeOK
      <3>3. Waiting \in Datasets /\ rows \in Filed /\ files \in [Datasets -> Seq(Filed)]
        BY <3>2, RequestFacts DEF Waiting, Filed, TypeOK
      <3> QED
        BY <3>1, <3>3, AppendType
    <2>2. CASE UNCHANGED files
      BY <2>2
    <2>3. WriteBatch \/ UNCHANGED files
      BY DEF Next, Step, Fetch, Reuse, Begin, Answered, Failed, ListFile, Mark, Resolve,
         CreateSnapshot, Publish, RecordResults, Finish, Die, DieFailing, Revise
    <2> QED
      BY <2>1, <2>2, <2>3
  <1> QED
    BY <1>1, Invariance, PTL DEF Spec, RawImmutable
=============================================================================
