------------------------ MODULE FileDocumentsProofs ------------------------
(***************************************************************************)
(* What can be opened has its bytes, and a claimed key has one request     *)
(* behind it, for any number of uploads, keys and cleanup runs.            *)
(*                                                                         *)
(* The bytes are safe because the only thing that deletes them is a        *)
(* cleanup run of a document that is past return: PurgeIsPastReturn says   *)
(* that the document such a run holds is being deleted or gone, and        *)
(* WrittenIsStored that an upload about to publish has its object unless   *)
(* its document went that way meanwhile.                                   *)
(***************************************************************************)
EXTENDS FileDocuments, FiniteSetTheorems, TLAPS

PastReturn == {"deleting", "gone"}

PurgeIsPastReturn ==
    \A s \in Sweepers, u \in Uploads :
        sweep[s].at \in {"freeing", "freed"} /\ sweep[s].doc = u => doc[u] \in PastReturn

WrittenIsStored ==
    \A u \in Uploads : upload[u] = "written" => u \in objects \/ doc[u] \in PastReturn

\* A document exists from its reservation on, and a row that was reserved is
\* still there for the step that looks for it.
ReservedFirst ==
    \A u \in Uploads :
        /\ upload[u] \in {"new", "claimed", "allowed"} => doc[u] = "none" /\ version[u] = "none"
        /\ upload[u] \in {"reserved", "writing", "unwritten", "written"} => version[u] # "available"
        /\ doc[u] = "none" => version[u] = "none"

StoreInv ==
    TypeOK /\ PurgeIsPastReturn /\ WrittenIsStored /\ ReservedFirst /\ ReadableIsStored

LEMMA StoreStarts == Init => StoreInv
  BY DEF Init, StoreInv, TypeOK, PurgeIsPastReturn, WrittenIsStored, ReservedFirst,
         ReadableIsStored, Rest, Working, Ended, DocumentStatuses, VersionStatuses

\* What a step of an upload does to the state of that upload.
LEMMA StepMoves ==
    ASSUME TypeOK, NEW u \in Uploads,
           NEW from, NEW to \in Working \cup Ended \cup {"new"}, Step(u, from, to)
    PROVE  /\ upload' \in [Uploads -> Working \cup Ended \cup {"new"}]
           /\ upload[u] = from /\ upload'[u] = to
           /\ \A v \in Uploads \ {u} : upload'[v] = upload[v]
  BY DEF TypeOK, Step

LEMMA UploadKeepsTypes ==
    ASSUME TypeOK, NEW u \in Uploads, UploadStep(u) \/ Die(u)
    PROVE  TypeOK'
  <1> USE DEF TypeOK, Step, Working, Ended, DocumentStatuses, VersionStatuses
  <1>1. CASE Claim(u)
    <2>1. KeyOf[u] \in Keys
      BY FilesAssumption
    <2>2. claimed' \subseteq Keys
      BY <1>1, <2>1 DEF Claim
    <2>3. upload' \in [Uploads -> Working \cup Ended \cup {"new"}]
      BY <1>1 DEF Claim
    <2> QED
      BY <1>1, <2>2, <2>3 DEF Claim
  <1>2. CASE Replay(u) \/ Admit(u) \/ FindReserved(u)
    BY <1>2 DEF Replay, Admit, FindReserved
  <1>7. CASE Answer(u)
    BY <1>7 DEF Answer
  <1>8. CASE Release(u) \/ Die(u)
    BY <1>8 DEF Release, Die
  <1>3. CASE Reserve(u)
    BY <1>3 DEF Reserve
  <1>4. CASE Write(u) \/ WriteFails(u)
    BY <1>4 DEF Write, WriteFails
  <1>5. CASE FailVersion(u)
    BY <1>5 DEF FailVersion
  <1>6. CASE Publish(u)
    BY <1>6 DEF Publish
  <1> QED
    BY <1>1, <1>2, <1>3, <1>4, <1>5, <1>6, <1>7, <1>8 DEF UploadStep

\* A step of an upload that leaves its document, its version and the objects.
LEMMA QuietStep ==
    ASSUME StoreInv, NEW u \in Uploads, TypeOK', UNCHANGED <<doc, version, objects, sweep>>,
           \A v \in Uploads \ {u} : upload'[v] = upload[v],
           upload'[u] # "written",
           upload'[u] \in {"new", "claimed", "allowed"} => upload[u] \in {"new", "claimed", "allowed"},
           upload'[u] \in {"reserved", "writing", "unwritten"} => version[u] # "available"
    PROVE  StoreInv'
  <1>1. PurgeIsPastReturn' /\ ReadableIsStored'
    BY DEF StoreInv, PurgeIsPastReturn, ReadableIsStored
  <1>2. WrittenIsStored'
    BY DEF StoreInv, WrittenIsStored
  <1>3. ReservedFirst'
    BY DEF StoreInv, ReservedFirst
  <1> QED
    BY <1>1, <1>2, <1>3 DEF StoreInv

LEMMA UploadKeepsStore ==
    ASSUME StoreInv, NEW u \in Uploads, UploadStep(u) \/ Die(u)
    PROVE  StoreInv'
  <1>1. TypeOK'
    BY UploadKeepsTypes DEF StoreInv
  <1>2. CASE Claim(u) \/ Replay(u) \/ Admit(u) \/ FindReserved(u) \/ Answer(u) \/ Release(u) \/ Die(u)
    <2>1. UNCHANGED <<doc, version, objects, sweep>>
      BY <1>2 DEF Claim, Replay, Admit, FindReserved, Answer, Release, Die
    <2>2. /\ \A v \in Uploads \ {u} : upload'[v] = upload[v]
          /\ upload'[u] # "written"
          /\ upload'[u] \in {"new", "claimed", "allowed"} => upload[u] \in {"new", "claimed", "allowed"}
          /\ upload'[u] \in {"reserved", "writing", "unwritten"} => version[u] # "available"
      BY <1>2 DEF StoreInv, TypeOK, Step, Claim, Replay, Admit, FindReserved, Answer, Release, Die
    <2> QED
      BY <1>1, <2>1, <2>2, QuietStep
  <1>3. CASE Reserve(u)
    <2>1. /\ upload[u] = "allowed" /\ upload'[u] = "reserved"
          /\ doc'[u] = "active" /\ version'[u] = "pending" /\ doc[u] = "none"
          /\ \A v \in Uploads \ {u} :
               upload'[v] = upload[v] /\ doc'[v] = doc[v] /\ version'[v] = version[v]
          /\ UNCHANGED <<objects, sweep>>
      BY <1>3 DEF Reserve, Step, StoreInv, TypeOK, ReservedFirst
    <2>2. PurgeIsPastReturn'
      BY <2>1 DEF StoreInv, PurgeIsPastReturn, PastReturn
    <2>3. WrittenIsStored' /\ ReservedFirst' /\ ReadableIsStored'
      BY <2>1 DEF StoreInv, WrittenIsStored, ReservedFirst, ReadableIsStored
    <2> QED
      BY <1>1, <2>2, <2>3 DEF StoreInv
  <1>4. CASE Write(u) \/ WriteFails(u)
    <2>1. /\ upload[u] = "writing" /\ upload'[u] \in {"written", "unwritten"}
          /\ upload'[u] = "written" => u \in objects'
          /\ \A v \in Uploads \ {u} : upload'[v] = upload[v]
          /\ objects \subseteq objects' /\ UNCHANGED <<doc, version, sweep>>
      BY <1>4 DEF Write, WriteFails, Step, StoreInv, TypeOK
    <2>2. PurgeIsPastReturn' /\ ReadableIsStored'
      BY <2>1 DEF StoreInv, PurgeIsPastReturn, ReadableIsStored
    <2>3. WrittenIsStored' /\ ReservedFirst'
      BY <2>1 DEF StoreInv, WrittenIsStored, ReservedFirst
    <2> QED
      BY <1>1, <2>2, <2>3 DEF StoreInv
  <1>5. CASE FailVersion(u)
    <2>1. /\ upload[u] = "unwritten" /\ upload'[u] = "failing"
          /\ version[u] # "available" /\ version'[u] # "available"
          /\ version[u] = "none" => version'[u] = "none"
          /\ \A v \in Uploads \ {u} : upload'[v] = upload[v] /\ version'[v] = version[v]
          /\ UNCHANGED <<doc, objects, sweep>>
      BY <1>5 DEF FailVersion, Step, StoreInv, TypeOK, ReservedFirst
    <2>2. PurgeIsPastReturn' /\ ReadableIsStored'
      BY <2>1 DEF StoreInv, PurgeIsPastReturn, ReadableIsStored
    <2>3. WrittenIsStored' /\ ReservedFirst'
      BY <2>1 DEF StoreInv, WrittenIsStored, ReservedFirst
    <2> QED
      BY <1>1, <2>2, <2>3 DEF StoreInv
  <1>6. CASE Publish(u)
    <2>1. CASE version[u] = "pending"
      <3>1. /\ upload[u] = "written" /\ upload'[u] = "published" /\ version'[u] = "available"
            /\ doc[u] # "none"
            /\ \A v \in Uploads \ {u} : upload'[v] = upload[v] /\ version'[v] = version[v]
            /\ UNCHANGED <<doc, objects, sweep>>
        BY <1>6, <2>1 DEF Publish, Step, StoreInv, TypeOK, ReservedFirst
      <3>2. PurgeIsPastReturn' /\ WrittenIsStored'
        BY <3>1 DEF StoreInv, PurgeIsPastReturn, WrittenIsStored
      <3>3. ReadableIsStored'
        BY <3>1 DEF StoreInv, WrittenIsStored, ReadableIsStored, PastReturn
      <3>4. ReservedFirst'
        BY <3>1 DEF StoreInv, ReservedFirst
      <3> QED
        BY <1>1, <3>2, <3>3, <3>4 DEF StoreInv
    <2>2. CASE version[u] # "pending"
      <3>1. /\ upload'[u] = "failing" /\ \A v \in Uploads \ {u} : upload'[v] = upload[v]
            /\ UNCHANGED <<doc, version, objects, sweep>>
        BY <1>6, <2>2 DEF Publish, Step, StoreInv, TypeOK
      <3> QED
        BY <1>1, <3>1, QuietStep
    <2> QED
      BY <2>1, <2>2
  <1> QED
    BY <1>2, <1>3, <1>4, <1>5, <1>6 DEF UploadStep

LEMMA OwnerKeepsStore ==
    ASSUME StoreInv, NEW u \in Uploads, NEW to \in DocumentStatuses, SetStatus(u, to)
    PROVE  StoreInv'
  <1>1. /\ doc[u] \in {"active", "archived", "trashed"} /\ doc' = [doc EXCEPT ![u] = to]
        /\ to \in {"active", "archived", "trashed", "deleting"}
        /\ UNCHANGED <<upload, version, objects, sweep>>
    BY DEF SetStatus, MayBecome, StoreInv, TypeOK, DocumentStatuses
  <1>2. /\ doc' \in [Uploads -> DocumentStatuses] /\ doc'[u] = to
        /\ \A v \in Uploads \ {u} : doc'[v] = doc[v]
    BY <1>1 DEF StoreInv, TypeOK
  <1>3. TypeOK'
    BY <1>1, <1>2 DEF StoreInv, TypeOK, SetStatus
  <1>4. PurgeIsPastReturn' /\ WrittenIsStored'
    BY <1>1, <1>2 DEF StoreInv, PurgeIsPastReturn, WrittenIsStored, PastReturn
  <1>5. ReservedFirst' /\ ReadableIsStored'
    BY <1>1, <1>2 DEF StoreInv, ReservedFirst, ReadableIsStored
  <1> QED
    BY <1>3, <1>4, <1>5 DEF StoreInv

LEMMA SweepMoves ==
    ASSUME TypeOK, NEW s \in Sweepers, NEW step \in {"idle", "freeing", "freed"},
           NEW u \in Uploads \cup {None}, sweep' = [sweep EXCEPT ![s] = [at |-> step, doc |-> u]]
    PROVE  /\ sweep' \in [Sweepers -> [at : {"idle", "freeing", "freed"}, doc : Uploads \cup {None}]]
           /\ sweep'[s].at = step /\ sweep'[s].doc = u
           /\ \A t \in Sweepers \ {s} : sweep'[t] = sweep[t]
  BY DEF TypeOK

LEMMA PurgeKeepsStore ==
    ASSUME StoreInv, NEW s \in Sweepers, NEW u \in Uploads, PurgeStep(s, u) \/ PurgeFails(s)
    PROVE  StoreInv'
  <1> DEFINE Moves(at, d) ==
        /\ sweep' \in [Sweepers -> [at : {"idle", "freeing", "freed"}, doc : Uploads \cup {None}]]
        /\ sweep'[s].at = at /\ sweep'[s].doc = d
        /\ \A t \in Sweepers \ {s} : sweep'[t] = sweep[t]
  <1>1. CASE PurgeStarts(s, u)
    <2>1. Moves("freeing", u) /\ doc[u] = "deleting" /\ UNCHANGED <<claimed, upload, doc, version, objects>>
      BY <1>1, SweepMoves DEF PurgeStarts, StoreInv
    <2>2. TypeOK' /\ PurgeIsPastReturn'
      BY <2>1 DEF StoreInv, TypeOK, PurgeIsPastReturn, PastReturn
    <2> QED
      BY <2>1, <2>2 DEF StoreInv, WrittenIsStored, ReservedFirst, ReadableIsStored
  <1>2. CASE PurgeFrees(s, u)
    <2>1. /\ Moves("freed", u) /\ doc[u] \in PastReturn /\ objects' = objects \ {u}
          /\ UNCHANGED <<claimed, upload, doc, version>>
      <3>1. sweep[s].at = "freeing" /\ sweep[s].doc = u
        BY <1>2 DEF PurgeFrees
      <3>2. doc[u] \in PastReturn
        BY <3>1 DEF StoreInv, PurgeIsPastReturn
      <3>3. Moves("freed", u)
        BY <1>2, SweepMoves DEF PurgeFrees, StoreInv
      <3> QED
        BY <1>2, <3>2, <3>3 DEF PurgeFrees
    <2>2. TypeOK' /\ PurgeIsPastReturn'
      BY <2>1 DEF StoreInv, TypeOK, PurgeIsPastReturn
    <2>3. WrittenIsStored' /\ ReservedFirst'
      BY <2>1 DEF StoreInv, WrittenIsStored, ReservedFirst
    <2>4. ReadableIsStored'
      BY <2>1 DEF StoreInv, ReadableIsStored, PastReturn
    <2> QED
      BY <2>2, <2>3, <2>4 DEF StoreInv
  <1>3. CASE PurgeDrops(s, u) /\ doc[u] = "deleting"
    <2>1. /\ Moves("idle", None) /\ UNCHANGED <<claimed, upload, objects>>
          /\ doc' = [doc EXCEPT ![u] = "gone"] /\ version' = [version EXCEPT ![u] = "gone"]
      BY <1>3, SweepMoves DEF PurgeDrops, Rest, StoreInv
    <2>2. /\ doc'[u] = "gone" /\ version'[u] = "gone"
          /\ \A v \in Uploads \ {u} : doc'[v] = doc[v] /\ version'[v] = version[v]
      BY <2>1 DEF StoreInv, TypeOK
    <2>3. TypeOK'
      BY <2>1 DEF StoreInv, TypeOK, DocumentStatuses, VersionStatuses
    <2>4. PurgeIsPastReturn'
      BY <2>1, <2>2 DEF StoreInv, PurgeIsPastReturn, PastReturn
    <2>5. WrittenIsStored' /\ ReadableIsStored'
      BY <2>1, <2>2 DEF StoreInv, WrittenIsStored, ReadableIsStored, PastReturn
    <2>6. ReservedFirst'
      BY <1>3, <2>1, <2>2 DEF StoreInv, ReservedFirst
    <2> QED
      BY <2>3, <2>4, <2>5, <2>6 DEF StoreInv
  <1>4. CASE PurgeFails(s) \/ (PurgeDrops(s, u) /\ doc[u] # "deleting")
    <2>1. Moves("idle", None) /\ UNCHANGED <<claimed, upload, doc, version, objects>>
      BY <1>4, SweepMoves DEF PurgeFails, PurgeDrops, Rest, StoreInv
    <2>2. TypeOK' /\ PurgeIsPastReturn'
      BY <2>1 DEF StoreInv, TypeOK, PurgeIsPastReturn
    <2> QED
      BY <2>1, <2>2 DEF StoreInv, WrittenIsStored, ReservedFirst, ReadableIsStored
  <1> QED
    BY <1>1, <1>2, <1>3, <1>4 DEF PurgeStep

LEMMA StoreStep == StoreInv /\ [Next]_vars => StoreInv'
  <1> SUFFICES ASSUME StoreInv, [Next]_vars PROVE StoreInv'
    OBVIOUS
  <1>1. CASE UNCHANGED vars
    BY <1>1 DEF vars, StoreInv, TypeOK, PurgeIsPastReturn, WrittenIsStored, ReservedFirst,
                ReadableIsStored
  <1>2. ASSUME NEW s \in Sweepers, PurgeFails(s) PROVE StoreInv'
    <2>1. CASE Uploads = {}
      BY <1>2, <2>1 DEF StoreInv, TypeOK, PurgeIsPastReturn, WrittenIsStored, ReservedFirst,
                        ReadableIsStored, PurgeFails, Rest
    <2>2. CASE Uploads # {}
      BY <1>2, <2>2, PurgeKeepsStore
    <2> QED
      BY <2>1, <2>2
  <1> QED
    BY <1>1, <1>2, UploadKeepsStore, OwnerKeepsStore, PurgeKeepsStore DEF Next

\* What the owner can open, or take out of the trash, has its bytes, for any
\* number of uploads and cleanup runs, wherever one was interrupted
\* (records.ts storeReservedVersion, purgeDeletingFileDocument).
THEOREM OpenedHasItsBytes == Spec => []ReadableIsStored
  <1>1. StoreInv => ReadableIsStored
    BY DEF StoreInv
  <1> QED
    BY <1>1, StoreStarts, StoreStep, PTL DEF Spec

-----------------------------------------------------------------------------
\* Holders of a key without counting them.
Holding == Working \cup {"answered", "dead"}

KeyInv ==
    /\ TypeOK
    /\ \A u \in Uploads : upload[u] \in Holding => KeyOf[u] \in claimed
    /\ \A k \in claimed : \E u \in Uploads : KeyOf[u] = k /\ upload[u] \in Holding
    /\ \A u, v \in Uploads :
         KeyOf[u] = KeyOf[v] /\ upload[u] \in Holding /\ upload[v] \in Holding => u = v

LEMMA OneHolderCounts ==
    ASSUME KeyInv, NEW k \in Keys
    PROVE  Cardinality(Holders(k)) = IF k \in claimed THEN 1 ELSE 0
  <1>1. CASE k \notin claimed
    <2>1. Holders(k) = {}
      BY <1>1 DEF Holders, KeyInv, Holding
    <2> QED
      BY <1>1, <2>1, FS_EmptySet
  <1>2. CASE k \in claimed
    <2>1. PICK u \in Uploads : KeyOf[u] = k /\ upload[u] \in Holding
      BY <1>2 DEF KeyInv
    <2>2. Holders(k) = {u}
      BY <2>1 DEF Holders, KeyInv, Holding
    <2> QED
      BY <1>2, <2>2, FS_Singleton
  <1> QED
    BY <1>1, <1>2

\* A step that goes on holding the key, or goes on not holding it.
LEMMA SameHolders ==
    ASSUME KeyInv, TypeOK', NEW u \in Uploads, claimed' = claimed,
           \A v \in Uploads \ {u} : upload'[v] = upload[v],
           upload[u] \in Holding <=> upload'[u] \in Holding
    PROVE  KeyInv'
  <1>1. \A v \in Uploads : upload'[v] \in Holding <=> upload[v] \in Holding
    OBVIOUS
  <1> QED
    BY <1>1 DEF KeyInv

LEMMA UploadKeepsKeys ==
    ASSUME KeyInv, NEW u \in Uploads, UploadStep(u) \/ Die(u)
    PROVE  KeyInv'
  <1>1. TypeOK'
    BY UploadKeepsTypes DEF KeyInv
  <1>2. CASE Claim(u)
    <2>1. /\ upload[u] = "new" /\ upload'[u] = "claimed" /\ KeyOf[u] \notin claimed
          /\ claimed' = claimed \cup {KeyOf[u]}
          /\ \A v \in Uploads \ {u} : upload'[v] = upload[v]
      BY <1>2 DEF Claim, Step, KeyInv, TypeOK
    <2>2. upload'[u] \in Holding /\ upload[u] \notin Holding
      BY <2>1 DEF Holding, Working
    <2>3. \A v \in Uploads \ {u} : upload[v] \in Holding => KeyOf[v] # KeyOf[u]
      BY <2>1 DEF KeyInv
    <2> QED
      BY <1>1, <2>1, <2>2, <2>3 DEF KeyInv
  <1>3. CASE Release(u)
    <2>1. /\ upload[u] = "failing" /\ upload'[u] = "failed" /\ claimed' = claimed \ {KeyOf[u]}
          /\ \A v \in Uploads \ {u} : upload'[v] = upload[v]
      BY <1>3 DEF Release, Step, KeyInv, TypeOK
    <2>2. upload[u] \in Holding /\ upload'[u] \notin Holding
      BY <2>1 DEF Holding, Working
    <2>3. \A v \in Uploads \ {u} : upload[v] \in Holding => KeyOf[v] # KeyOf[u]
      BY <2>2 DEF KeyInv
    <2> QED
      BY <1>1, <2>1, <2>2, <2>3 DEF KeyInv
  <1>4. CASE ~Claim(u) /\ ~Release(u)
    <2>1. /\ claimed' = claimed /\ \A v \in Uploads \ {u} : upload'[v] = upload[v]
      BY <1>4 DEF UploadStep, Replay, Admit, Reserve, FindReserved, Write, WriteFails, FailVersion,
                  Publish, Answer, Die, Step, KeyInv, TypeOK
    <2>2. upload[u] \in Holding <=> upload'[u] \in Holding
      BY <1>4 DEF UploadStep, Replay, Admit, Reserve, FindReserved, Write, WriteFails, FailVersion,
                  Publish, Answer, Die, Step, KeyInv, TypeOK, Holding, Working
    <2> QED
      BY <1>1, <2>1, <2>2, SameHolders
  <1> QED
    BY <1>2, <1>3, <1>4

\* A claimed key has exactly one request behind it and a free key none, for any
\* number of requests and keys (idempotency.ts claimIdempotencyKey).
THEOREM KeysHaveOneHolder == Spec => []KeyHasOneHolder
  <1>1. Init => KeyInv
    <2> SUFFICES ASSUME Init PROVE KeyInv
      OBVIOUS
    <2>1. TypeOK
      BY StoreStarts DEF StoreInv
    <2> QED
      BY <2>1 DEF Init, KeyInv, Holding, Working
  <1>2. KeyInv /\ TypeOK' /\ [Next]_vars => KeyInv'
    <2> SUFFICES ASSUME KeyInv, TypeOK', [Next]_vars PROVE KeyInv'
      OBVIOUS
    <2>1. CASE UNCHANGED <<claimed, upload>>
      BY <2>1 DEF KeyInv
    <2>2. ASSUME NEW u \in Uploads, UploadStep(u) \/ Die(u) PROVE KeyInv'
      BY <2>2, UploadKeepsKeys
    <2>3. CASE \/ \E u \in Uploads, to \in DocumentStatuses : SetStatus(u, to)
               \/ \E s \in Sweepers, u \in Uploads : PurgeStep(s, u)
               \/ \E s \in Sweepers : PurgeFails(s)
      BY <2>1, <2>3 DEF SetStatus, PurgeStep, PurgeStarts, PurgeFrees, PurgeDrops, PurgeFails
    <2>4. CASE UNCHANGED vars
      BY <2>1, <2>4 DEF vars
    <2> QED
      BY <2>2, <2>3, <2>4 DEF Next
  <1>3. StoreInv => TypeOK
    BY DEF StoreInv
  <1>4. StoreInv /\ [Next]_vars => StoreInv'
    BY StoreStep
  <1>5. KeyInv => KeyHasOneHolder
    BY OneHolderCounts DEF KeyHasOneHolder
  <1> QED
    BY <1>1, <1>2, <1>3, <1>4, <1>5, StoreStarts, PTL DEF Spec
=============================================================================
