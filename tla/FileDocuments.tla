--------------------------- MODULE FileDocuments ---------------------------
(***************************************************************************)
(* Documents of a workspace: uploading one under an Idempotency-Key and    *)
(* freeing its bytes once it is deleted                                    *)
(* (services/api/src/quickdash-routes.ts,                                  *)
(* packages/modules/files/src/records.ts, packages/db/src/idempotency.ts,  *)
(* packages/event-dispatch/src/storage-cleanup.ts).                        *)
(*                                                                         *)
(* The database and the object store do not commit together: an upload     *)
(* reserves its rows, writes the object and then publishes the version, a  *)
(* purge deletes the object and then the rows.  Either may die at any      *)
(* step, and the owner sees, and may trash, a document whose upload is     *)
(* still under way.                                                        *)
(*                                                                         *)
(* A document is named by the request that uploads it: no route adds a     *)
(* second version.  A file is one unit long.                               *)
(***************************************************************************)
EXTENDS Naturals, FiniteSets

CONSTANTS
    Uploads,    \* upload requests, a retry being one of its own
    Keys,       \* Idempotency-Keys
    KeyOf,      \* the key each request carries
    Sweepers,   \* runs of the storage cleanup
    Limit,      \* the plan's storage allowance
    None        \* no document

ASSUME FilesAssumption ==
    /\ KeyOf \in [Uploads -> Keys]
    /\ IsFiniteSet(Uploads)
    /\ Limit \in Nat
    /\ None \notin Uploads

VARIABLES
    claimed,    \* rows of mutation_idempotency
    upload,     \* what each request is doing, or was answered
    doc,        \* file_documents.status
    version,    \* file_versions.status of its only version
    objects,    \* in the object store
    sweep       \* the document each cleanup run is freeing, and its step

vars == <<claimed, upload, doc, version, objects, sweep>>

DocumentStatuses == {"none", "active", "archived", "trashed", "deleting", "gone"}
VersionStatuses == {"none", "pending", "available", "failed", "gone"}

\* The steps of a request that holds its key, and its ends.
Working == {"claimed", "allowed", "reserved", "writing", "written", "unwritten",
            "published", "failing"}
Ended == {"answered", "failed", "replayed", "dead"}

Rest == [at |-> "idle", doc |-> None]

Init ==
    /\ claimed = {}
    /\ upload = [u \in Uploads |-> "new"]
    /\ doc = [u \in Uploads |-> "none"]
    /\ version = [u \in Uploads |-> "none"]
    /\ objects = {}
    /\ sweep = [s \in Sweepers |-> Rest]

(***************************************************************************)
(* The upload.                                                             *)
(***************************************************************************)

Step(u, from, to) ==
    /\ upload[u] = from
    /\ upload' = [upload EXCEPT ![u] = to]

\* claimIdempotencyKey: the insert takes the key or finds it taken.
Claim(u) ==
    /\ Step(u, "new", "claimed")
    /\ KeyOf[u] \notin claimed
    /\ claimed' = claimed \cup {KeyOf[u]}
    /\ UNCHANGED <<doc, version, objects, sweep>>

\* Mutant: the key of a replay is released with the others.
ReplayReleases(u) ==
    /\ Step(u, "new", "replayed")
    /\ KeyOf[u] \in claimed
    /\ claimed' = claimed \ {KeyOf[u]}
    /\ UNCHANGED <<doc, version, objects, sweep>>

\* A key that is taken is answered as a replay, whatever its holder comes to.
Replay(u) ==
    /\ Step(u, "new", "replayed")
    /\ KeyOf[u] \in claimed
    /\ UNCHANGED <<claimed, doc, version, objects, sweep>>

\* What the meter counts: published versions, until their rows are gone.
Stored == {u \in Uploads : version[u] = "available"}

\* assertStorageUploadAllowed counts what is stored now, and not what other
\* requests are about to store.
Admit(u) ==
    /\ IF Cardinality(Stored) + 1 <= Limit
       THEN Step(u, "claimed", "allowed")
       ELSE Step(u, "claimed", "failing")
    /\ UNCHANGED <<claimed, doc, version, objects, sweep>>

\* One transaction inserts the document and its pending version.
Reserve(u) ==
    /\ Step(u, "allowed", "reserved")
    /\ doc' = [doc EXCEPT ![u] = "active"]
    /\ version' = [version EXCEPT ![u] = "pending"]
    /\ UNCHANGED <<claimed, objects, sweep>>

\* storeReservedVersion looks for the pending row before it writes.
FindReserved(u) ==
    /\ IF version[u] = "pending"
       THEN Step(u, "reserved", "writing")
       ELSE Step(u, "reserved", "failing")
    /\ UNCHANGED <<claimed, doc, version, objects, sweep>>

Write(u) ==
    /\ Step(u, "writing", "written")
    /\ objects' = objects \cup {u}
    /\ UNCHANGED <<claimed, doc, version, sweep>>

\* The store refuses, or takes the object and its answer is lost or does not
\* match and the object cannot be deleted again.
WriteFails(u) ==
    /\ Step(u, "writing", "unwritten")
    /\ objects' \in {objects, objects \cup {u}}
    /\ UNCHANGED <<claimed, doc, version, sweep>>

\* failReservedVersion, and the error goes to the route.
FailVersion(u) ==
    /\ Step(u, "unwritten", "failing")
    /\ version' = [version EXCEPT ![u] = IF @ = "pending" THEN "failed" ELSE @]
    /\ UNCHANGED <<claimed, doc, objects, sweep>>

\* The version is published if its row is still pending under the lock.
Publish(u) ==
    /\ IF version[u] = "pending"
       THEN /\ Step(u, "written", "published")
            /\ version' = [version EXCEPT ![u] = "available"]
       ELSE /\ Step(u, "written", "failing")
            /\ UNCHANGED version
    /\ UNCHANGED <<claimed, doc, objects, sweep>>

\* The meter is recounted and the document read back before the answer; what
\* that throws is an error like any other.
Answer(u) ==
    /\ \E to \in {"answered", "failing"} : Step(u, "published", to)
    /\ UNCHANGED <<claimed, doc, version, objects, sweep>>

\* Every error releases the key.
Release(u) ==
    /\ Step(u, "failing", "failed")
    /\ claimed' = claimed \ {KeyOf[u]}
    /\ UNCHANGED <<doc, version, objects, sweep>>

\* The process serving the request dies and the key stays claimed.
Die(u) ==
    /\ upload[u] \in Working
    /\ upload' = [upload EXCEPT ![u] = "dead"]
    /\ UNCHANGED <<claimed, doc, version, objects, sweep>>

(***************************************************************************)
(* The owner.                                                              *)
(***************************************************************************)

\* Mutant: a deletion that has not happened yet can be taken back.
MayBecomeAgain(from) ==
    CASE from = "active" -> {"archived", "trashed"}
      [] from = "archived" -> {"active", "trashed"}
      [] from = "trashed" -> {"active", "deleting"}
      [] from = "deleting" -> {"active"}
      [] OTHER -> {}

\* DOCUMENT_TRANSITIONS.
MayBecome(from) ==
    CASE from = "active" -> {"archived", "trashed"}
      [] from = "archived" -> {"active", "trashed"}
      [] from = "trashed" -> {"active", "deleting"}
      [] OTHER -> {}

\* setFileDocumentStatus and requestFileDocumentDeletion.
SetStatus(u, to) ==
    /\ to \in MayBecome(doc[u])
    /\ doc' = [doc EXCEPT ![u] = to]
    /\ UNCHANGED <<claimed, upload, version, objects, sweep>>

(***************************************************************************)
(* The cleanup.                                                            *)
(***************************************************************************)

PurgeStarts(s, u) ==
    /\ sweep[s] = Rest
    /\ doc[u] = "deleting"
    /\ sweep' = [sweep EXCEPT ![s] = [at |-> "freeing", doc |-> u]]
    /\ UNCHANGED <<claimed, upload, doc, version, objects>>

\* The object of every version row is deleted; an object that is not there
\* counts as deleted.
PurgeFrees(s, u) ==
    /\ sweep[s] = [at |-> "freeing", doc |-> u]
    /\ objects' = objects \ {u}
    /\ sweep' = [sweep EXCEPT ![s] = [at |-> "freed", doc |-> u]]
    /\ UNCHANGED <<claimed, upload, doc, version>>

\* Mutant: the rows go only if the version was published.
PurgeDropsPublished(s, u) ==
    /\ sweep[s] = [at |-> "freed", doc |-> u]
    /\ IF doc[u] = "deleting" /\ version[u] = "available"
       THEN /\ doc' = [doc EXCEPT ![u] = "gone"]
            /\ version' = [version EXCEPT ![u] = "gone"]
       ELSE UNCHANGED <<doc, version>>
    /\ sweep' = [sweep EXCEPT ![s] = Rest]
    /\ UNCHANGED <<claimed, upload, objects>>

\* The rows go, if the document is still to be deleted.
PurgeDrops(s, u) ==
    /\ sweep[s] = [at |-> "freed", doc |-> u]
    /\ IF doc[u] = "deleting"
       THEN /\ doc' = [doc EXCEPT ![u] = "gone"]
            /\ version' = [version EXCEPT ![u] = "gone"]
       ELSE UNCHANGED <<doc, version>>
    /\ sweep' = [sweep EXCEPT ![s] = Rest]
    /\ UNCHANGED <<claimed, upload, objects>>

\* The store refuses, or the run dies: the document waits for the next run.
PurgeFails(s) ==
    /\ sweep[s] # Rest
    /\ sweep' = [sweep EXCEPT ![s] = Rest]
    /\ UNCHANGED <<claimed, upload, doc, version, objects>>

UploadStep(u) ==
    \/ Claim(u) \/ Replay(u) \/ Admit(u) \/ Reserve(u) \/ FindReserved(u)
    \/ Write(u) \/ WriteFails(u) \/ FailVersion(u) \/ Publish(u)
    \/ Answer(u) \/ Release(u)

PurgeStep(s, u) == PurgeStarts(s, u) \/ PurgeFrees(s, u) \/ PurgeDrops(s, u)

Next ==
    \/ \E u \in Uploads : UploadStep(u) \/ Die(u)
    \/ \E u \in Uploads, to \in DocumentStatuses : SetStatus(u, to)
    \/ \E s \in Sweepers, u \in Uploads : PurgeStep(s, u)
    \/ \E s \in Sweepers : PurgeFails(s)

Spec == Init /\ [][Next]_vars

\* The cleanup runs every five minutes, works off its list and does not fail for
\* ever; nothing makes an owner act or an upload end.
FairSpec ==
    /\ Spec
    /\ \A s \in Sweepers, u \in Uploads :
        /\ SF_vars(PurgeStarts(s, u))
        /\ SF_vars(PurgeFrees(s, u))
        /\ SF_vars(PurgeDrops(s, u))

-----------------------------------------------------------------------------
(***************************************************************************)
(* Properties.                                                             *)
(***************************************************************************)

TypeOK ==
    /\ claimed \subseteq Keys
    /\ upload \in [Uploads -> Working \cup Ended \cup {"new"}]
    /\ doc \in [Uploads -> DocumentStatuses]
    /\ version \in [Uploads -> VersionStatuses]
    /\ objects \subseteq Uploads
    /\ sweep \in [Sweepers -> [at : {"idle", "freeing", "freed"},
                               doc : Uploads \cup {None}]]

\* What the owner can still open, or take out of the trash, has its bytes,
\* wherever an upload or a purge was interrupted.
ReadableIsStored ==
    \A u \in Uploads :
        version[u] = "available" /\ doc[u] \in {"active", "archived", "trashed"}
            => u \in objects

\* "Claim -> do the work -> commit or release" (idempotency.ts): a claimed key
\* has one request behind it, at work, dead or answered, and a free key none.
Holders(k) ==
    {u \in Uploads : KeyOf[u] = k /\ upload[u] \in Working \cup {"answered", "dead"}}

KeyHasOneHolder ==
    \A k \in Keys : Cardinality(Holders(k)) = IF k \in claimed THEN 1 ELSE 0

\* A document whose deletion was asked for goes, though the store fails and
\* runs die, and an upload of it may be under way.
DeletionCompletes ==
    \A u \in Uploads : doc[u] = "deleting" ~> doc[u] = "gone"

(***************************************************************************)
(* What the comments say and the code does not do.                         *)
(***************************************************************************)

\* "silently treated as a duplicate no-op while nothing was ever created"
\* (idempotency.ts) does not happen: behind a replay there is a document, or a
\* request that may still make one.
ReplayMeansStored ==
    \A v \in Uploads :
        upload[v] = "replayed" =>
            \E u \in Uploads :
                /\ KeyOf[u] = KeyOf[v]
                /\ \/ upload[u] \in Working \cup {"answered"}
                   \/ version[u] \in {"available", "gone"}

\* One Idempotency-Key stores one document.
OneDocumentPerKey ==
    \A u, v \in Stored : KeyOf[u] = KeyOf[v] => u = v

\* "without leaving database metadata or provider objects behind" (storage):
\* what is purged leaves no object.
PurgedLeavesNothing == \A u \in Uploads : doc[u] = "gone" => u \notin objects

\* The allowance is a ceiling.
WithinAllowance == Cardinality(Stored) <= Limit
=============================================================================
