-------------------------------- MODULE Labs --------------------------------
(***************************************************************************)
(* The labs of one type: listing them, saving one (with or without a       *)
(* supporting document) and deleting one, from the handler through         *)
(* labService to labRepository, which keeps a lab as a JSON blob and       *)
(* copies of it in Redis.  Each type has a container and Redis keys of its *)
(* own, so one type is enough; only supporting documents are shared.       *)
(*                                                                         *)
(* GetLab reads through Redis and is called from eight places, also by the *)
(* checks that decide whether a lab may be changed.  A request is a        *)
(* goroutine that takes one step per call to Blob Storage or Redis; a call *)
(* that decides nothing the next one does not decide again is one step     *)
(* with it.  Each call may fail, and a failed write may have been applied. *)
(* Responses and what readers see of a lab are left out.                   *)
(***************************************************************************)
EXTENDS FiniteSets, Naturals

CONSTANTS
    Users,      \* user principals
    NoUser,     \* an empty createdBy or updatedBy
    Admins,     \* the two owners a lab without any name in it gets
    Labs,       \* lab ids, each issued once (a UUID)
    Docs,       \* supporting document ids, each issued once
    NoDoc,      \* an empty supportingDocumentId
    Saves,      \* what clients ask to be saved, and who asks
    Types,      \* "owned": privatelab, challengelab, publiclab;
                \* "protected": readinesslab, mockcase
    Requests,   \* request goroutines that may be in flight together
    Absent,     \* no blob, no Redis key
    NoNames,    \* no Redis key blobs-<type>
    NoJob       \* a request slot that is idle

Names == Users \cup Admins \cup {NoUser}

\* A list of names says how often each name is in it.  That decides, for a list
\* that is empty or has one empty name only counts as none; the order does not, as
\* SlicesAreEqual sorts what it compares.
NameLists == [Names -> Nat]

Listed(S) == [n \in Names |-> IF n \in S THEN 1 ELSE 0]

Contains(list, n) == list[n] > 0

Joined(a, b) == [n \in Names |-> a[n] + b[n]]

\* Viewers are compared as editors are; name, description, script and the rest
\* of a lab decide nothing.  createdBy is part of a request only: it is read of a
\* stored lab only when that has no owners, which does not happen.
Versions == [owners: NameLists, editors: NameLists, updatedBy: Users \cup {NoUser},
             doc: Docs \cup {NoDoc}, rbac: BOOLEAN, categorised: BOOLEAN]

Access == [owners: NameLists, editors: NameLists]

Lists(v) == [owners |-> v.owners, editors |-> v.editors]

\* A container keeps every version of a lab.  A list of versions is all there
\* were when it was read, and which of them was current: it is of now, or it is
\* old because the lab has been stored or deleted since.
Freshness == {"current", "old"}

\* The two Redis keys of a lab.
CopyKeys == {"versions", "lab"}

\* What GetLab was called for.
Callers == {"listed", "allowed", "validated", "deleteAllowed", "deleting", "read"}

\* op is a listing, an operation on one lab or on a document alone;
\* user is the caller, creator the createdBy of the body, ver the lab to be
\* written, doc the document to be deleted, held a lab downloaded,
\* todo the labs a listing has still to get.  What is not needed any more is
\* put back to its blank.
Jobs == [op: {"list", "lab", "deleteDoc"}, user: Users \cup {NoUser},
         creator: Users \cup {NoUser}, lab: Labs \cup {NoDoc}, new: BOOLEAN,
         ver: Versions \cup {Absent}, doc: Docs \cup {NoDoc},
         held: Versions \cup {Absent}, ret: Callers, todo: SUBSET Labs]

ASSUME LabsAssumption ==
    /\ Saves \subseteq [user: Users, new: BOOLEAN, creator: Users \cup {NoUser}, ver: Versions]
    /\ Types \subseteq {"owned", "protected"}
    /\ NoUser \notin Users \cup Admins
    /\ Admins # {}
    /\ NoDoc \notin Docs
    /\ Absent \notin Versions \cup Freshness
    /\ NoJob \notin Jobs
    /\ \A S \in SUBSET Labs : NoNames # S
    /\ Labs \cap Docs = {}

VARIABLES
    type,       \* the lab type looked at; it does not change
    blob,       \* Blob Storage: the current version of every lab
    stored,     \* Blob Storage: labs it has a version of, current or not
    docs,       \* Blob Storage: the supporting documents there are
    names,      \* Redis: key blobs-<type>
    copies,     \* Redis: keys lab-<type>-<id>.json
    versions,   \* Redis: keys labWithVersions-<type>-<id>.json
    pc,         \* the next call a request makes
    job,        \* what the request is about, and its local variables
    issued,     \* ids given to labs and documents
    erased,     \* history: documents that were there and are not any more
    past,       \* history: the owners and editors every owned lab has had
    outdated,   \* requests whose list of versions has become old meanwhile
    unswept,    \* history: labs and keys changed with no DEL of the key after it
    overtaken   \* history: reads whose key has been deleted meanwhile

vars == <<type, blob, stored, docs, names, copies, versions, pc, job, issued,
          erased, past, outdated, unswept, overtaken>>

LabPCs == {"getLab", "redisSetLab"}
ListPCs == {"redisSetNames", "redisSetVersions"}
SavePCs == {"docExists", "upload", "delNames", "delVersions", "delLab"}
DeletePCs == {"docExistsToDelete", "deleteDoc", "deleteBlob"}
PCs == {"idle"} \cup LabPCs \cup ListPCs \cup SavePCs \cup DeletePCs

\* What the call at a pc needs of the request's variables.
Suits(at, j) ==
    /\ at = "idle" <=> j = NoJob
    /\ at \notin {"idle", "redisSetNames", "docExistsToDelete", "deleteDoc"} => j.lab \in Labs
    /\ at \in {"docExists", "upload"} => j.ver \in Versions
    /\ at \in LabPCs /\ j.ret \in {"allowed", "validated"} => j.ver \in Versions
    /\ at \in {"docExistsToDelete", "deleteDoc"} =>
           j.doc \in Docs /\ (j.op = "deleteDoc" \/ j.lab \in Labs)
    /\ at = "redisSetLab" => j.held \in Versions

TypeOK ==
    /\ type \in Types
    /\ blob \in [Labs -> Versions \cup {Absent}]
    /\ stored \subseteq Labs
    /\ docs \subseteq Docs
    /\ names \in {NoNames} \cup SUBSET Labs
    /\ copies \in [Labs -> Versions \cup {Absent}]
    /\ versions \in [Labs -> Freshness \cup {Absent}]
    /\ pc \in [Requests -> PCs]
    /\ job \in [Requests -> Jobs \cup {NoJob}]
    /\ \A r \in Requests : Suits(pc[r], job[r])
    /\ issued \subseteq Labs \cup Docs
    /\ erased \subseteq Docs
    /\ past \in [Labs -> SUBSET Access]
    /\ outdated \subseteq Requests
    /\ unswept \subseteq Labs \X CopyKeys
    /\ overtaken \subseteq Requests

Init ==
    /\ type \in Types
    /\ blob = [l \in Labs |-> Absent]
    /\ stored = {}
    /\ docs = {}
    /\ names = NoNames
    /\ copies = [l \in Labs |-> Absent]
    /\ versions = [l \in Labs |-> Absent]
    /\ pc = [r \in Requests |-> "idle"]
    /\ job = [r \in Requests |-> NoJob]
    /\ issued = {}
    /\ erased = {}
    /\ past = [l \in Labs |-> {}]
    /\ outdated = {}
    /\ unswept = {}
    /\ overtaken = {}

-----------------------------------------------------------------------------
(* Where a request goes next.                                               *)

stores == <<type, blob, stored, docs, names, copies, versions>>
history == <<erased, past, outdated, unswept, overtaken>>

Blank == [op |-> "lab", user |-> NoUser, creator |-> NoUser, lab |-> NoDoc, new |-> FALSE, ver |-> Absent,
          doc |-> NoDoc, held |-> Absent, ret |-> "listed", todo |-> {}]

At(r, at, j) ==
    /\ pc' = [pc EXCEPT ![r] = at]
    /\ job' = [job EXCEPT ![r] = j]

Done(r) == At(r, "idle", NoJob)

GetLab(r, j, caller) == At(r, "getLab", [j EXCEPT !.ret = caller])

\* The loop of GetLabs over the names it has listed.
NextLab(r, j) ==
    \/ j.todo = {} /\ Done(r)
    \/ \E l \in j.todo :
        GetLab(r, [j EXCEPT !.lab = l, !.todo = @ \ {l}], "listed")

\* labService.UpsertLab has returned; in a listing its result is ignored.
Saved(r, j) ==
    IF j.op = "list" THEN NextLab(r, [j EXCEPT !.ver = Absent]) ELSE Done(r)

\* len(owners) == 0, or len(owners) == 1 and the one owner is "": a list of two
\* empty names is not an orphan's.
Orphan(v) == v.owners \in {Listed({}), Listed({NoUser})}

\* The creator is appended, also an empty one.
NewLabThings(j) ==
    IF j.new THEN [j.ver EXCEPT !.owners = Joined(@, Listed({j.creator}))] ELSE j.ver

\* The creator and the last editor, each unless it is "", else the two admins.
NewOwners(creator, updatedBy) ==
    IF creator = NoUser /\ updatedBy = NoUser THEN Listed(Admins)
    ELSE Joined(Listed({creator} \ {NoUser}), Listed({updatedBy} \ {NoUser}))

\* Mutant: one empty name is taken for an owner.
AssignOwnerIfNoneListed(v, creator) ==
    IF v.owners = Listed({}) THEN [v EXCEPT !.owners = NewOwners(creator, v.updatedBy)]
                           ELSE v

AssignOwnerToOrphanLab(v, creator) ==
    IF Orphan(v) THEN [v EXCEPT !.owners = NewOwners(creator, v.updatedBy)] ELSE v

\* UpsertLab after its check: the lab is completed, then its document looked for.
Write(r, j) ==
    LET v == AssignOwnerToOrphanLab(NewLabThings(j), j.creator) IN
    At(r, IF v.doc = NoDoc THEN "upload" ELSE "docExists",
       [j EXCEPT !.ver = v, !.new = FALSE, !.creator = NoUser])

\* Mutant: the lists are not compared.
ValidateNothing(old, v) == old # Absent

ValidateAddingEditorsOrViewers(old, v) ==
    /\ old # Absent
    /\ \/ Orphan(old)
       \/ Contains(old.owners, v.updatedBy)
       \/ v.owners = old.owners /\ v.editors = old.editors

IsUpsertAllowed(old, v) ==
    /\ old # Absent
    /\ \/ Orphan(old)
       \/ Contains(old.owners, v.updatedBy) \/ Contains(old.editors, v.updatedBy)

IsDeleteAllowed(old, user) == old # Absent /\ Contains(old.owners, user)

UpsertLab(r, j) ==
    IF j.new THEN Write(r, j) ELSE GetLab(r, j, "validated")

\* A protected lab is checked against the lists that come with the request.
UpsertPrivateOrPublicLab(r, j) ==
    LET k == [j EXCEPT !.user = NoUser] IN
    IF j.new THEN Write(r, k) ELSE GetLab(r, k, "allowed")

UpsertProtectedLab(r, j) ==
    IF \/ j.new /\ j.ver.owners = Listed({})
       \/ ~j.ver.rbac
       \/ Contains(j.ver.owners, j.user) \/ Contains(j.ver.editors, j.user)
    THEN UpsertLab(r, [j EXCEPT !.user = NoUser])
    ELSE Done(r)

Upsert(r, j) ==
    IF type = "protected" THEN UpsertProtectedLab(r, j)
                          ELSE UpsertPrivateOrPublicLab(r, j)

\* GetLab returns to its caller; old is Absent when it has failed.
AddCategoryToLabIfMissing(r, j, old) ==
    IF old = Absent \/ old.categorised
    THEN NextLab(r, j)
    ELSE UpsertLab(r, [j EXCEPT !.ver = [old EXCEPT !.categorised = TRUE]])

DeleteLabDocument(r, j, old) ==
    IF old = Absent THEN Done(r)
    ELSE At(r, IF old.doc = NoDoc THEN "deleteBlob" ELSE "docExistsToDelete",
            [j EXCEPT !.doc = old.doc])

Returned(r, k, old) ==
    LET j == [k EXCEPT !.held = Absent, !.ret = "listed"] IN
    \/ k.ret = "read" /\ Done(r)
    \/ k.ret = "listed" /\ AddCategoryToLabIfMissing(r, j, old)
    \/ /\ k.ret = "allowed"
       /\ IF IsUpsertAllowed(old, j.ver) THEN UpsertLab(r, j) ELSE Done(r)
    \/ /\ k.ret = "validated"
       /\ IF ValidateAddingEditorsOrViewers(old, j.ver) THEN Write(r, j) ELSE Saved(r, j)
    \/ /\ k.ret = "deleteAllowed"
       /\ IF IsDeleteAllowed(old, j.user)
          THEN GetLab(r, [j EXCEPT !.user = NoUser], "deleting")
          ELSE Done(r)
    \/ k.ret = "deleting" /\ DeleteLabDocument(r, j, old)

-----------------------------------------------------------------------------
(* What has become of the keys in Redis.                                    *)

\* Request r has stored what it read under a key of lab l.
Refilled(r, l, key) ==
    unswept' = IF r \in overtaken THEN unswept \cup {<<l, key>>} ELSE unswept

\* The DEL of a key of lab l has been done, or has not.
Swept(l, key, readers) ==
    /\ unswept' = unswept \ {<<l, key>>}
    /\ overtaken' = overtaken \cup readers

Unswept(l, key) ==
    /\ unswept' = unswept \cup {<<l, key>>}
    /\ UNCHANGED overtaken

\* Requests that have read what the key at pc is to hold.
Filling(at, l) == {q \in Requests : pc[q] = at /\ job[q].lab = l}

-----------------------------------------------------------------------------
(* GetLab: Redis, else the blob, which is then put into Redis.  An error of  *)
(* Redis counts as a miss, so a miss says nothing: here as in the other two  *)
(* reads through Redis, asking Redis and then reading the store is one step.  *)


\* Mutant: the error of the download is not returned.
DownloadDropsError(r) ==
    LET j == job[r] IN
    /\ pc[r] = "getLab"
    /\ \/ copies[j.lab] # Absent /\ Returned(r, j, copies[j.lab])
       \/ At(r, "redisSetLab", [j EXCEPT !.held = blob[j.lab]])
    /\ UNCHANGED <<stores, issued, history>>

Download(r) ==
    LET j == job[r] IN
    /\ pc[r] = "getLab"
    /\ \/ copies[j.lab] # Absent /\ Returned(r, j, copies[j.lab])
       \/ /\ blob[j.lab] # Absent
          /\ At(r, "redisSetLab", [j EXCEPT !.held = blob[j.lab]])
       \/ Returned(r, j, Absent)
    /\ UNCHANGED <<stores, issued, history>>

RedisSetLab(r) ==
    LET j == job[r] IN
    /\ pc[r] = "redisSetLab"
    /\ Returned(r, j, j.held)
    /\ \/ copies' = [copies EXCEPT ![j.lab] = j.held] /\ Refilled(r, j.lab, "lab")
       \/ UNCHANGED <<copies, unswept>>
    /\ overtaken' = overtaken \ {r}
    /\ UNCHANGED <<type, blob, stored, docs, names, versions, issued, erased, past, outdated>>

-----------------------------------------------------------------------------
(* GET /lab/<category>/:typeOfLab                                           *)

\* The names come from Redis, else from listing the container.
ListBlobs(r) ==
    LET listed == {l \in Labs : blob[l] # Absent} IN
    /\ pc[r] = "idle"
    /\ \/ names # NoNames /\ NextLab(r, [Blank EXCEPT !.op = "list", !.todo = names])
       \/ At(r, "redisSetNames", [Blank EXCEPT !.op = "list", !.todo = listed])
    /\ UNCHANGED <<stores, issued, history>>

RedisSetNames(r) ==
    /\ pc[r] = "redisSetNames"
    /\ NextLab(r, job[r])
    /\ names' = job[r].todo \/ UNCHANGED names
    /\ UNCHANGED <<type, blob, stored, docs, copies, versions, issued, history>>

-----------------------------------------------------------------------------
(* GET /lab/<category>/versions/:typeOfLab/:labId and                       *)
(* GET /lab/protected/:typeOfLab/:labId of a private lab                    *)

\* One lab for a reader, or for the check of a challenge's lab.
\* GetPrivateLabVersions reads the lab too, and goes on to its versions when the
\* reader is listed in it: who reads is left out, so that is this and the next
\* action.
GetPrivateLab(r, l) ==
    /\ pc[r] = "idle"
    /\ l \in issued
    /\ type = "owned"
    /\ GetLab(r, [Blank EXCEPT !.lab = l], "read")
    /\ UNCHANGED <<stores, issued, history>>

\* The versions come from Redis, which changes nothing, else the container is
\* listed with all versions and each is downloaded.  A version once stored
\* stays; a lab that was never stored is not found.
GetLabWithVersions(r, l) ==
    /\ pc[r] = "idle"
    /\ l \in stored
    /\ At(r, "redisSetVersions", [Blank EXCEPT !.lab = l])
    /\ UNCHANGED <<stores, issued, history>>

RedisSetVersions(r) ==
    LET l == job[r].lab IN
    /\ pc[r] = "redisSetVersions"
    /\ Done(r)
    /\ \/ /\ versions' = [versions EXCEPT ![l] = IF r \in outdated THEN "old" ELSE "current"]
          /\ Refilled(r, l, "versions")
       \/ UNCHANGED <<versions, unswept>>
    /\ overtaken' = overtaken \ {r}
    /\ outdated' = outdated \ {r}
    /\ UNCHANGED <<type, blob, stored, docs, names, copies, issued, erased, past>>

-----------------------------------------------------------------------------
(* POST /lab/<category> and POST /lab/protected/withSupportingDocument      *)

\* A lab without an id is new and gets one that was never used.
LabFor(s) == IF s.new THEN Labs \ issued ELSE Labs \cap issued

SaveJob(s, l) ==
    [Blank EXCEPT !.user = s.user, !.creator = s.creator, !.lab = l,
                  !.new = s.new, !.ver = s.ver]

\* UpdateCredits has written the caller into the body: as createdBy when the
\* lab is new, as updatedBy when it is not.
Credited(j) ==
    IF j.new THEN [j EXCEPT !.creator = j.user] ELSE [j EXCEPT !.ver.updatedBy = j.user]

SaveLab(r, s, l) ==
    /\ pc[r] = "idle"
    /\ l \in LabFor(s)
    /\ s.ver.doc \in issued \cup {NoDoc}
    /\ issued' = issued \cup {l}
    /\ Upsert(r, Credited(SaveJob(s, l)))
    /\ UNCHANGED <<stores, history>>

\* The service has stored document d, or failed to.
UploadDoc(d) ==
    /\ d \notin issued
    /\ docs' \in {docs, docs \cup {d}}

\* UpdateCredits does not see into the multipart form: the lab field keeps the
\* names the client has sent.  The form may be without a document; with one, the
\* lab is not looked at before the document is stored.
UpsertLabWithSupportingDocument(r, s, l) ==
    /\ pc[r] = "idle"
    /\ l \in LabFor(s)
    /\ \/ /\ s.ver.doc \in issued \cup {NoDoc}
          /\ issued' = issued \cup {l}
          /\ Upsert(r, SaveJob(s, l))
          /\ UNCHANGED docs
       \/ \E d \in Docs :
            /\ UploadDoc(d)
            /\ \/ d \in docs'
                  /\ issued' = issued \cup {l, d}
                  /\ Upsert(r, [SaveJob(s, l) EXCEPT !.ver.doc = d])
               \/ issued' = issued \cup {d} /\ UNCHANGED <<pc, job>>
    /\ UNCHANGED <<type, blob, stored, names, copies, versions, history>>

\* POST /lab/protected/supportingDocument: a document for no lab yet.
UpsertSupportingDocument(r, d) ==
    /\ pc[r] = "idle"
    /\ UploadDoc(d)
    /\ issued' = issued \cup {d}
    /\ UNCHANGED <<type, blob, stored, names, copies, versions, pc, job, history>>

\* Mutant: only the answer "not found" would be taken for a missing document.
DocExistsIfUnsure(r) ==
    /\ pc[r] = "docExists"
    /\ \/ At(r, "upload", job[r])
       \/ job[r].ver.doc \notin docs /\ Saved(r, job[r])
    /\ UNCHANGED <<stores, issued, history>>

\* Any error counts as a document that does not exist.
DocExists(r) ==
    /\ pc[r] = "docExists"
    /\ \/ job[r].ver.doc \in docs /\ At(r, "upload", job[r])
       \/ Saved(r, job[r])
    /\ UNCHANGED <<stores, issued, history>>

Store(l, v) ==
    /\ blob' = [blob EXCEPT ![l] = v]
    /\ stored' = stored \cup {l}
    /\ past' = [past EXCEPT ![l] =
           IF v = Absent \/ type = "protected" THEN @ ELSE @ \cup {Lists(v)}]
    /\ versions' = [versions EXCEPT ![l] = IF @ = Absent THEN Absent ELSE "old"]
    /\ outdated' = outdated \cup Filling("redisSetVersions", l)

AllKeys(l) == {l} \X CopyKeys

\* Mutant: the copies in Redis are left to themselves.
UploadKeepsCopies(r) ==
    LET j == job[r] IN
    /\ pc[r] = "upload"
    /\ Saved(r, j)
    /\ \/ Store(j.lab, j.ver)
       \/ UNCHANGED <<blob, stored, past, versions, outdated>>
    /\ UNCHANGED <<type, docs, names, copies, issued, erased, unswept, overtaken>>

Upload(r) ==
    LET j == job[r] IN
    /\ pc[r] = "upload"
    /\ \/ At(r, "delNames", [j EXCEPT !.ver = Absent]) /\ Store(j.lab, j.ver) /\ UNCHANGED unswept
       \/ Saved(r, j) /\ UNCHANGED <<blob, stored, past, versions, outdated, unswept>>
       \/ Saved(r, j) /\ Store(j.lab, j.ver) /\ unswept' = unswept \cup AllKeys(j.lab)
    /\ UNCHANGED <<type, docs, names, copies, issued, erased, overtaken>>

-----------------------------------------------------------------------------
(* DELETE /lab/<category>/:typeOfLab/:labId                                 *)

DeleteLab(r, p, l) ==
    LET j == [Blank EXCEPT !.lab = l] IN
    /\ pc[r] = "idle"
    /\ l \in issued
    /\ IF type = "protected" THEN GetLab(r, j, "deleting")
       ELSE GetLab(r, [j EXCEPT !.user = p], "deleteAllowed")
    /\ UNCHANGED <<stores, issued, history>>

\* Where DeleteSupportingDocument returns nil to.
DocumentGone(r) ==
    IF job[r].op = "deleteDoc" THEN Done(r)
    ELSE At(r, "deleteBlob", [job[r] EXCEPT !.doc = NoDoc])

\* The service asks whether the document exists, twice when a lab is deleted; any
\* error is a "no", which skips the document.
DocExistsToDelete(r) ==
    /\ pc[r] = "docExistsToDelete"
    /\ \/ job[r].doc \in docs /\ At(r, "deleteDoc", job[r])
       \/ DocumentGone(r)
    /\ UNCHANGED <<stores, issued, history>>

\* DeleteBlob fails when the document is not there any more.
DeleteDoc(r) ==
    LET d == job[r].doc IN
    /\ pc[r] = "deleteDoc"
    /\ \/ d \in docs /\ docs' = docs \ {d} /\ DocumentGone(r)
       \/ docs' \in {docs, docs \ {d}} /\ Done(r)
    /\ erased' = erased \cup (docs \ docs')
    /\ UNCHANGED <<type, blob, stored, names, copies, versions, issued, past, outdated, unswept, overtaken>>

DeleteBlob(r) ==
    LET j == job[r] IN
    /\ pc[r] = "deleteBlob"
    /\ \/ /\ blob[j.lab] # Absent
          /\ At(r, "delNames", j)
          /\ Store(j.lab, Absent)
          /\ UNCHANGED unswept
       \/ Done(r) /\ UNCHANGED <<blob, stored, past, versions, outdated, unswept>>
       \/ /\ blob[j.lab] # Absent
          /\ Done(r)
          /\ Store(j.lab, Absent)
          /\ unswept' = unswept \cup AllKeys(j.lab)
    /\ UNCHANGED <<type, docs, names, copies, issued, erased, overtaken>>

\* DELETE /lab/protected/supportingDocument/:supportingDocumentId, which does
\* nothing when the document is not found.
DeleteSupportingDocument(r, d) ==
    /\ pc[r] = "idle"
    /\ d \in docs
    /\ At(r, "deleteDoc", [Blank EXCEPT !.op = "deleteDoc", !.doc = d])
    /\ UNCHANGED <<stores, issued, history>>

-----------------------------------------------------------------------------
(* The tail of saving and deleting: the copies in Redis are deleted.        *)

\* Mutant: when the names cannot be deleted the copies are not deleted either.
DelNamesGivesUp(r) ==
    /\ pc[r] = "delNames"
    /\ \/ At(r, "delVersions", job[r]) /\ names' = NoNames
       \/ Saved(r, job[r]) /\ UNCHANGED names
    /\ UNCHANGED <<type, blob, stored, docs, copies, versions, issued, history>>

DelNames(r) ==
    /\ pc[r] = "delNames"
    /\ At(r, "delVersions", job[r])
    /\ names' = NoNames \/ UNCHANGED names
    /\ UNCHANGED <<type, blob, stored, docs, copies, versions, issued, history>>

DelVersions(r) ==
    LET l == job[r].lab IN
    /\ pc[r] = "delVersions"
    /\ At(r, "delLab", job[r])
    /\ \/ /\ versions' = [versions EXCEPT ![l] = Absent]
          /\ Swept(l, "versions", Filling("redisSetVersions", l))
       \/ UNCHANGED versions /\ Unswept(l, "versions")
    /\ UNCHANGED <<type, blob, stored, docs, names, copies, issued, erased, past, outdated>>

DelLab(r) ==
    LET l == job[r].lab IN
    /\ pc[r] = "delLab"
    /\ Saved(r, job[r])
    /\ \/ /\ copies' = [copies EXCEPT ![l] = Absent]
          /\ Swept(l, "lab", Filling("redisSetLab", l))
       \/ UNCHANGED copies /\ Unswept(l, "lab")
    /\ UNCHANGED <<type, blob, stored, docs, names, versions, issued, erased, past, outdated>>

\* A request has changed lab l and has yet to delete this key.
Sweeping(l, key) ==
    \E r \in Requests :
        /\ job[r] # NoJob /\ job[r].lab = l
        /\ pc[r] \in {"delNames", "delVersions"} \/ (pc[r] = "delLab" /\ key = "lab")

\* The process ends and is started again.
Restart ==
    /\ pc' = [r \in Requests |-> "idle"]
    /\ job' = [r \in Requests |-> NoJob]
    /\ unswept' = unswept \cup {k \in Labs \X CopyKeys : Sweeping(k[1], k[2])}
    /\ overtaken' = {}
    /\ outdated' = {}
    /\ UNCHANGED <<stores, issued, erased, past>>

-----------------------------------------------------------------------------

Call(r) ==
    \/ Download(r) \/ RedisSetLab(r)
    \/ RedisSetNames(r) \/ RedisSetVersions(r)
    \/ DocExists(r) \/ Upload(r)
    \/ DocExistsToDelete(r) \/ DeleteDoc(r) \/ DeleteBlob(r)
    \/ DelNames(r) \/ DelVersions(r) \/ DelLab(r)

NewRequest(r) ==
    \/ ListBlobs(r)
    \/ \E l \in Labs : GetPrivateLab(r, l) \/ GetLabWithVersions(r, l)
    \/ \E s \in Saves, l \in Labs :
        SaveLab(r, s, l) \/ UpsertLabWithSupportingDocument(r, s, l)
    \/ \E p \in Users, l \in Labs : DeleteLab(r, p, l)
    \/ \E d \in Docs : UpsertSupportingDocument(r, d) \/ DeleteSupportingDocument(r, d)

Next == (\E r \in Requests : NewRequest(r) \/ Call(r)) \/ Restart

Spec == Init /\ [][Next]_vars

-----------------------------------------------------------------------------

Explained(l, key) == <<l, key>> \in unswept \/ Sweeping(l, key)

\* What Redis says of a lab, its copy and the list of its versions, differs from
\* the container only while a request that changed the lab is still to delete
\* that key, or when that deletion was lost, or when somebody stored under the
\* key what he had read before the deletion.
\* (internal/repository/lab.go:115-344)
StaleCopyIsExplained ==
    \A l \in Labs :
        /\ copies[l] \notin {Absent, blob[l]} => Explained(l, "lab")
        /\ versions[l] = "old" => Explained(l, "versions")

\* The same of what a request has read and is about to store.
StaleReadIsExplained ==
    \A r \in Requests \ overtaken, l \in Labs :
        /\ pc[r] = "redisSetLab" /\ job[r].lab = l /\ job[r].held # blob[l] => Explained(l, "lab")
        /\ r \in outdated /\ job[r].lab = l => Explained(l, "versions")

\* A lab without owners may be changed by anybody, and no lab ever comes to that:
\* what GetLab gives to the checks, from Redis or from the container and however
\* old, is never one they take for an orphan, whichever lists clients have sent
\* and whichever way a lab came to be.  (Somebody who owns it there need not be:
\* two empty names are owners enough.)
\* (internal/service/lab.go:354-400, 416-419, 444-447)
NoLabIsOrphan ==
    /\ \A l \in Labs : \A v \in {blob[l], copies[l]} \ {Absent} : ~Orphan(v)
    /\ \A r \in Requests : pc[r] = "redisSetLab" => ~Orphan(job[r].held)

\* The last editor of the version to be written is one the lab has had among its
\* owners, or among its editors and then the lists are lists it has had.
Vetted(j) ==
    LET v == j.ver
        o == past[j.lab]
        Owner == \E a \in o : Contains(a.owners, v.updatedBy)
        Editor == \E a \in o : Contains(a.editors, v.updatedBy)
    IN Owner \/ (Lists(v) \in o /\ (Editor \/ j.op = "list"))

\* Saving a lab of the private and public types: whatever stale copies the two
\* checks have seen, the name a version to be stored carries as its last editor
\* is one the lab has had among its owners or editors, and its lists are lists
\* the lab has had unless that name was an owner's.  What a listing writes back
\* has lists the lab has had.
\* (internal/service/lab.go:154-177, 191-225, 404-455, 471-487)
EditsByThoseListed ==
    \A r \in Requests :
        pc[r] = "upload" /\ type = "owned" /\ past[job[r].lab] # {} => Vetted(job[r])

Uploaded(d) == d \in docs \cup erased \cup {NoDoc}

\* A lab names a document only if that document has been uploaded: it is in the
\* store, or was until a DELETE of the document or of a lab that names it.  A
\* failed or lost upload never leaves a lab pointing to nothing.
\* (internal/service/lab.go:205-211, handler/lab.go:238-248)
DocumentWasUploaded ==
    \A l \in Labs : blob[l] # Absent => Uploaded(blob[l].doc)

\* Why these hold: a lab about to be written is no orphan and its document has
\* been found; only reads under way are marked as outdated or overtaken.
Prepared ==
    \A r \in Requests :
        /\ pc[r] \in {"docExists", "upload"} => ~Orphan(job[r].ver)
        /\ pc[r] = "upload" => Uploaded(job[r].ver.doc)

Marks ==
    \A r \in Requests :
        /\ r \in outdated => pc[r] = "redisSetVersions"
        /\ r \in overtaken => pc[r] \in {"redisSetLab", "redisSetVersions"}

IInv ==
    /\ TypeOK /\ Prepared /\ Marks
    /\ StaleCopyIsExplained /\ StaleReadIsExplained
    /\ NoLabIsOrphan /\ DocumentWasUploaded

\* Why edits are by those listed.  What can be read of a lab are versions it has
\* had, and none was an orphan.
ReadsWereStored ==
    \A l \in Labs :
        /\ \A a \in past[l] : ~Orphan(a)
        /\ past[l] # {} => l \in issued
        /\ \A v \in {blob[l], copies[l]} \ {Absent} : Lists(v) \in past[l]

\* What a request at a call has been found to be by the checks before it.
Checked(at, j) ==
    LET o == past[j.lab] IN
    /\ at # "idle" => ~j.new
    /\ at = "redisSetNames" => j.op = "list"
    /\ at = "redisSetLab" => Lists(j.held) \in o
    /\ at \in LabPCs /\ j.ret = "listed" => j.op = "list"
    /\ at \in LabPCs /\ j.ret = "validated" =>
           \/ j.op = "list" /\ Lists(j.ver) \in o
           \/ \E a \in o : Contains(a.owners, j.ver.updatedBy) \/ Contains(a.editors, j.ver.updatedBy)

WritePCs == {"docExists", "upload"}

\* Request r is the only one to write its lab, which is new.
FirstWriter(r) ==
    /\ past[job[r].lab] = {}
    /\ \A q \in Requests \ {r} : pc[q] \in WritePCs => job[q].lab # job[r].lab

WritesAreVetted ==
    \A r \in Requests : pc[r] \in WritePCs =>
        job[r].lab \in issued /\ (Vetted(job[r]) \/ FirstWriter(r))

EditInv ==
    type = "owned" =>
        /\ ReadsWereStored
        /\ \A r \in Requests : Checked(pc[r], job[r])
        /\ WritesAreVetted

Recategorised(v) == [v EXCEPT !.categorised = TRUE]

\* "Update lab so that this change is saved.": the write a listing makes to add
\* a missing category changes nothing else of the lab.
\* (comment at internal/service/lab.go:484)
ListingOnlyAddsCategory ==
    [][\A r \in Requests :
        LET l == job[r].lab IN
        pc[r] = "upload" /\ pc'[r] # "upload" /\ job[r].op = "list" =>
            \/ blob'[l] = blob[l]
            \/ blob[l] # Absent /\ blob'[l] = Recategorised(blob[l])]_vars
=============================================================================
