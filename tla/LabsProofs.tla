----------------------------- MODULE LabsProofs -----------------------------
(***************************************************************************)
(* Proofs about Labs for any users, labs, documents, saves and number of   *)
(* overlapping requests. Most calls end in a chain of returns and checks   *)
(* that leaves the request before its next call. The lemmas up to          *)
(* ReturnedFits follow that chain once, for all actions; those from        *)
(* Cleared on follow it again for what the checks establish about who      *)
(* edits a lab.                                                            *)
(***************************************************************************)
EXTENDS Labs, TLAPS

\* Where a chain of returns can leave a request.
Onward == {"idle", "getLab", "docExists", "upload", "docExistsToDelete", "deleteBlob"}

\* Request r has gone on to a call it is equipped for.
Fits(r) ==
    \E at \in Onward, k \in Jobs \cup {NoJob} :
        /\ At(r, at, k)
        /\ Suits(at, k)
        /\ at \in {"docExists", "upload"} => ~Orphan(k.ver)
        /\ at = "upload" => k.ver.doc = NoDoc

LEMMA DoneFits == ASSUME NEW r, Done(r) PROVE Fits(r)
  BY DEF Done, Fits, Onward, Suits, LabPCs

LEMMA GetLabFits ==
    ASSUME NEW r, NEW j \in Jobs, NEW caller \in Callers, GetLab(r, j, caller),
           j.lab \in Labs,
           caller \in {"allowed", "validated"} => j.ver \in Versions
    PROVE  Fits(r)
<1> DEFINE k == [j EXCEPT !.ret = caller]
<1>1. k \in Jobs /\ k.lab = j.lab /\ k.ver = j.ver /\ k.ret = caller
  BY DEF Jobs
<1>2. At(r, "getLab", k)
  BY DEF GetLab
<1>3. Suits("getLab", k)
  BY <1>1, LabsAssumption DEF Suits, LabPCs
<1> HIDE DEF k
<1> QED
  BY <1>1, <1>2, <1>3 DEF Fits, Onward

LEMMA NextLabFits ==
    ASSUME NEW r, NEW j \in Jobs, NextLab(r, j)
    PROVE  Fits(r)
<1>1. CASE Done(r)
  BY <1>1, DoneFits
<1>2. ASSUME NEW l \in j.todo, GetLab(r, [j EXCEPT !.lab = l, !.todo = @ \ {l}], "listed")
      PROVE Fits(r)
  <2> DEFINE k == [j EXCEPT !.lab = l, !.todo = @ \ {l}]
  <2>1. k \in Jobs /\ k.lab \in Labs
    BY DEF Jobs
  <2>2. "listed" \in Callers
    BY DEF Callers
  <2> QED
    BY <1>2, <2>1, <2>2, GetLabFits
<1> QED
  BY <1>1, <1>2 DEF NextLab

LEMMA SavedFits ==
    ASSUME NEW r, NEW j \in Jobs, Saved(r, j)
    PROVE  Fits(r)
<1>1. [j EXCEPT !.ver = Absent] \in Jobs
  BY DEF Jobs
<1> QED
  BY <1>1, NextLabFits, DoneFits DEF Saved

\* What is in a list that is made of names.
LEMMA ListedIsList ==
    ASSUME NEW S \in SUBSET Names
    PROVE  /\ Listed(S) \in NameLists
           /\ \A n \in Names : Contains(Listed(S), n) <=> n \in S
  BY DEF Listed, NameLists, Contains

LEMMA JoinedIsList ==
    ASSUME NEW a \in NameLists, NEW b \in NameLists
    PROVE  /\ Joined(a, b) \in NameLists
           /\ \A n \in Names : Contains(Joined(a, b), n) <=> Contains(a, n) \/ Contains(b, n)
  BY DEF Joined, NameLists, Contains

\* Who is in the list of owners is one of the names, or nobody in particular.
LEMMA NamedIsNoOrphan ==
    ASSUME NEW v, NEW n \in Names \ {NoUser}, Contains(v.owners, n)
    PROVE  ~Orphan(v)
<1>1. ~Contains(Listed({}), n) /\ ~Contains(Listed({NoUser}), n)
  BY ListedIsList DEF Names
<1> QED
  BY <1>1 DEF Orphan

LEMMA NewOwnersAreNamed ==
    ASSUME NEW creator \in Users \cup {NoUser}, NEW updatedBy \in Users \cup {NoUser}
    PROVE  /\ NewOwners(creator, updatedBy) \in NameLists
           /\ \E n \in Names \ {NoUser} : Contains(NewOwners(creator, updatedBy), n)
<1>1. CASE creator = NoUser /\ updatedBy = NoUser
  <2>1. PICK n \in Admins : n # NoUser
    BY LabsAssumption
  <2> QED
    BY <1>1, <2>1, ListedIsList DEF NewOwners, Names
<1>2. CASE ~(creator = NoUser /\ updatedBy = NoUser)
  <2> DEFINE c == Listed({creator} \ {NoUser})
             u == Listed({updatedBy} \ {NoUser})
  <2>1. {creator} \ {NoUser} \in SUBSET Names /\ {updatedBy} \ {NoUser} \in SUBSET Names
    BY DEF Names
  <2>2. /\ c \in NameLists /\ \A n \in Names : Contains(c, n) <=> n \in {creator} \ {NoUser}
        /\ u \in NameLists /\ \A n \in Names : Contains(u, n) <=> n \in {updatedBy} \ {NoUser}
    BY <2>1, ListedIsList
  <2>3. NewOwners(creator, updatedBy) = Joined(c, u)
    BY <1>2 DEF NewOwners
  <2>4. PICK n \in {creator, updatedBy} : n \in Names \ {NoUser}
    BY <1>2 DEF Names
  <2> HIDE DEF c, u
  <2> QED
    BY <2>2, <2>3, <2>4, JoinedIsList
<1> QED
  BY <1>1, <1>2

\* An orphan gets an owner, and no other lab is one.
LEMMA AssignedIsNoOrphan ==
    ASSUME NEW v \in Versions, NEW creator \in Users \cup {NoUser}
    PROVE  /\ AssignOwnerToOrphanLab(v, creator) \in Versions
           /\ ~Orphan(AssignOwnerToOrphanLab(v, creator))
<1> DEFINE given == NewOwners(creator, v.updatedBy)
           w == [v EXCEPT !.owners = given]
<1>1. given \in NameLists /\ \E n \in Names \ {NoUser} : Contains(given, n)
  BY NewOwnersAreNamed DEF Versions
<1> HIDE DEF given
<1>2. w \in Versions /\ w.owners = given
  BY <1>1 DEF Versions
<1>3. ~Orphan(w)
  <2> HIDE DEF w
  <2> QED
    BY <1>1, <1>2, NamedIsNoOrphan
<1>4. AssignOwnerToOrphanLab(v, creator) = IF Orphan(v) THEN w ELSE v
  BY DEF AssignOwnerToOrphanLab, given
<1> QED
  BY <1>2, <1>3, <1>4

\* The creator is appended to the owners of a new lab.
LEMMA NewLabIsLab ==
    ASSUME NEW j \in Jobs, j.ver \in Versions
    PROVE  NewLabThings(j) \in Versions
<1>1. Listed({j.creator}) \in NameLists
  <2>1. {j.creator} \in SUBSET Names
    BY DEF Jobs, Names
  <2> QED
    BY <2>1, ListedIsList
<1> DEFINE owners == Joined(j.ver.owners, Listed({j.creator}))
<1>2. owners \in NameLists
  BY <1>1, JoinedIsList DEF Versions
<1>3. NewLabThings(j) = IF j.new THEN [j.ver EXCEPT !.owners = owners] ELSE j.ver
  BY DEF NewLabThings
<1> HIDE DEF owners
<1> QED
  BY <1>2, <1>3 DEF Versions

LEMMA WriteFits ==
    ASSUME NEW r, NEW j \in Jobs, Write(r, j), j.lab \in Labs, j.ver \in Versions
    PROVE  Fits(r)
<1> DEFINE u == NewLabThings(j)
           v == AssignOwnerToOrphanLab(u, j.creator)
           at == IF v.doc = NoDoc THEN "upload" ELSE "docExists"
           k == [j EXCEPT !.ver = v, !.new = FALSE, !.creator = NoUser]
<1>1. j.creator \in Users \cup {NoUser}
  BY DEF Jobs
<1>2. u \in Versions
  BY NewLabIsLab
<1>3. v \in Versions /\ ~Orphan(v)
  <2> HIDE DEF u
  <2> QED
    BY <1>1, <1>2, AssignedIsNoOrphan
<1>4. At(r, at, k)
  BY DEF Write
<1> HIDE DEF u, v
<1>5. k \in Jobs /\ k.ver = v /\ k.lab = j.lab
  BY <1>3 DEF Jobs
<1>6. at \in {"upload", "docExists"} /\ (at = "upload" => v.doc = NoDoc)
  OBVIOUS
<1> HIDE DEF at, k
<1>7. Suits(at, k)
  BY <1>3, <1>5, <1>6, LabsAssumption DEF Suits, LabPCs
<1> QED
  BY <1>3, <1>4, <1>5, <1>6, <1>7 DEF Fits, Onward

LEMMA UpsertLabFits ==
    ASSUME NEW r, NEW j \in Jobs, UpsertLab(r, j), j.lab \in Labs, j.ver \in Versions
    PROVE  Fits(r)
<1>1. "validated" \in Callers
  BY DEF Callers
<1> QED
  BY <1>1, WriteFits, GetLabFits DEF UpsertLab

LEMMA UpsertFits ==
    ASSUME NEW r, NEW j \in Jobs, Upsert(r, j), j.lab \in Labs, j.ver \in Versions
    PROVE  Fits(r)
<1> DEFINE k == [j EXCEPT !.user = NoUser]
<1>1. k \in Jobs /\ k.lab \in Labs /\ k.ver \in Versions
  BY DEF Jobs
<1>2. "allowed" \in Callers
  BY DEF Callers
<1>3. ASSUME UpsertProtectedLab(r, j) PROVE Fits(r)
  <2>1. UpsertLab(r, k) \/ Done(r)
    BY <1>3 DEF UpsertProtectedLab
  <2> HIDE DEF k
  <2> QED
    BY <1>1, <2>1, UpsertLabFits, DoneFits
<1>4. ASSUME UpsertPrivateOrPublicLab(r, j) PROVE Fits(r)
  <2>1. Write(r, k) \/ GetLab(r, k, "allowed")
    BY <1>4 DEF UpsertPrivateOrPublicLab
  <2> HIDE DEF k
  <2> QED
    BY <1>1, <1>2, <2>1, WriteFits, GetLabFits
<1> QED
  BY <1>3, <1>4 DEF Upsert

LEMMA AddCategoryFits ==
    ASSUME NEW r, NEW j \in Jobs, NEW old \in Versions \cup {Absent},
           AddCategoryToLabIfMissing(r, j, old), j.lab \in Labs
    PROVE  Fits(r)
<1>1. CASE NextLab(r, j)
  BY <1>1, NextLabFits
<1>2. CASE old # Absent /\ UpsertLab(r, [j EXCEPT !.ver = [old EXCEPT !.categorised = TRUE]])
  <2> DEFINE v == [old EXCEPT !.categorised = TRUE]
             k == [j EXCEPT !.ver = v]
  <2>1. v \in Versions
    BY <1>2 DEF Versions
  <2> HIDE DEF v
  <2>2. k \in Jobs /\ k.lab \in Labs /\ k.ver \in Versions
    BY <2>1 DEF Jobs
  <2>3. UpsertLab(r, k)
    BY <1>2 DEF v
  <2> HIDE DEF k
  <2> QED
    BY <2>2, <2>3, UpsertLabFits
<1> QED
  BY <1>1, <1>2 DEF AddCategoryToLabIfMissing

LEMMA DeleteLabDocumentFits ==
    ASSUME NEW r, NEW j \in Jobs, NEW old \in Versions \cup {Absent},
           DeleteLabDocument(r, j, old), j.lab \in Labs
    PROVE  Fits(r)
<1>1. CASE Done(r)
  BY <1>1, DoneFits
<1>2. CASE old # Absent /\ At(r, IF old.doc = NoDoc THEN "deleteBlob" ELSE "docExistsToDelete",
                              [j EXCEPT !.doc = old.doc])
  <2> DEFINE at == IF old.doc = NoDoc THEN "deleteBlob" ELSE "docExistsToDelete"
             k == [j EXCEPT !.doc = old.doc]
  <2>1. old.doc \in Docs \cup {NoDoc}
    BY <1>2 DEF Versions
  <2>2. k \in Jobs /\ k.lab = j.lab /\ k.doc = old.doc
    BY <2>1 DEF Jobs
  <2>3. /\ at \in {"deleteBlob", "docExistsToDelete"}
        /\ at = "docExistsToDelete" => old.doc \in Docs
    BY <2>1
  <2>4. At(r, at, k)
    BY <1>2
  <2> HIDE DEF at, k
  <2>5. Suits(at, k)
    BY <2>2, <2>3, LabsAssumption DEF Suits, LabPCs
  <2> QED
    BY <2>2, <2>3, <2>4, <2>5 DEF Fits, Onward
<1> QED
  BY <1>1, <1>2 DEF DeleteLabDocument

LEMMA ReturnedFits ==
    ASSUME NEW r, NEW i \in Jobs, NEW old \in Versions \cup {Absent},
           Returned(r, i, old), i.lab \in Labs,
           i.ret \in {"allowed", "validated"} => i.ver \in Versions
    PROVE  Fits(r)
<1> DEFINE j == [i EXCEPT !.held = Absent, !.ret = "listed"]
           k == [j EXCEPT !.user = NoUser]
<1>1. /\ j \in Jobs /\ j.lab \in Labs /\ j.ver = i.ver
      /\ k \in Jobs /\ k.lab \in Labs /\ k.ver = i.ver
      /\ i.ret \in Callers
  BY DEF Jobs, Callers
<1>2. "deleting" \in Callers
  BY DEF Callers
<1>3. \/ i.ret = "read" /\ Done(r)
      \/ i.ret = "listed" /\ AddCategoryToLabIfMissing(r, j, old)
      \/ i.ret = "allowed" /\ (UpsertLab(r, j) \/ Done(r))
      \/ i.ret = "validated" /\ (Write(r, j) \/ Saved(r, j))
      \/ i.ret = "deleteAllowed" /\ (GetLab(r, k, "deleting") \/ Done(r))
      \/ i.ret = "deleting" /\ DeleteLabDocument(r, j, old)
  BY <1>1 DEF Returned, Callers
<1> HIDE DEF j, k
<1> QED
  BY <1>1, <1>2, <1>3, DoneFits, AddCategoryFits, UpsertLabFits, WriteFits, SavedFits,
     GetLabFits, DeleteLabDocumentFits

-----------------------------------------------------------------------------
(* The invariant, by kinds of steps.                                        *)

SweepPCs == {"delNames", "delVersions", "delLab"}

\* Request r has gone on to some call it is equipped for, and what it is about
\* to store in Redis is what the container holds.
Moves(r) ==
    \E at \in PCs, k \in Jobs \cup {NoJob} :
        /\ At(r, at, k)
        /\ Suits(at, k)
        /\ at \in {"docExists", "upload"} => ~Orphan(k.ver)
        /\ at = "upload" => Uploaded(k.ver.doc)'
        /\ at = "redisSetLab" => k.held = blob[k.lab]

LEMMA FitsMoves ==
    ASSUME TypeOK, NEW r \in Requests, Fits(r)
    PROVE  /\ Moves(r)
           /\ pc'[r] \in Onward
<1>1. PICK at \in Onward, k \in Jobs \cup {NoJob} :
        /\ At(r, at, k) /\ Suits(at, k)
        /\ at \in {"docExists", "upload"} => ~Orphan(k.ver)
        /\ at = "upload" => k.ver.doc = NoDoc
  BY DEF Fits
<1>2. at \in PCs /\ at # "redisSetLab"
  BY DEF Onward, PCs, LabPCs, SavePCs, DeletePCs
<1>3. at = "upload" => Uploaded(k.ver.doc)'
  BY <1>1 DEF Uploaded
<1>4. pc'[r] = at
  BY <1>1 DEF At, TypeOK
<1> QED
  BY <1>1, <1>2, <1>3, <1>4 DEF Moves

\* The requests after a step of one of them.
LEMMA RequestsStay ==
    ASSUME TypeOK, Prepared, NEW r \in Requests, Moves(r),
           docs \cup erased \subseteq docs' \cup erased'
    PROVE  /\ pc' \in [Requests -> PCs]
           /\ job' \in [Requests -> Jobs \cup {NoJob}]
           /\ \A q \in Requests : Suits(pc'[q], job'[q])
           /\ Prepared'
           /\ \A q \in Requests \ {r} : pc'[q] = pc[q] /\ job'[q] = job[q]
           /\ pc'[r] = "redisSetLab" => job'[r].held = blob[job'[r].lab]
<1>1. PICK at \in PCs, k \in Jobs \cup {NoJob} :
        /\ At(r, at, k) /\ Suits(at, k)
        /\ at \in {"docExists", "upload"} => ~Orphan(k.ver)
        /\ at = "upload" => Uploaded(k.ver.doc)'
        /\ at = "redisSetLab" => k.held = blob[k.lab]
  BY DEF Moves
<1>2. pc' \in [Requests -> PCs] /\ job' \in [Requests -> Jobs \cup {NoJob}]
  BY <1>1 DEF At, TypeOK
<1>3. /\ pc'[r] = at /\ job'[r] = k
      /\ \A q \in Requests \ {r} : pc'[q] = pc[q] /\ job'[q] = job[q]
  BY <1>1 DEF At, TypeOK
<1>4. \A q \in Requests : Suits(pc'[q], job'[q])
  BY <1>1, <1>3 DEF TypeOK
<1>5. ASSUME NEW q \in Requests
      PROVE  /\ pc'[q] \in {"docExists", "upload"} => ~Orphan(job'[q].ver)
             /\ pc'[q] = "upload" => job'[q].ver.doc \in docs' \cup erased' \cup {NoDoc}
  <2>1. CASE q = r
    BY <1>1, <1>3, <2>1 DEF Uploaded
  <2>2. CASE q # r
    BY <1>3, <2>2 DEF Prepared, Uploaded
  <2> QED
    BY <2>1, <2>2
<1>6. Prepared'
  BY <1>5 DEF Prepared, Orphan, Uploaded
<1> QED
  BY <1>1, <1>2, <1>3, <1>4, <1>6

\* What requests hold after such a step, and labs that are as they were, are no
\* orphans.
LEMMA HeldStays ==
    ASSUME TypeOK, Prepared, NoLabIsOrphan, NEW r \in Requests, Moves(r),
           docs \cup erased \subseteq docs' \cup erased'
    PROVE  \A q \in Requests : pc'[q] = "redisSetLab" => ~Orphan(job'[q].held)
<1> SUFFICES ASSUME NEW q \in Requests, pc'[q] = "redisSetLab"
             PROVE  ~Orphan(job'[q].held)
  OBVIOUS
<1>1. /\ Suits(pc'[q], job'[q])
      /\ q # r => pc'[q] = pc[q] /\ job'[q] = job[q]
      /\ q = r => job'[q].held = blob[job'[q].lab]
  BY RequestsStay
<1>2. job'[q].lab \in Labs /\ job'[q].held # Absent
  BY <1>1, LabsAssumption DEF Suits
<1> QED
  BY <1>1, <1>2 DEF NoLabIsOrphan

LEMMA NoOrphans ==
    ASSUME NoLabIsOrphan,
           \A q \in Requests : pc'[q] = "redisSetLab" => ~Orphan(job'[q].held),
           \A l \in Labs : blob'[l] # blob[l] /\ blob'[l] # Absent => ~Orphan(blob'[l]),
           \A l \in Labs : copies'[l] # copies[l] /\ copies'[l] # Absent => ~Orphan(copies'[l])
    PROVE  NoLabIsOrphan'
  BY DEF NoLabIsOrphan, Orphan

\* What explains a stale key goes on explaining it while r does other things
\* than deleting keys.
LEMMA ExplainedStays ==
    ASSUME NEW r \in Requests, pc[r] \notin SweepPCs, unswept \subseteq unswept',
           \A q \in Requests \ {r} : pc'[q] = pc[q] /\ job'[q] = job[q],
           NEW l \in Labs, NEW key \in CopyKeys, Explained(l, key)
    PROVE  Explained(l, key)'
<1>1. CASE <<l, key>> \in unswept
  BY <1>1 DEF Explained
<1>2. CASE Sweeping(l, key)
  <2>1. PICK q \in Requests :
          /\ job[q] # NoJob /\ job[q].lab = l
          /\ pc[q] \in {"delNames", "delVersions"} \/ (pc[q] = "delLab" /\ key = "lab")
    BY <1>2 DEF Sweeping
  <2>2. q # r
    BY <2>1 DEF SweepPCs
  <2>3. pc'[q] = pc[q] /\ job'[q] = job[q]
    BY <2>2
  <2> QED
    BY <2>1, <2>3 DEF Explained, Sweeping
<1> QED
  BY <1>1, <1>2 DEF Explained

\* A step that changes neither labs nor what Redis says of them.
LEMMA QuietStep ==
    ASSUME IInv, NEW r \in Requests, Moves(r),
           pc[r] \notin SweepPCs \cup {"redisSetLab", "redisSetVersions"},
           UNCHANGED <<type, blob, stored, copies, versions, past, outdated, unswept, overtaken>>,
           names' \in {NoNames} \cup SUBSET Labs,
           issued' \subseteq Labs \cup Docs,
           docs' \subseteq Docs, erased' \subseteq Docs,
           docs \cup erased \subseteq docs' \cup erased'
    PROVE  IInv'
<1> USE DEF IInv
<1>1. /\ pc' \in [Requests -> PCs]
      /\ job' \in [Requests -> Jobs \cup {NoJob}]
      /\ \A q \in Requests : Suits(pc'[q], job'[q])
      /\ Prepared'
      /\ \A q \in Requests \ {r} : pc'[q] = pc[q] /\ job'[q] = job[q]
      /\ pc'[r] = "redisSetLab" => job'[r].held = blob[job'[r].lab]
  BY RequestsStay
<1>2. TypeOK'
  <2>1. \A q \in Requests : Suits(pc[q], job[q])'
    BY <1>1 DEF Suits, LabPCs, Versions, Orphan
  <2> QED
    BY <1>1, <2>1 DEF TypeOK
<1>3. Marks'
  BY <1>1 DEF Marks
<1>4. \A l \in Labs, key \in CopyKeys : Explained(l, key) => Explained(l, key)'
  BY <1>1, ExplainedStays
<1>5. StaleCopyIsExplained'
  BY <1>4 DEF StaleCopyIsExplained, CopyKeys
<1>6. StaleReadIsExplained'
  <2> SUFFICES ASSUME NEW q \in Requests, q \notin overtaken', NEW l \in Labs
               PROVE  /\ pc'[q] = "redisSetLab" /\ job'[q].lab = l /\ job'[q].held # blob'[l]
                            => Explained(l, "lab")'
                      /\ q \in outdated' /\ job'[q].lab = l => Explained(l, "versions")'
    BY DEF StaleReadIsExplained
  <2>1. CASE q = r
    BY <1>1, <2>1 DEF Marks
  <2>2. CASE q # r
    BY <1>1, <1>4, <2>2 DEF StaleReadIsExplained, CopyKeys
  <2> QED
    BY <2>1, <2>2
<1>7. NoLabIsOrphan'
  BY HeldStays, NoOrphans
<1>8. DocumentWasUploaded'
  BY DEF DocumentWasUploaded, Uploaded
<1> QED
  BY <1>1, <1>2, <1>3, <1>5, <1>6, <1>7, <1>8

-----------------------------------------------------------------------------
(* Requests that begin, and calls that change neither labs nor copies.      *)

LEMMA JobOf ==
    ASSUME TypeOK, NEW r \in Requests, pc[r] # "idle"
    PROVE  job[r] \in Jobs /\ Suits(pc[r], job[r])
  BY DEF TypeOK, Suits

LEMMA BlankJob == Blank \in Jobs
  BY DEF Blank, Jobs, Callers

\* A chain of returns that touches nothing but the names of the labs and ids.
LEMMA QuietChain ==
    ASSUME IInv, NEW r \in Requests, Fits(r),
           pc[r] \notin SweepPCs \cup {"redisSetLab", "redisSetVersions"},
           UNCHANGED <<type, blob, stored, docs, copies, versions, history>>,
           names' \in {NoNames} \cup SUBSET Labs,
           issued' \subseteq Labs \cup Docs
    PROVE  IInv'
  BY FitsMoves, QuietStep DEF IInv, TypeOK, history

LEMMA DownloadKeeps == ASSUME IInv, NEW r \in Requests, Download(r) PROVE IInv'
<1>1. /\ job[r] \in Jobs /\ Suits(pc[r], job[r]) /\ pc[r] = "getLab"
      /\ copies[job[r].lab] \in Versions \cup {Absent}
      /\ job[r].lab \in Labs
      /\ job[r].ret \in {"allowed", "validated"} => job[r].ver \in Versions
  BY JobOf DEF Download, IInv, TypeOK, Suits, LabPCs
<1>2. CASE Fits(r)
  BY <1>1, <1>2, QuietChain DEF Download, IInv, TypeOK, stores, SweepPCs
<1>3. CASE /\ blob[job[r].lab] # Absent
           /\ At(r, "redisSetLab", [job[r] EXCEPT !.held = blob[job[r].lab]])
  <2> DEFINE k == [job[r] EXCEPT !.held = blob[job[r].lab]]
  <2>1. blob[job[r].lab] \in Versions
    BY <1>1, <1>3 DEF IInv, TypeOK
  <2>2. /\ k \in Jobs /\ k.held = blob[job[r].lab] /\ k.lab = job[r].lab
        /\ k.ret = job[r].ret /\ k.ver = job[r].ver
    BY <1>1, <2>1 DEF Jobs
  <2>3. At(r, "redisSetLab", k)
    BY <1>3
  <2> HIDE DEF k
  <2>4. Suits("redisSetLab", k)
    BY <1>1, <2>1, <2>2, LabsAssumption DEF Suits, LabPCs
  <2>5. Moves(r)
    BY <2>2, <2>3, <2>4 DEF Moves, PCs, LabPCs
  <2> QED
    BY <1>1, <2>5, QuietStep DEF Download, IInv, TypeOK, stores, history, SweepPCs
<1>4. \/ \E old \in Versions \cup {Absent} : Returned(r, job[r], old)
      \/ /\ blob[job[r].lab] # Absent
         /\ At(r, "redisSetLab", [job[r] EXCEPT !.held = blob[job[r].lab]])
  BY <1>1 DEF Download
<1> QED
  BY <1>1, <1>2, <1>3, <1>4, ReturnedFits

LEMMA ListBlobsKeeps == ASSUME IInv, NEW r \in Requests, ListBlobs(r) PROVE IInv'
<1> DEFINE listed == {l \in Labs : blob[l] # Absent}
           j == [Blank EXCEPT !.op = "list", !.todo = names]
           k == [Blank EXCEPT !.op = "list", !.todo = listed]
<1>1. CASE names # NoNames /\ NextLab(r, j)
  <2>1. j \in Jobs
    BY <1>1, BlankJob DEF Jobs, IInv, TypeOK
  <2> HIDE DEF j
  <2>2. Fits(r)
    BY <1>1, <2>1, NextLabFits
  <2> QED
    BY <2>2, QuietChain DEF ListBlobs, IInv, TypeOK, stores, SweepPCs
<1>2. CASE At(r, "redisSetNames", k)
  <2>1. k \in Jobs
    BY BlankJob DEF Jobs
  <2> HIDE DEF k
  <2>2. Moves(r)
    BY <1>2, <2>1, LabsAssumption DEF Moves, Suits, PCs, LabPCs, ListPCs
  <2> QED
    BY <2>2, QuietStep DEF ListBlobs, IInv, TypeOK, stores, history, SweepPCs
<1> QED
  BY <1>1, <1>2 DEF ListBlobs

LEMMA RedisSetNamesKeeps == ASSUME IInv, NEW r \in Requests, RedisSetNames(r) PROVE IInv'
<1>1. job[r] \in Jobs /\ Fits(r)
  BY JobOf, NextLabFits DEF RedisSetNames, IInv
<1>2. names' \in {NoNames} \cup SUBSET Labs
  BY <1>1 DEF RedisSetNames, IInv, TypeOK, Jobs
<1> QED
  BY <1>1, <1>2, QuietChain DEF RedisSetNames, IInv, TypeOK, SweepPCs

LEMMA GetPrivateLabKeeps ==
    ASSUME IInv, NEW r \in Requests, NEW l \in Labs, GetPrivateLab(r, l) PROVE IInv'
<1>1. [Blank EXCEPT !.lab = l] \in Jobs /\ [Blank EXCEPT !.lab = l].lab \in Labs
  BY BlankJob DEF Jobs
<1>2. Fits(r)
  BY <1>1, GetLabFits DEF GetPrivateLab, Callers
<1> QED
  BY <1>2, QuietChain DEF GetPrivateLab, IInv, TypeOK, stores, SweepPCs

LEMMA GetLabWithVersionsKeeps ==
    ASSUME IInv, NEW r \in Requests, NEW l \in Labs, GetLabWithVersions(r, l) PROVE IInv'
<1> DEFINE k == [Blank EXCEPT !.lab = l]
<1>1. k \in Jobs /\ k.lab \in Labs
  BY BlankJob DEF Jobs
<1>2. At(r, "redisSetVersions", k)
  BY DEF GetLabWithVersions
<1> HIDE DEF k
<1>3. Moves(r)
  BY <1>1, <1>2, LabsAssumption DEF Moves, Suits, PCs, LabPCs, ListPCs
<1> QED
  BY <1>3, QuietStep DEF GetLabWithVersions, IInv, TypeOK, stores, history, SweepPCs

LEMMA SaveJobParts ==
    ASSUME NEW s \in Saves, NEW l \in Labs
    PROVE  /\ SaveJob(s, l) \in Jobs
           /\ SaveJob(s, l).lab = l /\ SaveJob(s, l).ver = s.ver
           /\ SaveJob(s, l).user \in Users /\ s.ver \in Versions
  BY LabsAssumption, BlankJob DEF SaveJob, Jobs, Blank

LEMMA SaveLabKeeps ==
    ASSUME IInv, NEW r \in Requests, NEW s \in Saves, NEW l \in Labs, SaveLab(r, s, l)
    PROVE  IInv'
<1> DEFINE j == SaveJob(s, l)
           k == Credited(j)
<1>1. j \in Jobs /\ j.lab \in Labs /\ j.ver \in Versions /\ j.user \in Users
  BY SaveJobParts
<1> HIDE DEF j
<1>2. k \in Jobs /\ k.lab \in Labs /\ k.ver \in Versions
  BY <1>1 DEF Credited, Jobs, Versions
<1>3. Upsert(r, k)
  BY DEF SaveLab, j
<1> HIDE DEF k
<1>4. Fits(r)
  BY <1>2, <1>3, UpsertFits
<1> QED
  BY <1>4, QuietChain DEF SaveLab, IInv, TypeOK, stores, SweepPCs

\* A document is stored for a request that does not go on.
LEMMA IdleStays ==
    ASSUME TypeOK, NEW r \in Requests, pc[r] = "idle", UNCHANGED <<pc, job>>
    PROVE  Moves(r)
<1>1. At(r, "idle", NoJob)
  BY DEF At, TypeOK, Suits
<1> QED
  BY <1>1, LabsAssumption DEF Moves, Suits, PCs, LabPCs

LEMMA UpsertLabWithSupportingDocumentKeeps ==
    ASSUME IInv, NEW r \in Requests, NEW s \in Saves, NEW l \in Labs,
           UpsertLabWithSupportingDocument(r, s, l)
    PROVE  IInv'
<1>1. CASE /\ issued' = issued \cup {l} /\ Upsert(r, SaveJob(s, l)) /\ UNCHANGED docs
  <2>1. Fits(r)
    BY <1>1, SaveJobParts, UpsertFits
  <2> QED
    BY <1>1, <2>1, QuietChain
    DEF UpsertLabWithSupportingDocument, IInv, TypeOK, SweepPCs
<1>2. ASSUME NEW d \in Docs, UploadDoc(d), issued' = issued \cup {l, d},
             Upsert(r, [SaveJob(s, l) EXCEPT !.ver.doc = d])
      PROVE  IInv'
  <2> DEFINE j == SaveJob(s, l)
             k == [j EXCEPT !.ver.doc = d]
  <2>1. j \in Jobs /\ j.lab \in Labs /\ j.ver \in Versions
    BY SaveJobParts
  <2>2. Upsert(r, k)
    BY <1>2
  <2> HIDE DEF j
  <2>3. k \in Jobs /\ k.lab \in Labs /\ k.ver \in Versions
    BY <2>1 DEF Jobs, Versions
  <2> HIDE DEF k
  <2>4. Moves(r)
    BY <2>2, <2>3, UpsertFits, FitsMoves DEF IInv
  <2> QED
    BY <1>2, <2>4, QuietStep
    DEF UpsertLabWithSupportingDocument, UploadDoc, IInv, TypeOK, SweepPCs, history
<1>3. ASSUME NEW d \in Docs, UploadDoc(d), issued' = issued \cup {d}, UNCHANGED <<pc, job>>
      PROVE  IInv'
  BY <1>3, IdleStays, QuietStep
  DEF UpsertLabWithSupportingDocument, UploadDoc, IInv, TypeOK, SweepPCs, history
<1> QED
  BY <1>1, <1>2, <1>3 DEF UpsertLabWithSupportingDocument

LEMMA UpsertSupportingDocumentKeeps ==
    ASSUME IInv, NEW r \in Requests, NEW d \in Docs, UpsertSupportingDocument(r, d)
    PROVE  IInv'
  BY IdleStays, QuietStep
  DEF UpsertSupportingDocument, UploadDoc, IInv, TypeOK, SweepPCs, history

LEMMA DocExistsKeeps == ASSUME IInv, NEW r \in Requests, DocExists(r) PROVE IInv'
<1>1. job[r] \in Jobs /\ Suits("docExists", job[r]) /\ ~Orphan(job[r].ver)
  BY JobOf DEF DocExists, IInv, Prepared
<1>2. CASE Saved(r, job[r])
  BY <1>1, <1>2, SavedFits, QuietChain DEF DocExists, IInv, TypeOK, stores, SweepPCs
<1>3. CASE job[r].ver.doc \in docs /\ At(r, "upload", job[r])
  <2>1. docs' = docs
    BY DEF DocExists, stores
  <2>2. PICK k \in Jobs : k = job[r]
    BY <1>1
  <2>3. Uploaded(k.ver.doc)'
    BY <1>3, <2>1, <2>2 DEF Uploaded
  <2>4. Moves(r)
    BY <1>1, <1>3, <2>2, <2>3 DEF Moves, Suits, PCs, LabPCs, SavePCs
  <2> QED
    BY <2>4, QuietStep DEF DocExists, IInv, TypeOK, stores, history, SweepPCs
<1> QED
  BY <1>2, <1>3 DEF DocExists

LEMMA DeleteLabKeeps ==
    ASSUME IInv, NEW r \in Requests, NEW p \in Users, NEW l \in Labs, DeleteLab(r, p, l)
    PROVE  IInv'
<1> DEFINE j == [Blank EXCEPT !.lab = l]
           k == [j EXCEPT !.user = p]
<1>1. j \in Jobs /\ j.lab \in Labs /\ k \in Jobs /\ k.lab \in Labs
  BY BlankJob DEF Jobs
<1>2. GetLab(r, j, "deleting") \/ GetLab(r, k, "deleteAllowed")
  BY DEF DeleteLab
<1> HIDE DEF j, k
<1>3. Fits(r)
  BY <1>1, <1>2, GetLabFits DEF Callers
<1> QED
  BY <1>3, QuietChain DEF DeleteLab, IInv, TypeOK, stores, SweepPCs

LEMMA DocumentGoneFits ==
    ASSUME TypeOK, NEW r \in Requests, pc[r] \in {"docExistsToDelete", "deleteDoc"},
           DocumentGone(r)
    PROVE  Fits(r)
<1> DEFINE k == [job[r] EXCEPT !.doc = NoDoc]
<1>1. /\ job[r] \in Jobs
      /\ job[r].op = "deleteDoc" \/ job[r].lab \in Labs
  BY JobOf DEF Suits
<1>2. CASE Done(r)
  BY <1>2, DoneFits
<1>3. CASE job[r].op # "deleteDoc" /\ At(r, "deleteBlob", k)
  <2>1. k \in Jobs /\ k.lab \in Labs
    BY <1>1, <1>3 DEF Jobs
  <2> HIDE DEF k
  <2> QED
    BY <1>3, <2>1, LabsAssumption DEF Fits, Suits, LabPCs, Onward
<1> QED
  BY <1>2, <1>3 DEF DocumentGone

LEMMA DocExistsToDeleteKeeps ==
    ASSUME IInv, NEW r \in Requests, DocExistsToDelete(r) PROVE IInv'
<1>1. job[r] \in Jobs /\ Suits("docExistsToDelete", job[r])
  BY JobOf DEF DocExistsToDelete, IInv
<1>2. CASE DocumentGone(r)
  BY <1>2, DocumentGoneFits, QuietChain DEF DocExistsToDelete, IInv, TypeOK, stores, SweepPCs
<1>3. CASE At(r, "deleteDoc", job[r])
  <2>1. Moves(r)
    BY <1>1, <1>3 DEF Moves, Suits, PCs, LabPCs, DeletePCs
  <2> QED
    BY <2>1, QuietStep DEF DocExistsToDelete, IInv, TypeOK, stores, history, SweepPCs
<1> QED
  BY <1>2, <1>3 DEF DocExistsToDelete

\* A document that goes is remembered.
LEMMA DeleteDocKeeps == ASSUME IInv, NEW r \in Requests, DeleteDoc(r) PROVE IInv'
<1>1. Fits(r)
  BY DocumentGoneFits, DoneFits DEF DeleteDoc, IInv
<1>2. Moves(r)
  BY <1>1, FitsMoves DEF IInv
<1>3. /\ docs' \subseteq docs
      /\ erased' = erased \cup (docs \ docs')
  BY DEF DeleteDoc
<1>4. docs' \subseteq Docs /\ erased' \subseteq Docs /\ docs \cup erased \subseteq docs' \cup erased'
  BY <1>3 DEF IInv, TypeOK
<1> QED
  BY <1>2, <1>4, QuietStep DEF DeleteDoc, IInv, TypeOK, SweepPCs

LEMMA DeleteSupportingDocumentKeeps ==
    ASSUME IInv, NEW r \in Requests, NEW d \in Docs, DeleteSupportingDocument(r, d)
    PROVE  IInv'
<1> DEFINE k == [Blank EXCEPT !.op = "deleteDoc", !.doc = d]
<1>1. k \in Jobs /\ k.doc \in Docs /\ k.op = "deleteDoc"
  BY BlankJob DEF Jobs
<1>2. At(r, "deleteDoc", k)
  BY DEF DeleteSupportingDocument
<1> HIDE DEF k
<1>3. Moves(r)
  BY <1>1, <1>2, LabsAssumption DEF Moves, Suits, PCs, LabPCs, DeletePCs
<1> QED
  BY <1>3, QuietStep DEF DeleteSupportingDocument, IInv, TypeOK, stores, history, SweepPCs

-----------------------------------------------------------------------------
(* Calls that change a lab or what Redis says of it.                        *)

\* A lab is stored or deleted: both keys are either still to be deleted by the
\* request or noted as left.
LEMMA StoreKeeps ==
    ASSUME IInv, NEW r \in Requests, Moves(r), pc[r] \in {"upload", "deleteBlob"},
           NEW l \in Labs, NEW v \in Versions \cup {Absent}, Store(l, v),
           v # Absent => ~Orphan(v) /\ Uploaded(v.doc),
           pc'[r] # "redisSetLab", unswept \subseteq unswept',
           unswept' \subseteq Labs \X CopyKeys,
           \/ AllKeys(l) \subseteq unswept'
           \/ pc'[r] = "delNames" /\ job'[r].lab = l,
           UNCHANGED <<type, docs, names, copies, issued, erased, overtaken>>
    PROVE  IInv'
<1> USE DEF IInv
<1>1. /\ pc' \in [Requests -> PCs]
      /\ job' \in [Requests -> Jobs \cup {NoJob}]
      /\ \A q \in Requests : Suits(pc'[q], job'[q])
      /\ Prepared'
      /\ \A q \in Requests \ {r} : pc'[q] = pc[q] /\ job'[q] = job[q]
  BY RequestsStay
<1>2. /\ blob' = [blob EXCEPT ![l] = v]
      /\ stored' = stored \cup {l}
      /\ past' \in [Labs -> SUBSET Access]
      /\ versions' = [versions EXCEPT ![l] = IF @ = Absent THEN Absent ELSE "old"]
      /\ outdated' = outdated \cup Filling("redisSetVersions", l)
  <2>1. v # Absent => Lists(v) \in Access
    BY DEF Lists, Access, Versions
  <2> QED
    BY <2>1 DEF Store, TypeOK
<1>3. TypeOK'
  <2>1. \A q \in Requests : Suits(pc[q], job[q])'
    BY <1>1 DEF Suits, LabPCs, Versions, Orphan
  <2>2. Filling("redisSetVersions", l) \subseteq Requests
    BY DEF Filling
  <2>3. blob' \in [Labs -> Versions \cup {Absent}]
    BY <1>2 DEF TypeOK
  <2>4. versions' \in [Labs -> Freshness \cup {Absent}]
    BY <1>2 DEF TypeOK, Freshness
  <2> QED
    BY <1>1, <1>2, <2>1, <2>2, <2>3, <2>4 DEF TypeOK
<1>4. Marks'
  BY <1>1, <1>2 DEF Marks, Filling
<1>5. \A key \in CopyKeys : Explained(l, key)'
  <2> SUFFICES ASSUME NEW key \in CopyKeys PROVE Explained(l, key)'
    OBVIOUS
  <2>1. CASE AllKeys(l) \subseteq unswept'
    BY <2>1 DEF AllKeys, Explained
  <2>2. CASE pc'[r] = "delNames" /\ job'[r].lab = l
    <3>1. job'[r] # NoJob
      BY <1>1, <2>2 DEF Suits
    <3> QED
      BY <2>2, <3>1 DEF Explained, Sweeping
  <2> QED
    BY <2>1, <2>2
<1>6. \A m \in Labs, key \in CopyKeys : Explained(m, key) => Explained(m, key)'
  BY <1>1, ExplainedStays DEF SweepPCs
<1>7. \A m \in Labs \ {l} : blob'[m] = blob[m] /\ versions'[m] = versions[m]
  BY <1>2 DEF TypeOK
<1>8. StaleCopyIsExplained'
  <2> SUFFICES ASSUME NEW m \in Labs
               PROVE  /\ copies'[m] \notin {Absent, blob'[m]} => Explained(m, "lab")'
                      /\ versions'[m] = "old" => Explained(m, "versions")'
    BY DEF StaleCopyIsExplained
  <2>1. CASE m = l
    BY <1>5, <2>1 DEF CopyKeys
  <2>2. CASE m # l
    BY <1>6, <1>7, <2>2 DEF StaleCopyIsExplained, CopyKeys
  <2> QED
    BY <2>1, <2>2
<1>9. StaleReadIsExplained'
  <2> SUFFICES ASSUME NEW q \in Requests, q \notin overtaken', NEW m \in Labs
               PROVE  /\ pc'[q] = "redisSetLab" /\ job'[q].lab = m /\ job'[q].held # blob'[m]
                            => Explained(m, "lab")'
                      /\ q \in outdated' /\ job'[q].lab = m => Explained(m, "versions")'
    BY DEF StaleReadIsExplained
  <2>1. CASE m = l
    BY <1>5, <2>1 DEF CopyKeys
  <2>2. CASE m # l /\ q = r
    BY <1>2, <2>2 DEF Marks, Filling
  <2>3. CASE m # l /\ q # r
    BY <1>1, <1>2, <1>6, <1>7, <2>3 DEF StaleReadIsExplained, CopyKeys, Filling
  <2> QED
    BY <2>1, <2>2, <2>3
<1>10. blob'[l] = v
  BY <1>2 DEF TypeOK
<1>11. NoLabIsOrphan'
  BY <1>7, <1>10, HeldStays, NoOrphans
<1>12. DocumentWasUploaded'
  <2> SUFFICES ASSUME NEW m \in Labs, blob'[m] # Absent
               PROVE  blob'[m].doc \in docs \cup erased \cup {NoDoc}
    BY DEF DocumentWasUploaded, Uploaded
  <2>1. CASE m = l
    BY <1>10, <2>1 DEF Uploaded
  <2>2. CASE m # l
    BY <1>7, <2>2 DEF DocumentWasUploaded, Uploaded
  <2> QED
    BY <2>1, <2>2
<1> QED
  BY <1>1, <1>3, <1>4, <1>8, <1>9, <1>11, <1>12

LEMMA UploadKeeps == ASSUME IInv, NEW r \in Requests, Upload(r) PROVE IInv'
<1> DEFINE l == job[r].lab
           v == job[r].ver
           k == [job[r] EXCEPT !.ver = Absent]
<1>1. /\ job[r] \in Jobs /\ pc[r] = "upload"
      /\ l \in Labs /\ v \in Versions /\ ~Orphan(v) /\ Uploaded(v.doc)
  BY JobOf DEF Upload, IInv, Suits, Prepared
<1>2. CASE Saved(r, job[r]) /\ UNCHANGED <<blob, stored, past, versions, outdated, unswept>>
  BY <1>1, <1>2, SavedFits, QuietChain DEF Upload, IInv, TypeOK, history, SweepPCs
<1>3. CASE At(r, "delNames", k) /\ Store(l, v) /\ UNCHANGED unswept
  <2>1. k \in Jobs /\ k.lab = l
    BY <1>1 DEF Jobs
  <2>2. At(r, "delNames", k)
    BY <1>3
  <2>3. pc'[r] = "delNames" /\ job'[r] = k
    BY <2>2 DEF At, IInv, TypeOK
  <2> HIDE DEF k
  <2>4. Moves(r)
    BY <1>1, <2>1, <2>2, LabsAssumption DEF Moves, Suits, PCs, LabPCs, SavePCs
  <2>5. unswept \subseteq unswept' /\ unswept' \subseteq Labs \X CopyKeys
    BY <1>3 DEF IInv, TypeOK
  <2>6. UNCHANGED <<type, docs, names, copies, issued, erased, overtaken>>
    BY DEF Upload
  <2>7. Store(l, v)
    BY <1>3
  <2> HIDE DEF l, v
  <2> QED
    BY <1>1, <2>1, <2>3, <2>4, <2>5, <2>6, <2>7, StoreKeeps
<1>4. CASE Saved(r, job[r]) /\ Store(l, v) /\ unswept' = unswept \cup AllKeys(l)
  <2>1. Moves(r) /\ pc'[r] # "redisSetLab"
    BY <1>1, <1>4, SavedFits, FitsMoves DEF IInv, Onward
  <2>2. /\ unswept \subseteq unswept' /\ unswept' \subseteq Labs \X CopyKeys
        /\ AllKeys(l) \subseteq unswept'
    BY <1>1, <1>4 DEF IInv, TypeOK, AllKeys
  <2>3. UNCHANGED <<type, docs, names, copies, issued, erased, overtaken>>
    BY DEF Upload
  <2>4. Store(l, v)
    BY <1>4
  <2> HIDE DEF l, v
  <2> QED
    BY <1>1, <2>1, <2>2, <2>3, <2>4, StoreKeeps
<1> QED
  BY <1>2, <1>3, <1>4 DEF Upload

LEMMA DeleteBlobKeeps == ASSUME IInv, NEW r \in Requests, DeleteBlob(r) PROVE IInv'
<1> DEFINE l == job[r].lab
<1>1. job[r] \in Jobs /\ pc[r] = "deleteBlob" /\ l \in Labs
  BY JobOf DEF DeleteBlob, IInv, Suits
<1>2. CASE Done(r) /\ UNCHANGED <<blob, stored, past, versions, outdated, unswept>>
  BY <1>1, <1>2, DoneFits, QuietChain DEF DeleteBlob, IInv, TypeOK, history, SweepPCs
<1>3. UNCHANGED <<type, docs, names, copies, issued, erased, overtaken>>
  BY DEF DeleteBlob
<1>4. CASE At(r, "delNames", job[r]) /\ Store(l, Absent) /\ UNCHANGED unswept
  <2>1. pc'[r] = "delNames" /\ job'[r].lab = l
    BY <1>4 DEF At, IInv, TypeOK
  <2>2. Moves(r)
    BY <1>1, <1>4, LabsAssumption DEF Moves, Suits, PCs, LabPCs, SavePCs
  <2>3. unswept \subseteq unswept' /\ unswept' \subseteq Labs \X CopyKeys
    BY <1>4 DEF IInv, TypeOK
  <2>4. Store(l, Absent)
    BY <1>4
  <2> HIDE DEF l
  <2> QED
    BY <1>1, <1>3, <2>1, <2>2, <2>3, <2>4, StoreKeeps
<1>5. CASE Done(r) /\ Store(l, Absent) /\ unswept' = unswept \cup AllKeys(l)
  <2>1. Moves(r) /\ pc'[r] # "redisSetLab"
    BY <1>5, DoneFits, FitsMoves DEF IInv, Onward
  <2>2. /\ unswept \subseteq unswept' /\ unswept' \subseteq Labs \X CopyKeys
        /\ AllKeys(l) \subseteq unswept'
    BY <1>1, <1>5 DEF IInv, TypeOK, AllKeys
  <2>3. Store(l, Absent)
    BY <1>5
  <2> HIDE DEF l
  <2> QED
    BY <1>1, <1>3, <2>1, <2>2, <2>3, StoreKeeps
<1> QED
  BY <1>2, <1>4, <1>5 DEF DeleteBlob

\* Redis changes, no lab does: what is left is to explain the keys.
LEMMA RedisStep ==
    ASSUME IInv, NEW r \in Requests, Moves(r),
           UNCHANGED <<type, blob, stored, docs, issued, erased, past>>,
           names' \in {NoNames} \cup SUBSET Labs,
           copies' \in [Labs -> Versions \cup {Absent}],
           \A l \in Labs : copies'[l] # copies[l] /\ copies'[l] # Absent => ~Orphan(copies'[l]),
           versions' \in [Labs -> Freshness \cup {Absent}],
           outdated' \subseteq outdated,
           overtaken' \subseteq Requests,
           unswept' \subseteq Labs \X CopyKeys,
           Marks', StaleCopyIsExplained', StaleReadIsExplained'
    PROVE  IInv'
<1> USE DEF IInv
<1>1. /\ pc' \in [Requests -> PCs]
      /\ job' \in [Requests -> Jobs \cup {NoJob}]
      /\ \A q \in Requests : Suits(pc'[q], job'[q])
      /\ Prepared'
  BY RequestsStay
<1>2. \A q \in Requests : Suits(pc[q], job[q])'
  BY <1>1 DEF Suits, LabPCs, Versions, Orphan
<1>3. TypeOK'
  BY <1>1, <1>2 DEF TypeOK
<1>4. NoLabIsOrphan'
  BY HeldStays, NoOrphans
<1>5. DocumentWasUploaded'
  BY DEF DocumentWasUploaded, Uploaded
<1> QED
  BY <1>1, <1>3, <1>4, <1>5

LEMMA RedisSetLabKeeps == ASSUME IInv, NEW r \in Requests, RedisSetLab(r) PROVE IInv'
<1> DEFINE l == job[r].lab
<1>1. /\ job[r] \in Jobs /\ pc[r] = "redisSetLab" /\ l \in Labs
      /\ job[r].held \in Versions
      /\ job[r].ret \in {"allowed", "validated"} => job[r].ver \in Versions
  BY JobOf DEF RedisSetLab, IInv, Suits, LabPCs
<1>2. Fits(r)
  BY <1>1, ReturnedFits DEF RedisSetLab
<1>3. Moves(r) /\ pc'[r] \in Onward
  BY <1>2, FitsMoves DEF IInv
<1>4. \A q \in Requests \ {r} : pc'[q] = pc[q] /\ job'[q] = job[q]
  BY <1>3, RequestsStay DEF IInv, RedisSetLab
<1>5. /\ copies' \in {copies, [copies EXCEPT ![l] = job[r].held]}
      /\ unswept \subseteq unswept' /\ unswept' \subseteq Labs \X CopyKeys
      /\ copies' # copies /\ r \in overtaken => <<l, "lab">> \in unswept'
  BY <1>1 DEF RedisSetLab, Refilled, IInv, TypeOK, CopyKeys
<1>6. overtaken' = overtaken \ {r}
  BY DEF RedisSetLab
<1>7. UNCHANGED <<type, blob, stored, docs, names, versions, issued, erased, past, outdated>>
  BY DEF RedisSetLab
<1>8. \A m \in Labs, key \in CopyKeys : Explained(m, key) => Explained(m, key)'
  BY <1>1, <1>4, <1>5, ExplainedStays DEF SweepPCs
<1>9. StaleCopyIsExplained'
  <2> SUFFICES ASSUME NEW m \in Labs
               PROVE  /\ copies'[m] \notin {Absent, blob'[m]} => Explained(m, "lab")'
                      /\ versions'[m] = "old" => Explained(m, "versions")'
    BY DEF StaleCopyIsExplained
  <2>1. versions'[m] = "old" => Explained(m, "versions")'
    BY <1>7, <1>8 DEF IInv, StaleCopyIsExplained, CopyKeys
  <2>2. CASE copies'[m] = copies[m]
    BY <1>7, <1>8, <2>1, <2>2 DEF IInv, StaleCopyIsExplained, CopyKeys
  <2>3. CASE copies'[m] # copies[m] /\ r \in overtaken
    <3>1. m = l
      BY <1>5, <2>3 DEF IInv, TypeOK
    <3> QED
      BY <1>5, <2>1, <2>3, <3>1 DEF Explained
  <2>4. CASE copies'[m] # copies[m] /\ r \notin overtaken
    <3>1. m = l /\ copies'[m] = job[r].held
      BY <1>5, <2>4 DEF IInv, TypeOK
    <3>2. job[r].held # blob[l] => Explained(l, "lab")
      BY <1>1, <2>4 DEF IInv, StaleReadIsExplained
    <3> QED
      BY <1>1, <1>7, <1>8, <2>1, <3>1, <3>2 DEF CopyKeys
  <2> QED
    BY <2>2, <2>3, <2>4
<1>10. Marks'
  BY <1>1, <1>3, <1>4, <1>6, <1>7 DEF IInv, Marks
<1>11. StaleReadIsExplained'
  <2> SUFFICES ASSUME NEW q \in Requests, q \notin overtaken', NEW m \in Labs
               PROVE  /\ pc'[q] = "redisSetLab" /\ job'[q].lab = m /\ job'[q].held # blob'[m]
                            => Explained(m, "lab")'
                      /\ q \in outdated' /\ job'[q].lab = m => Explained(m, "versions")'
    BY DEF StaleReadIsExplained
  <2>1. CASE q = r
    BY <1>1, <1>3, <1>7, <2>1 DEF IInv, Marks, Onward
  <2>2. CASE q # r
    BY <1>4, <1>6, <1>7, <1>8, <2>2 DEF IInv, StaleReadIsExplained, CopyKeys
  <2> QED
    BY <2>1, <2>2
<1>12. /\ copies' \in [Labs -> Versions \cup {Absent}]
       /\ \A m \in Labs : copies'[m] # copies[m] => copies'[m] = job[r].held
       /\ ~Orphan(job[r].held)
  BY <1>1, <1>5 DEF IInv, TypeOK, NoLabIsOrphan
<1>13. /\ names' \in {NoNames} \cup SUBSET Labs
       /\ versions' \in [Labs -> Freshness \cup {Absent}]
       /\ overtaken' \subseteq Requests
  BY <1>6, <1>7 DEF IInv, TypeOK
<1> QED
  BY <1>3, <1>5, <1>7, <1>9, <1>10, <1>11, <1>12, <1>13, RedisStep

LEMMA RedisSetVersionsKeeps ==
    ASSUME IInv, NEW r \in Requests, RedisSetVersions(r) PROVE IInv'
<1> DEFINE l == job[r].lab
<1>1. /\ job[r] \in Jobs /\ pc[r] = "redisSetVersions" /\ l \in Labs
  BY JobOf DEF RedisSetVersions, IInv, Suits
<1>2. Fits(r)
  BY DoneFits DEF RedisSetVersions
<1>3. Moves(r) /\ pc'[r] \in Onward
  BY <1>2, FitsMoves DEF IInv
<1>4. \A q \in Requests \ {r} : pc'[q] = pc[q] /\ job'[q] = job[q]
  BY <1>3, RequestsStay DEF IInv, RedisSetVersions
<1>5. /\ \/ versions' = versions
         \/ versions' = [versions EXCEPT ![l] = IF r \in outdated THEN "old" ELSE "current"]
      /\ unswept \subseteq unswept' /\ unswept' \subseteq Labs \X CopyKeys
      /\ versions' # versions /\ r \in overtaken => <<l, "versions">> \in unswept'
  BY <1>1 DEF RedisSetVersions, Refilled, IInv, TypeOK, CopyKeys
<1>6. overtaken' = overtaken \ {r} /\ outdated' = outdated \ {r}
  BY DEF RedisSetVersions
<1>7. UNCHANGED <<type, blob, stored, docs, names, copies, issued, erased, past>>
  BY DEF RedisSetVersions
<1>8. \A m \in Labs, key \in CopyKeys : Explained(m, key) => Explained(m, key)'
  BY <1>1, <1>4, <1>5, ExplainedStays DEF SweepPCs
<1>9. StaleCopyIsExplained'
  <2> SUFFICES ASSUME NEW m \in Labs
               PROVE  /\ copies'[m] \notin {Absent, blob'[m]} => Explained(m, "lab")'
                      /\ versions'[m] = "old" => Explained(m, "versions")'
    BY DEF StaleCopyIsExplained
  <2>1. copies'[m] \notin {Absent, blob'[m]} => Explained(m, "lab")'
    BY <1>7, <1>8 DEF IInv, StaleCopyIsExplained, CopyKeys
  <2>2. CASE versions'[m] = versions[m]
    BY <1>8, <2>1, <2>2 DEF IInv, StaleCopyIsExplained, CopyKeys
  <2>3. CASE versions'[m] # versions[m] /\ r \in overtaken
    <3>1. m = l
      BY <1>5, <2>3 DEF IInv, TypeOK
    <3> QED
      BY <1>5, <2>1, <2>3, <3>1 DEF Explained
  <2>4. CASE versions'[m] # versions[m] /\ r \notin overtaken
    <3>1. m = l /\ (versions'[m] = "old" => r \in outdated)
      BY <1>5, <2>4 DEF IInv, TypeOK
    <3>2. r \in outdated => Explained(l, "versions")
      BY <1>1, <2>4 DEF IInv, StaleReadIsExplained
    <3> QED
      BY <1>1, <1>8, <2>1, <3>1, <3>2 DEF CopyKeys
  <2> QED
    BY <2>2, <2>3, <2>4
<1>10. Marks'
  BY <1>1, <1>3, <1>4, <1>6 DEF IInv, Marks
<1>11. StaleReadIsExplained'
  <2> SUFFICES ASSUME NEW q \in Requests, q \notin overtaken', NEW m \in Labs
               PROVE  /\ pc'[q] = "redisSetLab" /\ job'[q].lab = m /\ job'[q].held # blob'[m]
                            => Explained(m, "lab")'
                      /\ q \in outdated' /\ job'[q].lab = m => Explained(m, "versions")'
    BY DEF StaleReadIsExplained
  <2>1. CASE q = r
    BY <1>3, <1>6, <2>1 DEF Onward
  <2>2. CASE q # r
    BY <1>4, <1>6, <1>7, <1>8, <2>2 DEF IInv, StaleReadIsExplained, CopyKeys
  <2> QED
    BY <2>1, <2>2
<1>12. versions' \in [Labs -> Freshness \cup {Absent}]
  BY <1>5 DEF IInv, TypeOK, Freshness
<1>13. /\ names' \in {NoNames} \cup SUBSET Labs
       /\ copies' \in [Labs -> Versions \cup {Absent}]
       /\ overtaken' \subseteq Requests /\ outdated' \subseteq outdated
  BY <1>6, <1>7 DEF IInv, TypeOK
<1> QED
  BY <1>3, <1>5, <1>7, <1>9, <1>10, <1>11, <1>12, <1>13, RedisStep

\* What explains a stale key goes on explaining it, but for the key gone that r
\* has now deleted.
LEMMA SweepStays ==
    ASSUME TypeOK, NEW r \in Requests, pc[r] \in SweepPCs,
           \A q \in Requests \ {r} : pc'[q] = pc[q] /\ job'[q] = job[q],
           NEW gone,
           unswept \ {gone} \subseteq unswept',
           \A key \in CopyKeys :
               \/ <<job[r].lab, key>> = gone \/ <<job[r].lab, key>> \in unswept'
               \/ pc[r] = "delLab" /\ key = "versions"
               \/ /\ pc'[r] \in {"delNames", "delVersions"} \/ (pc'[r] = "delLab" /\ key = "lab")
                  /\ job'[r] = job[r] /\ job[r] # NoJob,
           NEW l \in Labs, NEW key \in CopyKeys, Explained(l, key), <<l, key>> # gone
    PROVE  Explained(l, key)'
<1>1. CASE <<l, key>> \in unswept
  BY <1>1 DEF Explained
<1>2. CASE Sweeping(l, key)
  <2>1. PICK q \in Requests :
          /\ job[q] # NoJob /\ job[q].lab = l
          /\ pc[q] \in {"delNames", "delVersions"} \/ (pc[q] = "delLab" /\ key = "lab")
    BY <1>2 DEF Sweeping
  <2>2. CASE q = r
    <3>1. ~(pc[r] = "delLab" /\ key = "versions")
      BY <2>1, <2>2
    <3>2. CASE <<l, key>> \in unswept'
      BY <3>2 DEF Explained
    <3>3. CASE /\ pc'[r] \in {"delNames", "delVersions"} \/ (pc'[r] = "delLab" /\ key = "lab")
               /\ job'[r] = job[r] /\ job[r] # NoJob
      BY <2>1, <2>2, <3>3 DEF Explained, Sweeping
    <3> QED
      BY <2>1, <2>2, <3>1, <3>2, <3>3
  <2>3. CASE q # r
    <3>1. pc'[q] = pc[q] /\ job'[q] = job[q]
      BY <2>3
    <3> QED
      BY <2>1, <3>1 DEF Explained, Sweeping
  <2> QED
    BY <2>2, <2>3
<1> QED
  BY <1>1, <1>2 DEF Explained

LEMMA DelNamesKeeps == ASSUME IInv, NEW r \in Requests, DelNames(r) PROVE IInv'
<1>1. job[r] \in Jobs /\ pc[r] = "delNames" /\ Suits("delNames", job[r])
  BY JobOf DEF DelNames, IInv
<1>2. At(r, "delVersions", job[r])
  BY DEF DelNames
<1>3. Moves(r)
  BY <1>1, <1>2 DEF Moves, Suits, PCs, LabPCs, SavePCs
<1>4. \A q \in Requests \ {r} : pc'[q] = pc[q] /\ job'[q] = job[q]
  BY <1>3, RequestsStay DEF IInv, DelNames, history
<1>5. pc'[r] = "delVersions" /\ job'[r] = job[r] /\ job[r] # NoJob
  BY <1>1, <1>2, LabsAssumption DEF At, IInv, TypeOK
<1>6. UNCHANGED <<type, blob, stored, docs, copies, versions, issued, erased, past,
                  outdated, unswept, overtaken>>
  BY DEF DelNames, history
<1>7. \A l \in Labs, key \in CopyKeys : Explained(l, key) => Explained(l, key)'
  <2> SUFFICES ASSUME NEW l \in Labs, NEW key \in CopyKeys, Explained(l, key)
               PROVE Explained(l, key)'
    OBVIOUS
  <2>1. pc[r] \in SweepPCs
    BY <1>1 DEF SweepPCs
  <2>2. PICK gone : gone \notin Labs \X CopyKeys
    <3>1. <<l, "no key">> \notin Labs \X CopyKeys
      BY DEF CopyKeys
    <3> QED
      BY <3>1
  <2>3. <<l, key>> # gone
    BY <2>2
  <2> QED
    BY <1>4, <1>5, <1>6, <2>1, <2>3, SweepStays DEF IInv
<1>8. StaleCopyIsExplained'
  BY <1>6, <1>7 DEF IInv, StaleCopyIsExplained, CopyKeys
<1>9. Marks'
  BY <1>1, <1>4, <1>6 DEF IInv, Marks
<1>10. StaleReadIsExplained'
  <2> SUFFICES ASSUME NEW q \in Requests, q \notin overtaken', NEW m \in Labs
               PROVE  /\ pc'[q] = "redisSetLab" /\ job'[q].lab = m /\ job'[q].held # blob'[m]
                            => Explained(m, "lab")'
                      /\ q \in outdated' /\ job'[q].lab = m => Explained(m, "versions")'
    BY DEF StaleReadIsExplained
  <2>1. CASE q = r
    BY <1>1, <1>5, <1>6, <2>1 DEF IInv, Marks
  <2>2. CASE q # r
    BY <1>4, <1>6, <1>7, <2>2 DEF IInv, StaleReadIsExplained, CopyKeys
  <2> QED
    BY <2>1, <2>2
<1>11. names' \in {NoNames} \cup SUBSET Labs
  BY DEF DelNames, IInv, TypeOK
<1> QED
  BY <1>3, <1>6, <1>8, <1>9, <1>10, <1>11, RedisStep DEF IInv, TypeOK

LEMMA DelVersionsKeeps == ASSUME IInv, NEW r \in Requests, DelVersions(r) PROVE IInv'
<1> DEFINE l == job[r].lab
           gone == <<l, "versions">>
<1>1. job[r] \in Jobs /\ pc[r] = "delVersions" /\ Suits("delVersions", job[r]) /\ l \in Labs
  BY JobOf DEF DelVersions, IInv, Suits
<1>2. At(r, "delLab", job[r])
  BY DEF DelVersions
<1>3. Moves(r)
  BY <1>1, <1>2 DEF Moves, Suits, PCs, LabPCs, SavePCs
<1>4. \A q \in Requests \ {r} : pc'[q] = pc[q] /\ job'[q] = job[q]
  BY <1>3, RequestsStay DEF IInv, DelVersions
<1>5. pc'[r] = "delLab" /\ job'[r] = job[r] /\ job[r] # NoJob
  BY <1>1, <1>2, LabsAssumption DEF At, IInv, TypeOK
<1>6. UNCHANGED <<type, blob, stored, docs, names, copies, issued, erased, past, outdated>>
  BY DEF DelVersions
<1>7. \/ /\ versions' = [versions EXCEPT ![l] = Absent]
         /\ unswept' = unswept \ {gone}
         /\ overtaken' = overtaken \cup Filling("redisSetVersions", l)
      \/ /\ versions' = versions
         /\ unswept' = unswept \cup {gone}
         /\ overtaken' = overtaken
  BY DEF DelVersions, Swept, Unswept
<1>8. \A m \in Labs, key \in CopyKeys :
          Explained(m, key) /\ <<m, key>> # gone => Explained(m, key)'
  <2>1. pc[r] \in SweepPCs
    BY <1>1 DEF SweepPCs
  <2>2. unswept \ {gone} \subseteq unswept'
    BY <1>7
  <2> QED
    BY <1>4, <1>5, <2>1, <2>2, SweepStays DEF IInv, CopyKeys
<1>9. StaleCopyIsExplained'
  <2> SUFFICES ASSUME NEW m \in Labs
               PROVE  /\ copies'[m] \notin {Absent, blob'[m]} => Explained(m, "lab")'
                      /\ versions'[m] = "old" => Explained(m, "versions")'
    BY DEF StaleCopyIsExplained
  <2>1. <<m, "lab">> # gone
    OBVIOUS
  <2>2. copies'[m] \notin {Absent, blob'[m]} => Explained(m, "lab")'
    BY <1>6, <1>8, <2>1 DEF IInv, StaleCopyIsExplained, CopyKeys
  <2>3. CASE m = l
    BY <1>1, <1>7, <2>2, <2>3, LabsAssumption DEF IInv, TypeOK, Explained, Freshness
  <2>4. CASE m # l
    <3>1. versions'[m] = versions[m] /\ <<m, "versions">> # gone
      BY <1>7, <2>4 DEF IInv, TypeOK
    <3> QED
      BY <1>8, <2>2, <3>1 DEF IInv, StaleCopyIsExplained, CopyKeys
  <2> QED
    BY <2>3, <2>4
<1>10. Marks'
  BY <1>1, <1>4, <1>6, <1>7 DEF IInv, Marks, Filling
<1>11. StaleReadIsExplained'
  <2> SUFFICES ASSUME NEW q \in Requests, q \notin overtaken', NEW m \in Labs
               PROVE  /\ pc'[q] = "redisSetLab" /\ job'[q].lab = m /\ job'[q].held # blob'[m]
                            => Explained(m, "lab")'
                      /\ q \in outdated' /\ job'[q].lab = m => Explained(m, "versions")'
    BY DEF StaleReadIsExplained
  <2>1. CASE q = r
    BY <1>1, <1>5, <1>6, <2>1 DEF IInv, Marks
  <2>2. CASE q # r
    <3>1. q \notin overtaken /\ <<m, "lab">> # gone
      BY <1>7
    <3>2. pc'[q] = "redisSetLab" /\ job'[q].lab = m /\ job'[q].held # blob'[m]
              => Explained(m, "lab")'
      BY <1>4, <1>6, <1>8, <2>2, <3>1 DEF IInv, StaleReadIsExplained, CopyKeys
    <3>3. CASE m = l
      BY <1>1, <1>4, <1>6, <1>7, <2>2, <3>2, <3>3 DEF IInv, Marks, Filling, Explained
    <3>4. CASE m # l
      <4>1. <<m, "versions">> # gone
        BY <3>4
      <4> QED
        BY <1>4, <1>6, <1>8, <2>2, <3>1, <3>2, <4>1 DEF IInv, StaleReadIsExplained, CopyKeys
    <3> QED
      BY <3>3, <3>4
  <2> QED
    BY <2>1, <2>2
<1>12. /\ versions' \in [Labs -> Freshness \cup {Absent}]
       /\ overtaken' \subseteq Requests
       /\ unswept' \subseteq Labs \X CopyKeys
  BY <1>1, <1>7 DEF IInv, TypeOK, Filling, CopyKeys
<1> QED
  BY <1>3, <1>6, <1>9, <1>10, <1>11, <1>12, RedisStep DEF IInv, TypeOK

LEMMA DelLabKeeps == ASSUME IInv, NEW r \in Requests, DelLab(r) PROVE IInv'
<1> DEFINE l == job[r].lab
           gone == <<l, "lab">>
<1>1. job[r] \in Jobs /\ pc[r] = "delLab" /\ l \in Labs
  BY JobOf DEF DelLab, IInv, Suits
<1>2. Moves(r) /\ pc'[r] \in Onward
  BY <1>1, SavedFits, FitsMoves DEF DelLab, IInv
<1>3. \A q \in Requests \ {r} : pc'[q] = pc[q] /\ job'[q] = job[q]
  BY <1>2, RequestsStay DEF IInv, DelLab
<1>4. UNCHANGED <<type, blob, stored, docs, names, versions, issued, erased, past, outdated>>
  BY DEF DelLab
<1>5. \/ /\ copies' = [copies EXCEPT ![l] = Absent]
         /\ unswept' = unswept \ {gone}
         /\ overtaken' = overtaken \cup Filling("redisSetLab", l)
      \/ /\ copies' = copies
         /\ unswept' = unswept \cup {gone}
         /\ overtaken' = overtaken
  BY DEF DelLab, Swept, Unswept
<1>6. \A m \in Labs, key \in CopyKeys :
          Explained(m, key) /\ <<m, key>> # gone => Explained(m, key)'
  <2>1. pc[r] \in SweepPCs
    BY <1>1 DEF SweepPCs
  <2>2. unswept \ {gone} \subseteq unswept'
    BY <1>5
  <2>3. \A key \in CopyKeys : <<l, key>> = gone \/ (pc[r] = "delLab" /\ key = "versions")
    BY <1>1 DEF CopyKeys
  <2> QED
    BY <1>3, <2>1, <2>2, <2>3, SweepStays DEF IInv
<1>7. StaleCopyIsExplained'
  <2> SUFFICES ASSUME NEW m \in Labs
               PROVE  /\ copies'[m] \notin {Absent, blob'[m]} => Explained(m, "lab")'
                      /\ versions'[m] = "old" => Explained(m, "versions")'
    BY DEF StaleCopyIsExplained
  <2>1. <<m, "versions">> # gone
    OBVIOUS
  <2>2. versions'[m] = "old" => Explained(m, "versions")'
    BY <1>4, <1>6, <2>1 DEF IInv, StaleCopyIsExplained, CopyKeys
  <2>3. CASE m = l
    BY <1>1, <1>5, <2>2, <2>3 DEF IInv, TypeOK, Explained
  <2>4. CASE m # l
    <3>1. copies'[m] = copies[m] /\ <<m, "lab">> # gone
      BY <1>5, <2>4 DEF IInv, TypeOK
    <3> QED
      BY <1>4, <1>6, <2>2, <3>1 DEF IInv, StaleCopyIsExplained, CopyKeys
  <2> QED
    BY <2>3, <2>4
<1>8. Marks'
  BY <1>1, <1>2, <1>3, <1>4, <1>5 DEF IInv, Marks, Filling
<1>9. StaleReadIsExplained'
  <2> SUFFICES ASSUME NEW q \in Requests, q \notin overtaken', NEW m \in Labs
               PROVE  /\ pc'[q] = "redisSetLab" /\ job'[q].lab = m /\ job'[q].held # blob'[m]
                            => Explained(m, "lab")'
                      /\ q \in outdated' /\ job'[q].lab = m => Explained(m, "versions")'
    BY DEF StaleReadIsExplained
  <2>1. CASE q = r
    BY <1>1, <1>2, <1>4, <2>1 DEF IInv, Marks, Onward
  <2>2. CASE q # r
    <3>1. q \notin overtaken /\ <<m, "versions">> # gone
      BY <1>5
    <3>2. q \in outdated' /\ job'[q].lab = m => Explained(m, "versions")'
      BY <1>3, <1>4, <1>6, <2>2, <3>1 DEF IInv, StaleReadIsExplained, CopyKeys
    <3>3. CASE m = l
      BY <1>1, <1>3, <1>4, <1>5, <2>2, <3>2, <3>3 DEF Filling, Explained
    <3>4. CASE m # l
      <4>1. <<m, "lab">> # gone
        BY <3>4
      <4> QED
        BY <1>3, <1>4, <1>6, <2>2, <3>1, <3>2, <4>1 DEF IInv, StaleReadIsExplained, CopyKeys
    <3> QED
      BY <3>3, <3>4
  <2> QED
    BY <2>1, <2>2
<1>10. /\ copies' \in [Labs -> Versions \cup {Absent}]
       /\ \A m \in Labs : copies'[m] \in {copies[m], Absent}
       /\ overtaken' \subseteq Requests
       /\ unswept' \subseteq Labs \X CopyKeys
  BY <1>1, <1>5 DEF IInv, TypeOK, Filling, CopyKeys
<1> QED
  BY <1>2, <1>4, <1>7, <1>8, <1>9, <1>10, RedisStep DEF IInv, TypeOK

LEMMA RestartKeeps == ASSUME IInv, Restart PROVE IInv'
<1> USE DEF IInv
<1>1. /\ pc' = [r \in Requests |-> "idle"]
      /\ job' = [r \in Requests |-> NoJob]
      /\ unswept' = unswept \cup {k \in Labs \X CopyKeys : Sweeping(k[1], k[2])}
      /\ overtaken' = {} /\ outdated' = {}
      /\ UNCHANGED <<type, blob, stored, docs, names, copies, versions, issued, erased, past>>
  BY DEF Restart, stores
<1>2. TypeOK'
  <2>1. \A r \in Requests : Suits(pc[r], job[r])'
    BY <1>1 DEF Suits, LabPCs
  <2> QED
    BY <1>1, <2>1 DEF TypeOK, PCs
<1>3. Prepared' /\ Marks'
  BY <1>1 DEF Prepared, Marks
<1>4. \A l \in Labs, key \in CopyKeys : Explained(l, key) => Explained(l, key)'
  BY <1>1 DEF Explained
<1>5. StaleCopyIsExplained'
  BY <1>1, <1>4 DEF StaleCopyIsExplained, CopyKeys
<1>6. StaleReadIsExplained'
  BY <1>1 DEF StaleReadIsExplained
<1>7. NoLabIsOrphan'
  BY <1>1, NoOrphans
<1>8. DocumentWasUploaded'
  BY <1>1 DEF DocumentWasUploaded, Uploaded
<1> QED
  BY <1>2, <1>3, <1>5, <1>6, <1>7, <1>8

-----------------------------------------------------------------------------

LEMMA InitIInv == Init => IInv
<1> SUFFICES ASSUME Init PROVE IInv
  OBVIOUS
<1>1. \A r \in Requests : pc[r] = "idle" /\ job[r] = NoJob
  BY DEF Init
<1>2. \A r \in Requests : Suits(pc[r], job[r])
  BY <1>1 DEF Suits, LabPCs
<1>3. \A l \in Labs : blob[l] = Absent /\ copies[l] = Absent /\ versions[l] = Absent
  BY DEF Init
<1>4. TypeOK
  <2>1. pc \in [Requests -> PCs] /\ job \in [Requests -> Jobs \cup {NoJob}]
    BY DEF Init, PCs
  <2>2. /\ blob \in [Labs -> Versions \cup {Absent}]
        /\ copies \in [Labs -> Versions \cup {Absent}]
        /\ versions \in [Labs -> Freshness \cup {Absent}]
    BY DEF Init
  <2> QED
    BY <1>2, <2>1, <2>2 DEF Init, TypeOK
<1>5. Prepared /\ Marks
  BY <1>1 DEF Init, Prepared, Marks
<1>6. StaleCopyIsExplained
  BY <1>3, LabsAssumption DEF StaleCopyIsExplained, Freshness
<1>7. StaleReadIsExplained
  BY <1>1 DEF Init, StaleReadIsExplained
<1>8. NoLabIsOrphan /\ DocumentWasUploaded
  BY <1>1, <1>3 DEF NoLabIsOrphan, DocumentWasUploaded
<1> QED
  BY <1>4, <1>5, <1>6, <1>7, <1>8 DEF IInv

LEMMA StutterKeeps == ASSUME IInv, UNCHANGED vars PROVE IInv'
<1> USE DEF IInv, vars
<1>1. TypeOK'
  BY DEF TypeOK, Suits, LabPCs
<1>2. Prepared' /\ Marks' /\ DocumentWasUploaded'
  BY DEF Prepared, Marks, DocumentWasUploaded, Orphan, Uploaded
<1>3. StaleCopyIsExplained' /\ StaleReadIsExplained'
  BY DEF StaleCopyIsExplained, StaleReadIsExplained, Explained, Sweeping
<1>4. NoLabIsOrphan'
  BY DEF NoLabIsOrphan, Orphan
<1> QED
  BY <1>1, <1>2, <1>3, <1>4

LEMMA NextKeeps == IInv /\ [Next]_vars => IInv'
<1> SUFFICES ASSUME IInv, [Next]_vars PROVE IInv'
  OBVIOUS
<1>1. CASE UNCHANGED vars
  BY <1>1, StutterKeeps
<1>2. CASE Restart
  BY <1>2, RestartKeeps
<1>3. ASSUME NEW r \in Requests, NewRequest(r) PROVE IInv'
  BY <1>3, ListBlobsKeeps, GetPrivateLabKeeps, GetLabWithVersionsKeeps, SaveLabKeeps,
     UpsertLabWithSupportingDocumentKeeps, DeleteLabKeeps, UpsertSupportingDocumentKeeps,
     DeleteSupportingDocumentKeeps
  DEF NewRequest
<1>4. ASSUME NEW r \in Requests, Call(r) PROVE IInv'
  BY <1>4, DownloadKeeps, RedisSetLabKeeps, RedisSetNamesKeeps, RedisSetVersionsKeeps,
     DocExistsKeeps, UploadKeeps, DocExistsToDeleteKeeps, DeleteDocKeeps, DeleteBlobKeeps,
     DelNamesKeeps, DelVersionsKeeps, DelLabKeeps
  DEF Call
<1> QED
  BY <1>1, <1>2, <1>3, <1>4 DEF Next

\* Through any interleaving, failing and restart of requests, what is in Redis and
\* in the container keeps what the theorems below say, together with what a
\* request about to write has checked.
\* (internal/service/lab.go, repository/lab.go)
THEOREM LabsInvariant == Spec => []IInv
<1>1. Init => IInv
  BY InitIInv
<1>2. IInv /\ [Next]_vars => IInv'
  BY NextKeeps
<1> QED
  BY <1>1, <1>2, PTL DEF Spec

\* The blobs, the keys in Redis and the requests have their types, and a request
\* has what its next call needs, for any number of labs and requests.
\* (internal/service/lab.go, repository/lab.go)
THEOREM LabsTypeCorrect == Spec => []TypeOK
<1>1. IInv => TypeOK
  BY DEF IInv
<1> QED
  BY <1>1, LabsInvariant, PTL

\* A copy of a lab or a list of its versions in Redis that is not what the
\* container holds is one a request is still to delete, or one of the named
\* lost or overtaken deletions, for any number of overlapping requests.
\* (internal/repository/lab.go:115-344)
THEOREM StaleCopiesExplained == Spec => []StaleCopyIsExplained
<1>1. IInv => StaleCopyIsExplained
  BY DEF IInv
<1> QED
  BY <1>1, LabsInvariant, PTL

\* What a request has downloaded and is about to store in Redis is what the
\* container holds, or old for one of the same reasons.
\* (internal/repository/lab.go:115-344)
THEOREM StaleReadsExplained == Spec => []StaleReadIsExplained
<1>1. IInv => StaleReadIsExplained
  BY DEF IInv
<1> QED
  BY <1>1, LabsInvariant, PTL

\* Whatever lists of owners clients send, with or without empty names, what
\* GetLab gives to the checks, from Redis or from the container, is never a lab
\* they take for one without owners.
\* (internal/service/lab.go:354-400, 416-419, 444-447)
THEOREM NoLabsAreOrphans == Spec => []NoLabIsOrphan
<1>1. IInv => NoLabIsOrphan
  BY DEF IInv
<1> QED
  BY <1>1, LabsInvariant, PTL

\* A document a lab names has been uploaded, for any number of failing and
\* overlapping requests.
\* (internal/service/lab.go:205-211, handler/lab.go:238-248)
THEOREM DocumentsWereUploaded == Spec => []DocumentWasUploaded
<1>1. IInv => DocumentWasUploaded
  BY DEF IInv
<1> QED
  BY <1>1, LabsInvariant, PTL

-----------------------------------------------------------------------------
(* Edits are by those listed.  The same chain of returns, followed for what  *)
(* its checks have found out about the request.                              *)

\* Request r has gone on to a call the checks before it have cleared it for.
Cleared(at, k) ==
    /\ Checked(at, k)
    /\ at \in WritePCs => k.lab \in issued /\ Vetted(k)

Goes(r) == \E at \in PCs, k \in Jobs \cup {NoJob} : At(r, at, k) /\ Cleared(at, k)

LEMMA DoneGoes == ASSUME NEW r, Done(r) PROVE Goes(r)
<1>1. Cleared("idle", NoJob)
  BY DEF Cleared, Checked, LabPCs, WritePCs
<1> QED
  BY <1>1 DEF Done, Goes, PCs

LEMMA GetLabGoes ==
    ASSUME NEW r, NEW j \in Jobs, NEW caller \in Callers, GetLab(r, j, caller), ~j.new,
           caller = "listed" => j.op = "list",
           caller = "validated" =>
               \/ j.op = "list" /\ Lists(j.ver) \in past[j.lab]
               \/ \E a \in past[j.lab] :
                      Contains(a.owners, j.ver.updatedBy) \/ Contains(a.editors, j.ver.updatedBy)
    PROVE  Goes(r)
<1> DEFINE k == [j EXCEPT !.ret = caller]
<1>1. /\ k \in Jobs /\ k.lab = j.lab /\ k.ver = j.ver /\ k.ret = caller
      /\ k.op = j.op /\ k.new = j.new
  BY DEF Jobs
<1>2. At(r, "getLab", k)
  BY DEF GetLab
<1> HIDE DEF k
<1>3. Cleared("getLab", k)
  BY <1>1 DEF Cleared, Checked, WritePCs
<1> QED
  BY <1>1, <1>2, <1>3 DEF Goes, PCs, LabPCs

LEMMA NextLabGoes ==
    ASSUME NEW r, NEW j \in Jobs, NextLab(r, j), ~j.new, j.op = "list"
    PROVE  Goes(r)
<1>1. CASE Done(r)
  BY <1>1, DoneGoes
<1>2. ASSUME NEW l \in j.todo, GetLab(r, [j EXCEPT !.lab = l, !.todo = @ \ {l}], "listed")
      PROVE Goes(r)
  <2> DEFINE k == [j EXCEPT !.lab = l, !.todo = @ \ {l}]
  <2>1. k \in Jobs /\ k.op = "list" /\ ~k.new
    BY DEF Jobs
  <2>2. "listed" \in Callers
    BY DEF Callers
  <2>3. GetLab(r, k, "listed")
    BY <1>2
  <2> HIDE DEF k
  <2> QED
    BY <2>1, <2>2, <2>3, GetLabGoes
<1> QED
  BY <1>1, <1>2, Zenon DEF NextLab

LEMMA SavedGoes ==
    ASSUME NEW r, NEW j \in Jobs, Saved(r, j), ~j.new
    PROVE  Goes(r)
<1> DEFINE k == [j EXCEPT !.ver = Absent]
<1>1. k \in Jobs /\ k.op = j.op /\ ~k.new
  BY DEF Jobs
<1>2. IF j.op = "list" THEN NextLab(r, k) ELSE Done(r)
  BY DEF Saved
<1> HIDE DEF k
<1> QED
  BY <1>1, <1>2, NextLabGoes, DoneGoes

\* Completing a lab that is not new keeps its last editor, and its lists too when
\* they are lists the lab has had.
LEMMA WriteGoes ==
    ASSUME ReadsWereStored, NEW r, NEW j \in Jobs, Write(r, j), ~j.new,
           j.lab \in Labs, j.ver \in Versions, Vetted(j)
    PROVE  Goes(r)
<1> DEFINE v == AssignOwnerToOrphanLab(j.ver, j.creator)
           at == IF v.doc = NoDoc THEN "upload" ELSE "docExists"
           k == [j EXCEPT !.ver = v, !.new = FALSE, !.creator = NoUser]
<1>1. v \in Versions
  BY AssignedIsNoOrphan DEF Jobs
<1>2. v.updatedBy = j.ver.updatedBy
  BY DEF AssignOwnerToOrphanLab, Versions
<1>3. Lists(j.ver) \in past[j.lab] => v = j.ver
  BY DEF ReadsWereStored, Orphan, Lists, AssignOwnerToOrphanLab
<1>4. At(r, at, k)
  BY DEF Write, NewLabThings
<1> HIDE DEF v
<1>5. /\ k \in Jobs /\ k.ver = v /\ k.lab = j.lab /\ k.op = j.op /\ ~k.new
  BY <1>1 DEF Jobs
<1>6. at \in WritePCs
  BY DEF WritePCs
<1> HIDE DEF at, k
<1>7. Vetted(k)
  <2>1. CASE \E a \in past[j.lab] : Contains(a.owners, j.ver.updatedBy)
    BY <1>2, <1>5, <2>1 DEF Vetted
  <2>2. CASE Lists(j.ver) \in past[j.lab]
    BY <1>3, <1>5, <2>2 DEF Vetted
  <2> QED
    BY <2>1, <2>2 DEF Vetted
<1>8. k.lab \in issued
  BY <1>5 DEF Vetted, ReadsWereStored
<1>9. Cleared(at, k)
  BY <1>5, <1>6, <1>7, <1>8 DEF Cleared, Checked, WritePCs, LabPCs
<1> QED
  BY <1>4, <1>5, <1>6, <1>9 DEF Goes, PCs, SavePCs, WritePCs

LEMMA AddCategoryGoes ==
    ASSUME NEW r, NEW j \in Jobs, NEW old \in Versions \cup {Absent},
           AddCategoryToLabIfMissing(r, j, old), ~j.new, j.op = "list",
           old = Absent \/ Lists(old) \in past[j.lab]
    PROVE  Goes(r)
<1>1. CASE NextLab(r, j)
  BY <1>1, NextLabGoes
<1>2. CASE old # Absent /\ UpsertLab(r, [j EXCEPT !.ver = [old EXCEPT !.categorised = TRUE]])
  <2> DEFINE v == [old EXCEPT !.categorised = TRUE]
             k == [j EXCEPT !.ver = v]
  <2>1. v \in Versions /\ Lists(v) = Lists(old)
    BY <1>2 DEF Versions, Lists
  <2> HIDE DEF v
  <2>2. k \in Jobs /\ k.lab = j.lab /\ k.ver = v /\ k.op = "list" /\ ~k.new
    BY <2>1 DEF Jobs
  <2>3. UpsertLab(r, k)
    BY <1>2 DEF v
  <2> HIDE DEF k
  <2>4. GetLab(r, k, "validated")
    BY <2>2, <2>3 DEF UpsertLab
  <2>5. "validated" \in Callers
    BY DEF Callers
  <2>6. k.op = "list" /\ Lists(k.ver) \in past[k.lab]
    BY <1>2, <2>1, <2>2
  <2> QED
    BY <2>2, <2>4, <2>5, <2>6, GetLabGoes
<1> QED
  BY <1>1, <1>2 DEF AddCategoryToLabIfMissing

LEMMA DeleteLabDocumentGoes ==
    ASSUME NEW r, NEW j \in Jobs, NEW old \in Versions \cup {Absent},
           DeleteLabDocument(r, j, old), ~j.new
    PROVE  Goes(r)
<1>1. CASE Done(r)
  BY <1>1, DoneGoes
<1>2. CASE old # Absent /\ At(r, IF old.doc = NoDoc THEN "deleteBlob" ELSE "docExistsToDelete",
                              [j EXCEPT !.doc = old.doc])
  <2> DEFINE at == IF old.doc = NoDoc THEN "deleteBlob" ELSE "docExistsToDelete"
             k == [j EXCEPT !.doc = old.doc]
  <2>1. old.doc \in Docs \cup {NoDoc}
    BY <1>2 DEF Versions
  <2>2. k \in Jobs /\ ~k.new
    BY <2>1 DEF Jobs
  <2>3. at \in DeletePCs
    BY DEF DeletePCs
  <2>4. At(r, at, k)
    BY <1>2
  <2> HIDE DEF at, k
  <2>5. Cleared(at, k)
    BY <2>2, <2>3 DEF Cleared, Checked, LabPCs, WritePCs, DeletePCs
  <2> QED
    BY <2>2, <2>3, <2>4, <2>5 DEF Goes, PCs
<1> QED
  BY <1>1, <1>2 DEF DeleteLabDocument

\* The two checks: what GetLab returns, from Redis or from the container, is a
\* version the lab has had.
LEMMA ReturnedGoes ==
    ASSUME ReadsWereStored, NEW r, NEW i \in Jobs, NEW old \in Versions \cup {Absent},
           Returned(r, i, old), i.lab \in Labs, Checked("getLab", i),
           i.ret \in {"allowed", "validated"} => i.ver \in Versions,
           old = Absent \/ Lists(old) \in past[i.lab]
    PROVE  Goes(r)
<1> DEFINE j == [i EXCEPT !.held = Absent, !.ret = "listed"]
           k == [j EXCEPT !.user = NoUser]
<1>1. /\ j \in Jobs /\ j.lab = i.lab /\ j.ver = i.ver /\ j.op = i.op /\ j.new = i.new
      /\ k \in Jobs /\ ~k.new
      /\ ~i.new
  BY DEF Jobs, Checked, Callers
<1> HIDE DEF k
<1>2. old # Absent => ~Orphan(old)
  BY DEF ReadsWereStored, Orphan, Lists
<1>3. CASE i.ret = "read"
  BY <1>3, DoneGoes DEF Returned
<1>4. CASE i.ret = "listed"
  <2>1. AddCategoryToLabIfMissing(r, j, old)
    BY <1>4 DEF Returned
  <2>2. i.op = "list"
    BY <1>4 DEF Checked, LabPCs
  <2> HIDE DEF j
  <2> QED
    BY <1>1, <2>1, <2>2, AddCategoryGoes
<1>5. CASE i.ret = "allowed"
  <2>1. IF IsUpsertAllowed(old, j.ver) THEN UpsertLab(r, j) ELSE Done(r)
    BY <1>5 DEF Returned
  <2> HIDE DEF j
  <2>2. CASE IsUpsertAllowed(old, j.ver)
    <3>1. Lists(old) \in past[j.lab]
      BY <1>1, <2>2 DEF IsUpsertAllowed
    <3>2. \/ Contains(Lists(old).owners, j.ver.updatedBy)
          \/ Contains(Lists(old).editors, j.ver.updatedBy)
      BY <1>2, <2>2 DEF IsUpsertAllowed, Lists
    <3>3. GetLab(r, j, "validated")
      BY <1>1, <2>1, <2>2 DEF UpsertLab
    <3>4. "validated" \in Callers
      BY DEF Callers
    <3> QED
      BY <1>1, <3>1, <3>2, <3>3, <3>4, GetLabGoes
  <2> QED
    BY <2>1, <2>2, DoneGoes
<1>6. CASE i.ret = "validated"
  <2>1. IF ValidateAddingEditorsOrViewers(old, j.ver) THEN Write(r, j) ELSE Saved(r, j)
    BY <1>6 DEF Returned
  <2>2. \/ i.op = "list" /\ Lists(i.ver) \in past[i.lab]
        \/ \E a \in past[i.lab] :
               Contains(a.owners, i.ver.updatedBy) \/ Contains(a.editors, i.ver.updatedBy)
    BY <1>6 DEF Checked, LabPCs
  <2>3. i.ver \in Versions
    BY <1>6
  <2> HIDE DEF j
  <2>4. CASE ValidateAddingEditorsOrViewers(old, j.ver)
    <3>1. Lists(old) \in past[j.lab]
      BY <1>1, <2>4 DEF ValidateAddingEditorsOrViewers
    <3>2. Contains(old.owners, j.ver.updatedBy) \/ Lists(j.ver) = Lists(old)
      BY <1>2, <2>4 DEF ValidateAddingEditorsOrViewers, Lists
    <3>3. Vetted(j)
      <4>1. CASE Contains(Lists(old).owners, j.ver.updatedBy)
        BY <3>1, <4>1 DEF Vetted
      <4>2. CASE Lists(j.ver) = Lists(old)
        BY <1>1, <2>2, <3>1, <4>2 DEF Vetted
      <4> QED
        BY <3>2, <4>1, <4>2 DEF Lists
    <3> QED
      BY <1>1, <2>1, <2>3, <2>4, <3>3, WriteGoes
  <2> QED
    BY <1>1, <2>1, <2>4, SavedGoes
<1>7. CASE i.ret = "deleteAllowed"
  <2>1. GetLab(r, k, "deleting") \/ Done(r)
    BY <1>7 DEF Returned, k
  <2>2. "deleting" \in Callers
    BY DEF Callers
  <2> QED
    BY <1>1, <2>1, <2>2, GetLabGoes, DoneGoes
<1>8. CASE i.ret = "deleting"
  <2>1. DeleteLabDocument(r, j, old)
    BY <1>8 DEF Returned
  <2> HIDE DEF j
  <2> QED
    BY <1>1, <2>1, DeleteLabDocumentGoes
<1> QED
  BY <1>3, <1>4, <1>5, <1>6, <1>7, <1>8 DEF Jobs, Callers

-----------------------------------------------------------------------------
(* EditInv, by kinds of steps, for the types whose labs have owners to ask.  *)

\* A step of r that is past its checks, or is the first to write a new lab; only
\* one that writes its lab adds to what the lab has been.
LEMMA EditStep ==
    ASSUME TypeOK, TypeOK', EditInv, type = "owned", NEW r \in Requests,
           NEW at \in PCs, NEW k \in Jobs \cup {NoJob}, At(r, at, k), Checked(at, k),
           at \in WritePCs =>
               /\ k.lab \in issued'
               /\ \/ Vetted(k)
                  \/ /\ past'[k.lab] = {}
                     /\ \A q \in Requests \ {r} : pc[q] \in WritePCs => job[q].lab # k.lab,
           issued \subseteq issued',
           \A l \in Labs : past[l] \subseteq past'[l],
           \A l \in Labs : past'[l] = past[l] \/ (pc[r] \in WritePCs /\ job[r].lab = l),
           ReadsWereStored'
    PROVE  EditInv'
<1>1. ReadsWereStored /\ (\A q \in Requests : Checked(pc[q], job[q])) /\ WritesAreVetted
  BY DEF EditInv
<1>2. /\ pc'[r] = at /\ job'[r] = k
      /\ \A q \in Requests \ {r} : pc'[q] = pc[q] /\ job'[q] = job[q]
  BY DEF At, TypeOK
<1>3. \A q \in Requests : pc'[q] \in LabPCs \cup WritePCs => job'[q].lab \in Labs
  BY DEF TypeOK, Suits, LabPCs, WritePCs
<1>4. \A q \in Requests : Checked(pc'[q], job'[q])
  BY <1>1, <1>2
<1>5. ASSUME NEW q \in Requests PROVE Checked(pc[q], job[q])'
  <2>1. pc'[q] \in LabPCs => past[job'[q].lab] \subseteq past'[job'[q].lab]
    BY <1>3
  <2>2. Checked(pc'[q], job'[q])
    BY <1>4
  <2> QED
    BY <2>1, <2>2 DEF Checked, LabPCs
<1>6. ASSUME NEW q \in Requests, pc'[q] \in WritePCs
      PROVE  (job[q].lab \in issued /\ (Vetted(job[q]) \/ FirstWriter(q)))'
  <2>1. job'[q].lab \in Labs
    BY <1>3, <1>6
  <2>2. Vetted(job'[q]) => Vetted(job[q])'
    BY <2>1 DEF Vetted
  <2>3. CASE q = r
    <3>1. at \in WritePCs /\ k.lab \in issued' /\ job'[q] = k
      BY <1>2, <1>6, <2>3
    <3>2. CASE Vetted(k)
      BY <2>2, <3>1, <3>2
    <3>3. CASE /\ past'[k.lab] = {}
               /\ \A p \in Requests \ {r} : pc[p] \in WritePCs => job[p].lab # k.lab
      BY <1>2, <2>3, <3>1, <3>3 DEF FirstWriter
    <3> QED
      BY <3>1, <3>2, <3>3
  <2>4. CASE q # r
    <3>1. /\ pc[q] \in WritePCs /\ job'[q] = job[q] /\ job[q].lab \in issued
          /\ Vetted(job[q]) \/ FirstWriter(q)
      BY <1>1, <1>2, <1>6, <2>4 DEF WritesAreVetted
    <3>2. CASE Vetted(job[q])
      BY <2>2, <3>1, <3>2
    <3>3. CASE FirstWriter(q)
      <4>1. past[job[q].lab] = {}
        BY <3>3 DEF FirstWriter
      <4>2. past'[job[q].lab] = {}
        BY <2>1, <2>4, <3>1, <3>3, <4>1 DEF FirstWriter
      <4>3. at \in WritePCs => k.lab # job[q].lab
        BY <2>4, <3>1, <4>1 DEF Vetted
      <4> QED
        BY <1>2, <2>4, <3>1, <3>3, <4>2, <4>3 DEF FirstWriter
    <3> QED
      BY <3>1, <3>2, <3>3
  <2> QED
    BY <2>3, <2>4
<1>7. WritesAreVetted'
  BY <1>6 DEF WritesAreVetted
<1> QED
  BY <1>5, <1>7 DEF EditInv

\* What a lab has been and what is kept of it stay as they are.
LEMMA ReadsStay ==
    ASSUME ReadsWereStored, issued \subseteq issued', UNCHANGED <<blob, copies, past>>
    PROVE  ReadsWereStored'
  BY DEF ReadsWereStored, Orphan, Lists

\* A request goes on, and no lab and no copy of one is touched.
LEMMA GoesStep ==
    ASSUME TypeOK, TypeOK', EditInv, type = "owned", NEW r \in Requests, Goes(r),
           issued \subseteq issued', UNCHANGED <<blob, copies, past>>
    PROVE  EditInv'
<1>1. PICK at \in PCs, k \in Jobs \cup {NoJob} : At(r, at, k) /\ Cleared(at, k)
  BY DEF Goes
<1>2. ReadsWereStored'
  BY ReadsStay DEF EditInv
<1>3. Checked(at, k) /\ (at \in WritePCs => k.lab \in issued /\ Vetted(k))
  BY <1>1 DEF Cleared
<1> QED
  BY <1>1, <1>2, <1>3, EditStep

-----------------------------------------------------------------------------

\* What the actions that follow have in common.
EditPre == IInv /\ IInv' /\ EditInv /\ type = "owned"

LEMMA EditPreUses ==
    EditPre => /\ TypeOK /\ TypeOK' /\ EditInv /\ type = "owned"
               /\ ReadsWereStored /\ WritesAreVetted
               /\ \A q \in Requests : Checked(pc[q], job[q])
  BY DEF EditPre, IInv, EditInv

LEMMA DownloadEdits == ASSUME EditPre, NEW r \in Requests, Download(r) PROVE EditInv'
<1> USE EditPreUses
<1>1. /\ job[r] \in Jobs /\ pc[r] = "getLab" /\ job[r].lab \in Labs
      /\ job[r].ret \in {"allowed", "validated"} => job[r].ver \in Versions
      /\ Checked("getLab", job[r])
  BY JobOf DEF Download, Suits, LabPCs
<1>2. /\ copies[job[r].lab] \in Versions \cup {Absent}
      /\ blob[job[r].lab] \in Versions \cup {Absent}
      /\ copies[job[r].lab] = Absent \/ Lists(copies[job[r].lab]) \in past[job[r].lab]
      /\ blob[job[r].lab] = Absent \/ Lists(blob[job[r].lab]) \in past[job[r].lab]
  BY <1>1 DEF TypeOK, ReadsWereStored
<1>3. UNCHANGED <<blob, copies, past>> /\ issued \subseteq issued'
  BY DEF Download, stores, history
<1>4. CASE Returned(r, job[r], copies[job[r].lab])
  BY <1>1, <1>2, <1>3, <1>4, ReturnedGoes, GoesStep
<1>5. CASE Returned(r, job[r], Absent)
  BY <1>1, <1>3, <1>5, ReturnedGoes, GoesStep
<1>6. CASE /\ blob[job[r].lab] # Absent
           /\ At(r, "redisSetLab", [job[r] EXCEPT !.held = blob[job[r].lab]])
  <2> DEFINE k == [job[r] EXCEPT !.held = blob[job[r].lab]]
  <2>1. /\ k \in Jobs /\ k.lab = job[r].lab /\ k.held = blob[job[r].lab]
        /\ k.ret = job[r].ret /\ k.ver = job[r].ver /\ k.op = job[r].op /\ k.new = job[r].new
    BY <1>1, <1>2 DEF Jobs
  <2>2. At(r, "redisSetLab", k)
    BY <1>6
  <2> HIDE DEF k
  <2>3. Cleared("redisSetLab", k)
    BY <1>1, <1>2, <1>6, <2>1 DEF Cleared, Checked, LabPCs, WritePCs
  <2>4. Goes(r)
    BY <2>1, <2>2, <2>3 DEF Goes, PCs, LabPCs
  <2> QED
    BY <1>3, <2>4, GoesStep
<1> QED
  BY <1>4, <1>5, <1>6 DEF Download

LEMMA RedisSetLabEdits == ASSUME EditPre, NEW r \in Requests, RedisSetLab(r) PROVE EditInv'
<1> USE EditPreUses
<1> DEFINE l == job[r].lab
<1>1. /\ job[r] \in Jobs /\ pc[r] = "redisSetLab" /\ l \in Labs /\ job[r].held \in Versions
      /\ job[r].ret \in {"allowed", "validated"} => job[r].ver \in Versions
      /\ Checked("redisSetLab", job[r])
  BY JobOf DEF RedisSetLab, Suits, LabPCs
<1>2. Lists(job[r].held) \in past[l] /\ Checked("getLab", job[r])
  BY <1>1 DEF Checked, LabPCs
<1>3. Goes(r)
  BY <1>1, <1>2, ReturnedGoes DEF RedisSetLab
<1>4. /\ UNCHANGED <<blob, past, issued>>
      /\ copies' \in {copies, [copies EXCEPT ![l] = job[r].held]}
  BY DEF RedisSetLab
<1>5. ReadsWereStored'
  <2>1. \A m \in Labs : copies'[m] = copies[m] \/ (m = l /\ copies'[m] = job[r].held)
    BY <1>4 DEF TypeOK
  <2>2. \A m \in Labs : \A v \in {blob'[m], copies'[m]} \ {Absent} : Lists(v) \in past[m]
    BY <1>2, <1>4, <2>1 DEF ReadsWereStored
  <2> QED
    BY <1>4, <2>2 DEF ReadsWereStored, Orphan, Lists
<1>6. PICK at \in PCs, k \in Jobs \cup {NoJob} : At(r, at, k) /\ Cleared(at, k)
  BY <1>3 DEF Goes
<1>7. Checked(at, k) /\ (at \in WritePCs => k.lab \in issued /\ Vetted(k))
  BY <1>6 DEF Cleared
<1> QED
  BY <1>4, <1>5, <1>6, <1>7, EditStep

\* A call that is neither a read of a lab nor a write of one asks for nothing.
LEMMA PlainGoes ==
    ASSUME NEW r, NEW k \in Jobs, ~k.new,
           NEW at \in ListPCs \cup DeletePCs \cup {"delNames", "delVersions", "delLab"},
           at = "redisSetNames" => k.op = "list", At(r, at, k)
    PROVE  Goes(r)
<1>1. Cleared(at, k)
  BY DEF Cleared, Checked, LabPCs, ListPCs, WritePCs, DeletePCs
<1>2. at \in PCs
  BY DEF PCs, ListPCs, SavePCs, DeletePCs
<1> QED
  BY <1>1, <1>2 DEF Goes

LEMMA JobUnderWay ==
    ASSUME EditPre, NEW r \in Requests, pc[r] # "idle"
    PROVE  job[r] \in Jobs /\ Suits(pc[r], job[r]) /\ ~job[r].new /\ Checked(pc[r], job[r])
  BY EditPreUses, JobOf DEF Checked

LEMMA RedisSetNamesEdits == ASSUME EditPre, NEW r \in Requests, RedisSetNames(r) PROVE EditInv'
<1>1. job[r] \in Jobs /\ ~job[r].new /\ job[r].op = "list"
  BY JobUnderWay DEF RedisSetNames, Checked
<1>2. Goes(r)
  BY <1>1, NextLabGoes DEF RedisSetNames
<1> QED
  BY <1>2, EditPreUses, GoesStep DEF RedisSetNames, history

LEMMA RedisSetVersionsEdits ==
    ASSUME EditPre, NEW r \in Requests, RedisSetVersions(r) PROVE EditInv'
  BY EditPreUses, DoneGoes, GoesStep DEF RedisSetVersions

LEMMA DocExistsEdits == ASSUME EditPre, NEW r \in Requests, DocExists(r) PROVE EditInv'
<1>1. /\ job[r] \in Jobs /\ ~job[r].new /\ pc[r] = "docExists"
  BY JobUnderWay DEF DocExists
<1>2. /\ UNCHANGED <<blob, copies, past, issued>>
  BY DEF DocExists, stores, history
<1>3. CASE Saved(r, job[r])
  BY <1>1, <1>2, <1>3, EditPreUses, SavedGoes, GoesStep
<1>4. CASE At(r, "upload", job[r])
  <2>1. Checked("upload", job[r])
    BY <1>1 DEF Checked, LabPCs
  <2>2. job[r].lab \in issued /\ (Vetted(job[r]) \/ FirstWriter(r))
    BY <1>1, EditPreUses DEF WritesAreVetted, WritePCs
  <2>3. "upload" \in PCs
    BY DEF PCs, SavePCs
  <2>4. ReadsWereStored'
    BY <1>2, EditPreUses, ReadsStay
  <2> QED
    BY <1>1, <1>2, <1>4, <2>1, <2>2, <2>3, <2>4, EditPreUses, EditStep DEF FirstWriter
<1> QED
  BY <1>3, <1>4 DEF DocExists

LEMMA UploadEdits == ASSUME EditPre, NEW r \in Requests, Upload(r) PROVE EditInv'
<1> USE EditPreUses
<1> DEFINE l == job[r].lab
           v == job[r].ver
<1>1. /\ job[r] \in Jobs /\ ~job[r].new /\ pc[r] = "upload" /\ l \in Labs /\ v \in Versions
  BY JobUnderWay DEF Upload, Suits
<1>2. l \in issued /\ ~Orphan(v)
  BY <1>1 DEF WritesAreVetted, WritePCs, EditPre, IInv, Prepared
<1>3. Goes(r)
  <2>1. CASE Saved(r, job[r])
    BY <1>1, <2>1, SavedGoes
  <2>2. CASE At(r, "delNames", [job[r] EXCEPT !.ver = Absent])
    <3>1. [job[r] EXCEPT !.ver = Absent] \in Jobs /\ ~[job[r] EXCEPT !.ver = Absent].new
      BY <1>1 DEF Jobs
    <3> QED
      BY <2>2, <3>1, PlainGoes
  <2> QED
    BY <2>1, <2>2 DEF Upload
<1>4. UNCHANGED <<copies, issued>>
  BY DEF Upload
<1>5. CASE UNCHANGED <<blob, past>>
  BY <1>3, <1>4, <1>5, GoesStep
<1>6. CASE Store(l, v)
  <2>1. /\ blob' = [blob EXCEPT ![l] = v]
        /\ past' = [past EXCEPT ![l] = @ \cup {Lists(v)}]
    BY <1>1, <1>6, LabsAssumption DEF Store
  <2>2. \A m \in Labs \ {l} : blob'[m] = blob[m] /\ past'[m] = past[m]
    BY <2>1 DEF TypeOK
  <2>3. blob'[l] = v /\ past'[l] = past[l] \cup {Lists(v)}
    BY <1>1, <2>1 DEF TypeOK
  <2>4. ~Orphan(Lists(v))
    BY <1>2 DEF Orphan, Lists
  <2>5. ReadsWereStored'
    <3> SUFFICES ASSUME NEW m \in Labs
                 PROVE  /\ \A a \in past'[m] : ~Orphan(a)
                        /\ past'[m] # {} => m \in issued'
                        /\ \A w \in {blob'[m], copies'[m]} \ {Absent} : Lists(w) \in past'[m]
      BY DEF ReadsWereStored, Orphan, Lists
    <3>1. CASE m = l
      BY <1>2, <1>4, <2>3, <2>4, <3>1 DEF ReadsWereStored
    <3>2. CASE m # l
      BY <1>4, <2>2, <3>2 DEF ReadsWereStored
    <3> QED
      BY <3>1, <3>2
  <2>6. PICK at \in PCs, k \in Jobs \cup {NoJob} : At(r, at, k) /\ Cleared(at, k)
    BY <1>3 DEF Goes
  <2>7. Checked(at, k) /\ (at \in WritePCs => k.lab \in issued /\ Vetted(k))
    BY <2>6 DEF Cleared
  <2>8. /\ \A m \in Labs : past[m] \subseteq past'[m]
        /\ \A m \in Labs : past'[m] = past[m] \/ (pc[r] \in WritePCs /\ job[r].lab = m)
    BY <1>1, <2>2, <2>3 DEF WritePCs
  <2> QED
    BY <1>4, <2>5, <2>6, <2>7, <2>8, EditStep
<1> QED
  BY <1>5, <1>6 DEF Upload

LEMMA DocExistsToDeleteEdits ==
    ASSUME EditPre, NEW r \in Requests, DocExistsToDelete(r) PROVE EditInv'
<1>1. /\ job[r] \in Jobs /\ ~job[r].new /\ [job[r] EXCEPT !.doc = NoDoc] \in Jobs
      /\ ~[job[r] EXCEPT !.doc = NoDoc].new
  BY JobUnderWay DEF DocExistsToDelete, Jobs
<1>2. Goes(r)
  BY <1>1, DoneGoes, PlainGoes DEF DocExistsToDelete, DocumentGone, DeletePCs
<1> QED
  BY <1>2, EditPreUses, GoesStep DEF DocExistsToDelete, stores, history

LEMMA DeleteDocEdits == ASSUME EditPre, NEW r \in Requests, DeleteDoc(r) PROVE EditInv'
<1>1. /\ job[r] \in Jobs /\ ~job[r].new /\ [job[r] EXCEPT !.doc = NoDoc] \in Jobs
      /\ ~[job[r] EXCEPT !.doc = NoDoc].new
  BY JobUnderWay DEF DeleteDoc, Jobs
<1>2. Goes(r)
  BY <1>1, DoneGoes, PlainGoes DEF DeleteDoc, DocumentGone, DeletePCs
<1> QED
  BY <1>2, EditPreUses, GoesStep DEF DeleteDoc

LEMMA DeleteBlobEdits == ASSUME EditPre, NEW r \in Requests, DeleteBlob(r) PROVE EditInv'
<1> USE EditPreUses
<1>1. /\ job[r] \in Jobs /\ ~job[r].new /\ pc[r] = "deleteBlob"
  BY JobUnderWay DEF DeleteBlob
<1>2. Goes(r)
  BY <1>1, DoneGoes, PlainGoes DEF DeleteBlob
<1>3. /\ UNCHANGED <<copies, issued, past>>
      /\ blob' \in {blob, [blob EXCEPT ![job[r].lab] = Absent]}
  BY DEF DeleteBlob, Store, TypeOK
<1>4. ReadsWereStored'
  <2>1. \A m \in Labs : blob'[m] \in {blob[m], Absent}
    BY <1>3 DEF TypeOK
  <2> QED
    BY <1>3, <2>1 DEF ReadsWereStored, Orphan, Lists
<1>5. PICK at \in PCs, k \in Jobs \cup {NoJob} : At(r, at, k) /\ Cleared(at, k)
  BY <1>2 DEF Goes
<1>6. Checked(at, k) /\ (at \in WritePCs => k.lab \in issued /\ Vetted(k))
  BY <1>5 DEF Cleared
<1> QED
  BY <1>3, <1>4, <1>5, <1>6, EditStep

LEMMA DelNamesEdits == ASSUME EditPre, NEW r \in Requests, DelNames(r) PROVE EditInv'
<1>1. Goes(r)
  BY JobUnderWay, PlainGoes DEF DelNames
<1> QED
  BY <1>1, EditPreUses, GoesStep DEF DelNames, history

LEMMA DelVersionsEdits == ASSUME EditPre, NEW r \in Requests, DelVersions(r) PROVE EditInv'
<1>1. Goes(r)
  BY JobUnderWay, PlainGoes DEF DelVersions
<1> QED
  BY <1>1, EditPreUses, GoesStep DEF DelVersions

LEMMA DelLabEdits == ASSUME EditPre, NEW r \in Requests, DelLab(r) PROVE EditInv'
<1> USE EditPreUses
<1>1. Goes(r)
  BY JobUnderWay, SavedGoes DEF DelLab
<1>2. /\ UNCHANGED <<blob, past, issued>>
      /\ copies' \in {copies, [copies EXCEPT ![job[r].lab] = Absent]}
  BY DEF DelLab
<1>3. ReadsWereStored'
  <2>1. \A m \in Labs : copies'[m] \in {copies[m], Absent}
    BY <1>2 DEF TypeOK
  <2> QED
    BY <1>2, <2>1 DEF ReadsWereStored, Orphan, Lists
<1>4. PICK at \in PCs, k \in Jobs \cup {NoJob} : At(r, at, k) /\ Cleared(at, k)
  BY <1>1 DEF Goes
<1>5. Checked(at, k) /\ (at \in WritePCs => k.lab \in issued /\ Vetted(k))
  BY <1>4 DEF Cleared
<1> QED
  BY <1>2, <1>3, <1>4, <1>5, EditStep

LEMMA IdleGoes ==
    ASSUME EditPre, NEW r \in Requests, Goes(r), UNCHANGED <<stores, issued, history>>
    PROVE  EditInv'
  BY EditPreUses, GoesStep DEF stores, history

LEMMA BlankGoes ==
    ASSUME NEW r, NEW j \in Jobs, ~j.new, NEW caller \in {"read", "deleteAllowed", "deleting"},
           GetLab(r, j, caller)
    PROVE  Goes(r)
  BY GetLabGoes DEF Callers

LEMMA ListBlobsEdits == ASSUME EditPre, NEW r \in Requests, ListBlobs(r) PROVE EditInv'
<1> DEFINE listed == {l \in Labs : blob[l] # Absent}
           j == [Blank EXCEPT !.op = "list", !.todo = names]
           k == [Blank EXCEPT !.op = "list", !.todo = listed]
<1>1. CASE names # NoNames /\ NextLab(r, j)
  <2>1. names \in {NoNames} \cup SUBSET Labs
    BY EditPreUses DEF TypeOK
  <2>2. j \in Jobs /\ j.new = Blank.new /\ j.op = "list"
    BY <1>1, <2>1, BlankJob DEF Jobs
  <2> HIDE DEF j
  <2>3. Goes(r)
    BY <1>1, <2>2, NextLabGoes DEF Blank
  <2> QED
    BY <2>3, IdleGoes DEF ListBlobs
<1>2. CASE At(r, "redisSetNames", k)
  <2>1. listed \in SUBSET Labs
    OBVIOUS
  <2> HIDE DEF listed
  <2>2. k \in Jobs /\ k.new = Blank.new /\ k.op = "list"
    BY <2>1, BlankJob DEF Jobs
  <2> HIDE DEF k
  <2>3. Goes(r)
    BY <1>2, <2>2, PlainGoes DEF ListPCs, Blank
  <2> QED
    BY <2>3, IdleGoes DEF ListBlobs
<1> QED
  BY <1>1, <1>2 DEF ListBlobs

LEMMA GetPrivateLabEdits ==
    ASSUME EditPre, NEW r \in Requests, NEW l \in Labs, GetPrivateLab(r, l) PROVE EditInv'
<1> DEFINE j == [Blank EXCEPT !.lab = l]
<1>1. j \in Jobs /\ ~j.new
  BY BlankJob DEF Blank, Jobs
<1>2. GetLab(r, j, "read")
  BY DEF GetPrivateLab
<1> HIDE DEF j
<1>3. Goes(r)
  BY <1>1, <1>2, BlankGoes
<1> QED
  BY <1>3, IdleGoes DEF GetPrivateLab

LEMMA GetLabWithVersionsEdits ==
    ASSUME EditPre, NEW r \in Requests, NEW l \in Labs, GetLabWithVersions(r, l) PROVE EditInv'
<1> DEFINE j == [Blank EXCEPT !.lab = l]
<1>1. j \in Jobs /\ ~j.new
  BY BlankJob DEF Blank, Jobs
<1>2. At(r, "redisSetVersions", j)
  BY DEF GetLabWithVersions
<1> HIDE DEF j
<1>3. Goes(r)
  BY <1>1, <1>2, PlainGoes DEF ListPCs
<1> QED
  BY <1>3, IdleGoes DEF GetLabWithVersions

LEMMA DeleteLabEdits ==
    ASSUME EditPre, NEW r \in Requests, NEW p \in Users, NEW l \in Labs, DeleteLab(r, p, l)
    PROVE EditInv'
<1> DEFINE j == [Blank EXCEPT !.lab = l]
           k == [j EXCEPT !.user = p]
<1>1. j \in Jobs /\ ~j.new /\ k \in Jobs /\ ~k.new
  BY BlankJob DEF Blank, Jobs
<1>2. GetLab(r, j, "deleting") \/ GetLab(r, k, "deleteAllowed")
  BY DEF DeleteLab
<1> HIDE DEF j, k
<1>3. Goes(r)
  BY <1>1, <1>2, BlankGoes
<1> QED
  BY <1>3, IdleGoes DEF DeleteLab

LEMMA DeleteSupportingDocumentEdits ==
    ASSUME EditPre, NEW r \in Requests, NEW d \in Docs, DeleteSupportingDocument(r, d)
    PROVE EditInv'
<1>1. /\ [Blank EXCEPT !.op = "deleteDoc", !.doc = d] \in Jobs
      /\ ~[Blank EXCEPT !.op = "deleteDoc", !.doc = d].new
  BY BlankJob DEF Blank, Jobs
<1>2. Goes(r)
  BY <1>1, PlainGoes DEF DeleteSupportingDocument, DeletePCs
<1> QED
  BY <1>2, IdleGoes DEF DeleteSupportingDocument

\* Nobody goes anywhere, and no lab and no copy of one is touched.
LEMMA NobodyGoes ==
    ASSUME EditInv, UNCHANGED <<type, blob, copies, past, pc, job>>, issued \subseteq issued'
    PROVE  EditInv'
<1>1. CASE type # "owned"
  BY <1>1 DEF EditInv
<1>2. CASE type = "owned"
  <2>1. ReadsWereStored'
    BY <1>2, ReadsStay DEF EditInv
  <2>2. ASSUME NEW q \in Requests PROVE Checked(pc[q], job[q])'
    BY <1>2 DEF EditInv, Checked
  <2>3. WritesAreVetted'
    BY <1>2 DEF EditInv, WritesAreVetted, Vetted, FirstWriter
  <2> QED
    BY <2>1, <2>2, <2>3 DEF EditInv
<1> QED
  BY <1>1, <1>2

LEMMA UpsertSupportingDocumentEdits ==
    ASSUME EditPre, NEW r \in Requests, NEW d \in Docs, UpsertSupportingDocument(r, d)
    PROVE EditInv'
  BY NobodyGoes, EditPreUses DEF UpsertSupportingDocument, history

\* Saving begins: a new lab nobody else writes and nobody has read, any other is
\* read for the first check.
LEMMA UpsertEdits ==
    ASSUME EditPre, NEW r \in Requests, NEW j \in Jobs, Upsert(r, j),
           j.lab \in Labs, j.ver \in Versions, j.new => j.lab \notin issued,
           issued \cup {j.lab} \subseteq issued', UNCHANGED <<blob, copies, past>>
    PROVE  EditInv'
<1> USE EditPreUses
<1> DEFINE k == [j EXCEPT !.user = NoUser]
<1>1. /\ k \in Jobs /\ k.lab = j.lab /\ k.ver = j.ver /\ k.new = j.new
      /\ k.creator \in Users \cup {NoUser}
  BY DEF Jobs
<1>2. IF j.new THEN Write(r, k) ELSE GetLab(r, k, "allowed")
  BY LabsAssumption DEF Upsert, UpsertPrivateOrPublicLab
<1>3. CASE ~j.new
  <2> HIDE DEF k
  <2>1. Goes(r)
    BY <1>1, <1>2, <1>3, GetLabGoes DEF Callers
  <2> QED
    BY <2>1, GoesStep
<1>4. CASE j.new
  <2> DEFINE v == AssignOwnerToOrphanLab(NewLabThings(k), k.creator)
             at == IF v.doc = NoDoc THEN "upload" ELSE "docExists"
             i == [k EXCEPT !.ver = v, !.new = FALSE, !.creator = NoUser]
  <2>1. v \in Versions
    <3> HIDE DEF k
    <3>1. NewLabThings(k) \in Versions
      BY <1>1, NewLabIsLab
    <3> QED
      BY <1>1, <3>1, AssignedIsNoOrphan
  <2>2. At(r, at, i)
    BY <1>2, <1>4 DEF Write
  <2> HIDE DEF v, k
  <2>3. i \in Jobs /\ i.lab = j.lab /\ ~i.new
    BY <1>1, <2>1 DEF Jobs
  <2>4. at \in WritePCs /\ at \in PCs
    BY DEF WritePCs, PCs, SavePCs
  <2> HIDE DEF at, i
  <2>5. Checked(at, i)
    BY <2>3, <2>4 DEF Checked, LabPCs, WritePCs
  <2>6. past'[i.lab] = {}
    BY <1>4, <2>3 DEF ReadsWereStored
  <2>7. \A q \in Requests \ {r} : pc[q] \in WritePCs => job[q].lab # i.lab
    BY <1>4, <2>3 DEF WritesAreVetted
  <2>8. ReadsWereStored'
    BY ReadsStay
  <2> QED
    BY <2>2, <2>3, <2>4, <2>5, <2>6, <2>7, <2>8, EditStep
<1> QED
  BY <1>3, <1>4

LEMMA SaveLabEdits ==
    ASSUME EditPre, NEW r \in Requests, NEW s \in Saves, NEW l \in Labs, SaveLab(r, s, l)
    PROVE EditInv'
<1> DEFINE j == Credited(SaveJob(s, l))
<1>1. s \in [user: Users, new: BOOLEAN, creator: Users \cup {NoUser}, ver: Versions]
  BY LabsAssumption
<1>2. SaveJob(s, l) \in Jobs /\ SaveJob(s, l).lab = l /\ SaveJob(s, l).new = s.new
      /\ SaveJob(s, l).ver = s.ver /\ SaveJob(s, l).user \in Users
  BY <1>1, BlankJob DEF SaveJob, Blank, Jobs
<1>3. j \in Jobs /\ j.lab = l /\ j.new = s.new /\ j.ver \in Versions
  BY <1>1, <1>2 DEF Credited, Jobs, Versions
<1>4. s.new => l \notin issued
  BY DEF SaveLab, LabFor
<1>5. issued' = issued \cup {l} /\ Upsert(r, j) /\ UNCHANGED <<blob, copies, past>>
  BY DEF SaveLab, stores, history
<1> HIDE DEF j
<1> QED
  BY <1>3, <1>4, <1>5, UpsertEdits

LEMMA UpsertLabWithSupportingDocumentEdits ==
    ASSUME EditPre, NEW r \in Requests, NEW s \in Saves, NEW l \in Labs,
           UpsertLabWithSupportingDocument(r, s, l)
    PROVE EditInv'
<1> USE EditPreUses
<1>1. s \in [user: Users, new: BOOLEAN, creator: Users \cup {NoUser}, ver: Versions]
  BY LabsAssumption
<1>2. SaveJob(s, l) \in Jobs /\ SaveJob(s, l).lab = l /\ SaveJob(s, l).new = s.new
      /\ SaveJob(s, l).ver = s.ver
  BY <1>1, BlankJob DEF SaveJob, Blank, Jobs
<1>3. s.new => l \notin issued
  BY DEF UpsertLabWithSupportingDocument, LabFor
<1>4. UNCHANGED <<type, blob, copies, past>>
  BY DEF UpsertLabWithSupportingDocument, history
<1>5. CASE issued' = issued \cup {l} /\ Upsert(r, SaveJob(s, l))
  BY <1>1, <1>2, <1>3, <1>4, <1>5, UpsertEdits
<1>6. ASSUME NEW d \in Docs, issued' = issued \cup {l, d},
             Upsert(r, [SaveJob(s, l) EXCEPT !.ver.doc = d])
      PROVE  EditInv'
  <2> DEFINE j == [SaveJob(s, l) EXCEPT !.ver.doc = d]
  <2>1. j \in Jobs /\ j.lab = l /\ j.new = s.new /\ j.ver \in Versions
    BY <1>1, <1>2 DEF Jobs, Versions
  <2>2. Upsert(r, j)
    BY <1>6
  <2> HIDE DEF j
  <2> QED
    BY <1>3, <1>4, <1>6, <2>1, <2>2, UpsertEdits
<1>7. ASSUME NEW d \in Docs, issued' = issued \cup {d}, UNCHANGED <<pc, job>>
      PROVE  EditInv'
  BY <1>4, <1>7, NobodyGoes
<1> QED
  BY <1>5, <1>6, <1>7 DEF UpsertLabWithSupportingDocument

LEMMA RestartEdits == ASSUME EditInv, Restart PROVE EditInv'
<1> SUFFICES ASSUME type = "owned" PROVE EditInv'
  BY DEF EditInv, Restart, stores
<1>1. ReadsWereStored'
  BY ReadsStay DEF EditInv, Restart, stores
<1>2. \A q \in Requests : pc'[q] = "idle"
  BY DEF Restart
<1>3. ASSUME NEW q \in Requests PROVE Checked(pc[q], job[q])'
  BY <1>2 DEF Checked, LabPCs
<1>4. WritesAreVetted'
  BY <1>2 DEF WritesAreVetted, WritePCs
<1> QED
  BY <1>1, <1>3, <1>4 DEF EditInv

LEMMA InitEditInv == Init => EditInv
<1> SUFFICES ASSUME Init PROVE EditInv
  OBVIOUS
<1>1. ReadsWereStored
  BY DEF Init, ReadsWereStored
<1>2. \A q \in Requests : pc[q] = "idle"
  BY DEF Init
<1>3. \A q \in Requests : Checked(pc[q], job[q])
  BY <1>2 DEF Checked, LabPCs
<1>4. WritesAreVetted
  BY <1>2 DEF WritesAreVetted, WritePCs
<1> QED
  BY <1>1, <1>3, <1>4 DEF EditInv

LEMMA NextEdits == IInv /\ IInv' /\ EditInv /\ [Next]_vars => EditInv'
<1> SUFFICES ASSUME IInv, IInv', EditInv, [Next]_vars PROVE EditInv'
  OBVIOUS
<1>1. CASE UNCHANGED vars
  BY <1>1, NobodyGoes DEF vars
<1>2. CASE Restart
  BY <1>2, RestartEdits
<1>3. CASE Next /\ ~Restart /\ type # "owned"
  <2>1. PICK r \in Requests : NewRequest(r) \/ Call(r)
    BY <1>3 DEF Next
  <2>2. NewRequest(r) => type' = type
    BY Zenon DEF NewRequest, ListBlobs, GetPrivateLab, GetLabWithVersions, SaveLab,
        UpsertLabWithSupportingDocument, DeleteLab, UpsertSupportingDocument,
        DeleteSupportingDocument, stores
  <2>3. Call(r) => type' = type
    <3>1. Download(r) => type' = type
      BY DEF Download, stores
    <3>2. RedisSetLab(r) => type' = type
      BY Zenon DEF RedisSetLab
    <3>3. RedisSetNames(r) \/ RedisSetVersions(r) \/ DocExists(r) \/ Upload(r) => type' = type
      BY DEF RedisSetNames, RedisSetVersions, DocExists, Upload, stores
    <3>4. DocExistsToDelete(r) \/ DeleteDoc(r) \/ DeleteBlob(r) => type' = type
      BY DEF DocExistsToDelete, DeleteDoc, DeleteBlob, stores
    <3>5. DelNames(r) \/ DelVersions(r) \/ DelLab(r) => type' = type
      BY DEF DelNames, DelVersions, DelLab, stores
    <3> QED
      BY <3>1, <3>2, <3>3, <3>4, <3>5 DEF Call
  <2> QED
    BY <1>3, <2>1, <2>2, <2>3 DEF EditInv
<1>4. CASE Next /\ ~Restart /\ type = "owned"
  <2>1. EditPre
    BY <1>4 DEF EditPre
  <2>2. PICK r \in Requests : NewRequest(r) \/ Call(r)
    BY <1>4 DEF Next
  <2>3. CASE NewRequest(r)
    BY <2>1, <2>3, ListBlobsEdits, GetPrivateLabEdits, GetLabWithVersionsEdits, SaveLabEdits,
       UpsertLabWithSupportingDocumentEdits, DeleteLabEdits, UpsertSupportingDocumentEdits,
       DeleteSupportingDocumentEdits
    DEF NewRequest
  <2>4. CASE Call(r)
    BY <2>1, <2>4, DownloadEdits, RedisSetLabEdits, RedisSetNamesEdits, RedisSetVersionsEdits,
       DocExistsEdits, UploadEdits, DocExistsToDeleteEdits, DeleteDocEdits, DeleteBlobEdits,
       DelNamesEdits, DelVersionsEdits, DelLabEdits
    DEF Call
  <2> QED
    BY <2>2, <2>3, <2>4
<1> QED
  BY <1>1, <1>2, <1>3, <1>4

\* Whatever stale copies the two checks have seen, and however saves, listings and
\* deletions of a lab overlap, a version to be stored carries as its last editor
\* somebody who has been an owner or an editor of that lab, and changes its lists
\* only if he has been an owner.
\* (internal/service/lab.go:154-177, 191-225, 404-455, 471-487)
THEOREM EditsAreByThoseListed == Spec => []EditsByThoseListed
<1>1. Init => EditInv
  BY InitEditInv
<1>2. IInv /\ IInv' /\ EditInv /\ [Next]_vars => EditInv'
  BY NextEdits
<1>3. EditInv => EditsByThoseListed
  BY DEF EditInv, EditsByThoseListed, WritesAreVetted, FirstWriter, WritePCs
<1> QED
  BY <1>1, <1>2, <1>3, LabsInvariant, PTL DEF Spec
=============================================================================
