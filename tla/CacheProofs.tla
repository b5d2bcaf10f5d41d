------------------------------ MODULE CacheProofs ------------------------------
(***************************************************************************)
(* Theorems about IcCache: for any number of processes, requests, changes  *)
(* of the inputs, failures and deaths, and whatever requests share an      *)
(* entry, only what Clash and Halved name can put tensors beside another   *)
(* batch's fingerprint, although the writers share temporary names and     *)
(* neither the two files of an entry nor the fingerprint and the tensors a *)
(* reader looks at belong together at all times.                           *)
(***************************************************************************)
EXTENDS IcCache, TLAPS

-----------------------------------------------------------------------------
(* The inductive invariant.                                                *)

Building == {"stamp", "save", "saving", "saveMeta", "renamePt", "renameMeta", "cleanup"}

(* A file holds nothing else than b, if it holds a batch at all *)
Only(file, b) == file \in Batch => file = b

(* What a process that works on a request has in hand *)
InHand(p) ==
    /\ pc[p] # "idle" => request[p] \in IngestRequests /\ asked[p] \in Batch
    /\ pc[p] \in Building => built[p] \in Batch

(* Where somebody writes in peace, and at an entry that is not spoilt, no  *)
(* two batches meet.                                                       *)
InPeace ==
    /\ \A p \in Procs : pc[p] \in Writing /\ p \notin hindered => ~Clash(File(p))
    /\ \A f \in Files : f \notin spoilt => ~Clash(f)

(* The files p works with are as it left them *)
Sound(p) == File(p) \notin spoilt \/ (pc[p] \in Writing /\ p \notin hindered)

(* From the moment p truncates the temporary file nobody leaves another    *)
(* batch in it; so what p renames is its own, and stays so at least until  *)
(* p has renamed the fingerprint too.  The same holds for a reader from    *)
(* its lookup to its load.                                                 *)
FilesOf(p) ==
    pc[p] \in Writing \cup {"load"} /\ Sound(p) =>
        /\ pc[p] \in Writing => Only(ptTmp[File(p)], built[p])
        /\ pc[p] \in {"renamePt", "renameMeta"} => metaTmp[File(p)] \in {None, built[p]}
        /\ pc[p] = "renameMeta" => Only(pt[File(p)], built[p])
        /\ pc[p] = "load" => Only(pt[File(p)], asked[p])

(* Somebody has renamed the tensors of an entry but not the fingerprint *)
Between(f) == \E p \in Procs : pc[p] = "renameMeta" /\ File(p) = f

(* Tensors and fingerprint belong together; and so they will when somebody *)
(* who still writes the file that was renamed is done with it.             *)
EntryOf(f) ==
    f \notin spoilt =>
        /\ meta[f] \in Batch => Only(pt[f], meta[f]) \/ Between(f)
        /\ \A p \in Procs : pc[p] = "saving" /\ open[p] = "pt" /\ File(p) = f =>
               meta[f] \in {None, built[p]} \/ Between(f)

CacheInv ==
    /\ TypeOK
    /\ \A p \in Procs : InHand(p) /\ FilesOf(p)
    /\ \A f \in Files : EntryOf(f)
    /\ InPeace

-----------------------------------------------------------------------------
(* The fingerprint of today's inputs of a request is one of the batches.   *)
LEMMA CurrentIsBatch ==
    ASSUME CacheAssumption, TypeOK, NEW r \in IngestRequests
    PROVE  Current(r) \in Batch
  BY DEF CacheAssumption, TypeOK, Batch, Current

(* Who works on a request has an entry for it.                             *)
LEMMA BusyHasFile ==
    ASSUME CacheAssumption, NEW p \in Procs, InHand(p), pc[p] # "idle"
    PROVE  /\ request[p] \in IngestRequests /\ asked[p] \in Batch
           /\ File(p) \in Files
  BY DEF CacheAssumption, InHand, File

(* The types of the files and of the processes, action by action.          *)
LEMMA TypeStep ==
    ASSUME CacheAssumption, TypeOK, \A p \in Procs : InHand(p), [Next]_vars
    PROVE  TypeOK'
  <1> DEFINE CodeTypeOK ==
        /\ input \in [IngestRequests -> Contents]
        /\ changes \in 0 .. MaxChanges
        /\ pt \in [Files -> Batch \cup {None, Torn}]
        /\ meta \in [Files -> Batch \cup {None}]
        /\ ptTmp \in [Files -> Batch \cup {None, Torn}]
        /\ metaTmp \in [Files -> Batch \cup {None}]
        /\ pc \in [Procs -> Labels]
        /\ request \in [Procs -> IngestRequests \cup {None}]
        /\ asked \in [Procs -> Batch \cup {None}]
        /\ built \in [Procs -> Batch \cup {None}]
        /\ stamp \in [Procs -> Batch \cup {None}]
        /\ open \in [Procs -> {"tmp", "pt", "gone", "closed"}]
        /\ answer \in [Procs -> Batch \cup {None, Error}]
  <1>0. CodeTypeOK
    BY DEF TypeOK
  <1>1. ASSUME NEW p \in Procs, pc[p] # "idle"
        PROVE  /\ File(p) \in Files /\ asked[p] \in Batch
               /\ request[p] \in IngestRequests /\ Current(request[p]) \in Batch
    BY <1>1, BusyHasFile, CurrentIsBatch
  <1>2. ASSUME NEW p \in Procs, NEW r \in IngestRequests, Ask(p, r)
        PROVE  CodeTypeOK'
    BY <1>0, <1>2, CurrentIsBatch DEF Ask, Go, Labels, diskVars, inputVars
  <1>3. ASSUME NEW p \in Procs, LookUp(p)
        PROVE  CodeTypeOK'
    BY <1>0, <1>3 DEF LookUp, Go, Labels, diskVars, inputVars
  <1>4. ASSUME NEW p \in Procs, Load(p)
        PROVE  CodeTypeOK'
    <2>1. File(p) \in Files
      BY <1>1, <1>4 DEF Load, Go
    <2>2. (IF pt[File(p)] = Torn THEN Error ELSE pt[File(p)]) \in Batch \cup {None, Error}
      BY <1>0, <2>1
    <2> QED
      BY <1>0, <1>4, <2>2 DEF Load, Go, Return, Labels, diskVars, inputVars
  <1>5. ASSUME NEW p \in Procs, Build(p) \/ Stamp(p)
        PROVE  CodeTypeOK'
    <2>1. Current(request[p]) \in Batch
      BY <1>1, <1>5 DEF Build, Stamp, Go
    <2> QED
      BY <1>0, <1>5, <2>1 DEF Build, Stamp, Go, Return, Labels, diskVars, inputVars
  <1>6. ASSUME NEW p \in Procs, BeginSave(p) \/ SaveFails(p)
        PROVE  CodeTypeOK'
    BY <1>0, <1>6 DEF BeginSave, SaveFails, Go, Labels, diskVars, inputVars
  <1>7. ASSUME NEW p \in Procs, EndSave(p)
        PROVE  CodeTypeOK'
    <2>1. Saved(p) \in Batch \cup {None, Torn}
      BY <1>0 DEF Saved
    <2>2. pt' \in [Files -> Batch \cup {None, Torn}]
      BY <1>0, <1>7, <2>1 DEF EndSave
    <2>3. ptTmp' \in [Files -> Batch \cup {None, Torn}]
      BY <1>0, <1>7, <2>1 DEF EndSave
    <2> QED
      BY <1>0, <1>7, <2>2, <2>3 DEF EndSave, Go, Labels, inputVars
  <1>8. ASSUME NEW p \in Procs, SaveMeta(p)
        PROVE  CodeTypeOK'
    BY <1>0, <1>8 DEF SaveMeta, Go, Labels, inputVars
  <1>9. ASSUME NEW p \in Procs, NEW toPt \in BOOLEAN
        PROVE  Moved(p, toPt) \in [Procs -> {"tmp", "pt", "gone", "closed"}]
    BY <1>0 DEF Moved
  <1>10. ASSUME NEW p \in Procs, RenamePt(p)
         PROVE  CodeTypeOK'
    <2>1. File(p) \in Files
      BY <1>1, <1>10 DEF RenamePt, Go
    <2>2. open' \in [Procs -> {"tmp", "pt", "gone", "closed"}]
      BY <1>0, <1>9, <1>10 DEF RenamePt
    <2>3. pc' \in [Procs -> Labels]
      BY <1>0, <1>10 DEF RenamePt, Go, Labels
    <2>4. pt' \in [Files -> Batch \cup {None, Torn}]
      BY <1>0, <1>10, <2>1 DEF RenamePt
    <2>5. ptTmp' \in [Files -> Batch \cup {None, Torn}]
      BY <1>0, <1>10 DEF RenamePt
    <2> QED
      BY <1>0, <1>10, <2>2, <2>3, <2>4, <2>5 DEF RenamePt, inputVars
  <1>11. ASSUME NEW p \in Procs, RenameMeta(p)
         PROVE  CodeTypeOK'
    <2>1. File(p) \in Files
      BY <1>1, <1>11 DEF RenameMeta, Go
    <2> QED
      BY <1>0, <1>11, <2>1 DEF RenameMeta, Go, Labels, inputVars
  <1>12. ASSUME NEW p \in Procs, CleanUp(p)
         PROVE  CodeTypeOK'
    <2>1. open' \in [Procs -> {"tmp", "pt", "gone", "closed"}]
      BY <1>9, <1>12 DEF CleanUp
    <2>2. (IF pc[p] = "fail" THEN Error ELSE built[p]) \in Batch \cup {None, Error}
      BY <1>0
    <2> QED
      BY <1>0, <1>12, <2>1, <2>2 DEF CleanUp, Return, Labels, inputVars
  <1>13. ASSUME NEW p \in Procs, Crash(p)
         PROVE  CodeTypeOK'
    BY <1>0, <1>13 DEF Crash, Return, Labels, diskVars, inputVars
  <1>14. ASSUME NEW r \in IngestRequests, Change(r)
         PROVE  CodeTypeOK'
    BY <1>0, <1>14 DEF Change, diskVars, procVars, CacheAssumption
  <1>15. CASE UNCHANGED vars
    BY <1>15 DEF vars, inputVars, diskVars, procVars, TypeOK
  <1>16. CASE Next
    <2>1. CodeTypeOK'
      BY <1>2, <1>3, <1>4, <1>5, <1>6, <1>7, <1>8, <1>10, <1>11, <1>12, <1>13, <1>14,
         <1>16 DEF Next, Step
    <2>2. hindered' \subseteq Procs
      BY <1>16 DEF Next, Watch
    <2>3. \A p \in Procs : Mended(p) \/ Halved(p) => File(p) \in Files
      BY <1>1 DEF Mended, Halved
    <2>4. spoilt' \subseteq Files
      BY <1>16, <2>3 DEF Next, Watch, TypeOK
    <2> QED
      BY <2>1, <2>2, <2>4 DEF TypeOK
  <1> QED
    BY <1>15, <1>16

-----------------------------------------------------------------------------
(* What a step of a process does to the others, to itself and to a file.   *)

(* It leaves alone what the others have in hand and where they are.        *)
LEMMA OthersKeepTheirs ==
    ASSUME TypeOK, NEW p \in Procs, NEW q \in Procs, q # p, Step(p)
    PROVE  /\ pc'[q] = pc[q] /\ request'[q] = request[q] /\ asked'[q] = asked[q]
           /\ built'[q] = built[q] /\ stamp'[q] = stamp[q]
           /\ File(q)' = File(q)
  <1>1. pc'[q] = pc[q]
    BY DEF TypeOK, Step, Go, Ask, LookUp, Load, Build, Stamp, BeginSave, EndSave, SaveMeta,
           SaveFails, RenamePt, RenameMeta, CleanUp, Crash
  <1>2. request'[q] = request[q] /\ asked'[q] = asked[q]
    BY DEF TypeOK, Step, Return, Ask, LookUp, Load, Build, Stamp, BeginSave, EndSave,
           SaveMeta, SaveFails, RenamePt, RenameMeta, CleanUp, Crash
  <1>3. built'[q] = built[q] /\ stamp'[q] = stamp[q]
    BY DEF TypeOK, Step, Return, Ask, LookUp, Load, Build, Stamp, BeginSave, EndSave,
           SaveMeta, SaveFails, RenamePt, RenameMeta, CleanUp, Crash
  <1> QED
    BY <1>1, <1>2, <1>3 DEF File

(* Where it comes from when it goes on writing or finds a matching entry;  *)
(* it keeps its request and its batch then.                                *)
LEMMA OwnStep ==
    ASSUME TypeOK, NEW p \in Procs, Step(p)
    PROVE  /\ pc'[p] = "saving" => pc[p] = "save"
           /\ pc'[p] = "saveMeta" => pc[p] = "saving"
           /\ pc'[p] = "renamePt" => pc[p] = "saveMeta"
           /\ pc'[p] = "renameMeta" => pc[p] = "renamePt"
           /\ pc'[p] = "load" => pc[p] = "lookup" /\ Hit(p) /\ pt' = pt
           /\ pc[p] = "renameMeta" => pc'[p] \in {"fail", "cleanup", "idle"}
           /\ pc[p] = "saving" /\ pt' # pt => pc'[p] = "saveMeta"
           /\ pc[p] = "saving" /\ ptTmp' # ptTmp => pc'[p] = "saveMeta"
           /\ pc[p] = "saveMeta" /\ metaTmp' # metaTmp => pc'[p] = "renamePt"
           /\ pc'[p] \in Writing \cup {"load"} =>
                  /\ request'[p] = request[p] /\ asked'[p] = asked[p]
                  /\ built'[p] = built[p] /\ stamp'[p] = stamp[p]
                  /\ File(p)' = File(p)
  <1> DEFINE Said ==
           /\ pc'[p] = "saving" => pc[p] = "save"
           /\ pc'[p] = "saveMeta" => pc[p] = "saving"
           /\ pc'[p] = "renamePt" => pc[p] = "saveMeta"
           /\ pc'[p] = "renameMeta" => pc[p] = "renamePt"
           /\ pc'[p] = "load" => pc[p] = "lookup" /\ Hit(p) /\ pt' = pt
           /\ pc[p] = "renameMeta" => pc'[p] \in {"fail", "cleanup", "idle"}
           /\ pc[p] = "saving" /\ pt' # pt => pc'[p] = "saveMeta"
           /\ pc[p] = "saving" /\ ptTmp' # ptTmp => pc'[p] = "saveMeta"
           /\ pc[p] = "saveMeta" /\ metaTmp' # metaTmp => pc'[p] = "renamePt"
           /\ pc'[p] \in Writing \cup {"load"} =>
                  /\ request'[p] = request[p] /\ asked'[p] = asked[p]
                  /\ built'[p] = built[p] /\ stamp'[p] = stamp[p]
  <1>1. ASSUME \E r \in IngestRequests : Ask(p, r)
        PROVE  Said
    BY <1>1 DEF TypeOK, Ask, Go, Writing
  <1>2. ASSUME LookUp(p)
        PROVE  Said
    BY <1>2 DEF TypeOK, LookUp, Go, Writing, diskVars
  <1>3. ASSUME Load(p) \/ Build(p) \/ Stamp(p)
        PROVE  Said
    BY <1>3 DEF TypeOK, Load, Build, Stamp, Go, Writing
  <1>4. ASSUME BeginSave(p) \/ EndSave(p) \/ SaveMeta(p)
        PROVE  Said
    BY <1>4 DEF TypeOK, BeginSave, EndSave, SaveMeta, Go, Writing
  <1>5. ASSUME SaveFails(p)
        PROVE  Said
    BY <1>5 DEF TypeOK, SaveFails, Go, Writing, diskVars
  <1>6. ASSUME RenamePt(p) \/ RenameMeta(p)
        PROVE  Said
    BY <1>6 DEF TypeOK, RenamePt, RenameMeta, Go, Writing
  <1>7. ASSUME CleanUp(p)
        PROVE  Said
    BY <1>7 DEF TypeOK, CleanUp, Writing
  <1>8. ASSUME Crash(p)
        PROVE  Said
    BY <1>8 DEF TypeOK, Crash, Writing, diskVars
  <1>9. Said
    BY <1>1, <1>2, <1>3, <1>4, <1>5, <1>6, <1>7, <1>8 DEF Step
  <1>10. pc'[p] \in Writing \cup {"load"} => File(p)' = File(p)
    BY <1>9 DEF File
  <1> QED
    BY <1>9, <1>10

(* The tensors of an entry change when they are written under the name of  *)
(* the entry, by one who had them open before the rename, or renamed.      *)
LEMMA TensorsOfStep ==
    ASSUME CacheAssumption, TypeOK, \A q \in Procs : InHand(q),
           NEW p \in Procs, Step(p), NEW f \in Files
    PROVE  \/ pt'[f] = pt[f]
           \/ /\ pc[p] = "saving" /\ open[p] = "pt" /\ File(p) = f
              /\ Only(pt'[f], built[p])
           \/ /\ pc[p] = "renamePt" /\ pc'[p] = "renameMeta" /\ File(p) = f
              /\ pt'[f] = ptTmp[f]
  <1>1. pc[p] # "idle" => File(p) \in Files
    BY BusyHasFile
  <1>2. CASE EndSave(p)
    <2>1. Only(Saved(p), built[p])
      BY DEF Only, Saved, CacheAssumption
    <2> QED
      BY <1>1, <1>2, <2>1 DEF EndSave, Go, TypeOK
  <1>3. CASE RenamePt(p)
    <2>1. CASE ptTmp[File(p)] = None
      BY <1>3, <2>1 DEF RenamePt
    <2>2. CASE ptTmp[File(p)] # None
      BY <1>1, <1>3, <2>2 DEF RenamePt, Go, TypeOK
    <2> QED
      BY <2>1, <2>2
  <1> QED
    BY <1>2, <1>3 DEF Step, Ask, LookUp, Load, Build, Stamp, BeginSave, SaveMeta, SaveFails,
                      RenameMeta, CleanUp, Crash, diskVars

(* So does the temporary file, or it is torn or gone.                      *)
LEMMA TmpOfStep ==
    ASSUME CacheAssumption, TypeOK, \A q \in Procs : InHand(q),
           NEW p \in Procs, Step(p), NEW f \in Files
    PROVE  \/ ptTmp'[f] = ptTmp[f]
           \/ ptTmp'[f] \notin Batch
           \/ pc[p] = "saving" /\ File(p) = f /\ Only(ptTmp'[f], built[p])
  <1>1. pc[p] # "idle" => File(p) \in Files
    BY BusyHasFile
  <1>2. CASE EndSave(p)
    <2>1. Only(Saved(p), built[p])
      BY DEF Only, Saved, CacheAssumption
    <2> QED
      BY <1>1, <1>2, <2>1 DEF EndSave, Go, TypeOK
  <1>3. CASE BeginSave(p) \/ RenamePt(p) \/ CleanUp(p)
    BY <1>1, <1>3 DEF BeginSave, RenamePt, CleanUp, Go, TypeOK, CacheAssumption
  <1> QED
    BY <1>2, <1>3 DEF Step, Ask, LookUp, Load, Build, Stamp, SaveMeta, SaveFails,
                      RenameMeta, Crash, diskVars

(* A fingerprint is written under its temporary name, renamed or removed.  *)
LEMMA FingerprintsOfStep ==
    ASSUME CacheAssumption, TypeOK, \A q \in Procs : InHand(q),
           NEW p \in Procs, Step(p), NEW f \in Files
    PROVE  /\ \/ metaTmp'[f] \in {metaTmp[f], None}
              \/ pc[p] = "saveMeta" /\ File(p) = f /\ metaTmp'[f] = stamp[p]
           /\ \/ meta'[f] = meta[f]
              \/ /\ pc[p] = "renameMeta" /\ pc'[p] = "cleanup" /\ File(p) = f
                 /\ meta'[f] = metaTmp[f]
           /\ pc[p] = "renameMeta" => pt' = pt /\ ptTmp' = ptTmp
           /\ pc[p] = "renameMeta" /\ pc'[p] = "cleanup" /\ File(p) = f =>
                  meta'[f] = metaTmp[f] /\ metaTmp'[f] = None
           /\ pc'[p] = "renamePt" => metaTmp'[File(p)] = stamp[p]
           /\ pc'[p] = "renameMeta" =>
                  /\ ptTmp'[File(p)] = None /\ pt'[File(p)] = ptTmp[File(p)]
                  /\ metaTmp' = metaTmp
           /\ pc'[p] = "saving" => ptTmp'[File(p)] = Torn
  <1>1. pc[p] # "idle" => File(p) \in Files
    BY BusyHasFile
  <1>2. CASE \E r \in IngestRequests : Ask(p, r)
    BY <1>2 DEF TypeOK, Ask, Go, diskVars
  <1>3. CASE LookUp(p) \/ Load(p) \/ Build(p) \/ Stamp(p)
    BY <1>3 DEF TypeOK, LookUp, Load, Build, Stamp, Go, diskVars
  <1>4. CASE BeginSave(p) \/ EndSave(p)
    BY <1>1, <1>4 DEF TypeOK, BeginSave, EndSave, Go
  <1>5. CASE SaveMeta(p)
    BY <1>1, <1>5 DEF TypeOK, SaveMeta, Go
  <1>6. CASE SaveFails(p)
    BY <1>6 DEF TypeOK, SaveFails, Go, diskVars
  <1>7. CASE RenamePt(p)
    BY <1>1, <1>7 DEF TypeOK, RenamePt, Go
  <1>8. CASE RenameMeta(p)
    BY <1>1, <1>8 DEF TypeOK, RenameMeta, Go
  <1>9. CASE CleanUp(p)
    BY <1>1, <1>9 DEF TypeOK, CleanUp
  <1>10. CASE Crash(p)
    BY <1>10 DEF TypeOK, Crash, diskVars
  <1> QED
    BY <1>2, <1>3, <1>4, <1>5, <1>6, <1>7, <1>8, <1>9, <1>10 DEF Step

(* Who writes the file under the name of the entry had it so before, or    *)
(* the step has just renamed it.                                           *)
LEMMA OpenedByStep ==
    ASSUME TypeOK, NEW p \in Procs, Step(p),
           NEW q \in Procs, pc'[q] = "saving", open'[q] = "pt"
    PROVE  /\ q # p
           /\ \/ open[q] = "pt"
              \/ pc'[p] = "renameMeta" /\ File(p) = File(q)
  <1>1. CASE q = p
    BY <1>1 DEF TypeOK, Step, Go, Ask, LookUp, Load, Build, Stamp, BeginSave, EndSave,
                SaveMeta, SaveFails, RenamePt, RenameMeta, CleanUp, Crash
  <1>2. CASE q # p
    <2>1. CASE RenamePt(p)
      BY <1>2, <2>1 DEF TypeOK, RenamePt, Go, Moved
    <2>2. CASE CleanUp(p)
      BY <1>2, <2>2 DEF TypeOK, CleanUp, Moved
    <2> QED
      BY <1>2, <2>1, <2>2
         DEF TypeOK, Step, Ask, LookUp, Load, Build, Stamp, BeginSave, EndSave, SaveMeta,
             SaveFails, RenameMeta, Crash
  <1> QED
    BY <1>1, <1>2

-----------------------------------------------------------------------------
(* The history.                                                            *)

(* Nobody writes an entry in peace while somebody there has another batch  *)
(* in mind, and a good entry has no such writers.                          *)
LEMMA PeaceStep ==
    ASSUME CacheAssumption, InPeace, \A q \in Procs : InHand(q)', [Next]_vars
    PROVE  InPeace'
  <1>1. CASE UNCHANGED vars
    BY <1>1 DEF vars, inputVars, diskVars, procVars, InPeace, Clash, At, Meant, File
  <1>2. CASE Next
    <2>1. ASSUME NEW p \in Procs, pc'[p] \in Writing, p \notin hindered'
          PROVE  ~Clash(File(p))'
      BY <1>2, <2>1 DEF Next, Watch
    <2>2. ASSUME NEW f \in Files, f \notin spoilt'
          PROVE  ~Clash(f)'
      BY <1>2, <2>2 DEF Next, Watch
    <2> QED
      BY <2>1, <2>2 DEF InPeace
  <1> QED
    BY <1>1, <1>2

(* Where there is no clash, all who meet a writer have its batch in mind,  *)
LEMMA SameMind ==
    ASSUME NEW p \in Procs, NEW q \in Procs,
           pc[p] \in Writing, pc[q] \in Writing \cup {"load"},
           File(q) = File(p), ~Clash(File(p))
    PROVE  stamp[p] = built[p] /\ Meant(q) = built[p]
  BY DEF Clash, At

(* and so after a step.                                                    *)
LEMMA SameMindAfter ==
    ASSUME NEW p \in Procs, NEW q \in Procs,
           pc'[p] \in Writing, pc'[q] \in Writing \cup {"load"},
           File(q)' = File(p)', ~Clash(File(p))'
    PROVE  stamp'[p] = built'[p] /\ Meant(q)' = built'[p]
  BY DEF Clash, At

(* Who works in peace has worked in peace, and an entry that is good was   *)
(* good, unless it is mended just now.                                     *)
LEMMA OfWatch ==
    ASSUME Watch
    PROVE  /\ \A p \in Procs : pc'[p] \in Writing /\ p \in hindered => p \in hindered'
           /\ \A f \in spoilt \ spoilt' : \E r \in Procs : Mended(r) /\ File(r) = f
           /\ \A p \in Procs : Halved(p) => File(p) \in spoilt'
  BY DEF Watch

(* Who has just cleared the way is the process that steps.                 *)
LEMMA MendedByStep ==
    ASSUME TypeOK, NEW p \in Procs, Step(p), NEW r \in Procs, Mended(r)
    PROVE  r = p
  BY OthersKeepTheirs DEF Mended

-----------------------------------------------------------------------------
(* The invariant is kept.                                                  *)

LEMMA HandStep ==
    ASSUME CacheAssumption, TypeOK, NEW q \in Procs, InHand(q), NEW p \in Procs, Step(p)
    PROVE  InHand(q)'
  <1>1. CASE q # p
    BY <1>1, OthersKeepTheirs DEF InHand
  <1>2. CASE q = p
    <2>1. CASE \E r \in IngestRequests : Ask(p, r)
      BY <1>2, <2>1, CurrentIsBatch DEF InHand, Building, TypeOK, Ask, Go
    <2>2. CASE LookUp(p) \/ Load(p)
      BY <1>2, <2>2 DEF InHand, Building, TypeOK, LookUp, Load, Go
    <2>3. CASE Build(p)
      <3>1. Current(request[p]) \in Batch
        BY <1>2, <2>3, CurrentIsBatch DEF Build, Go, InHand
      <3> QED
        BY <1>2, <2>3, <3>1 DEF InHand, Building, TypeOK, Build, Go
    <2>4. CASE Stamp(p) \/ BeginSave(p) \/ EndSave(p) \/ SaveMeta(p) \/ SaveFails(p)
      BY <1>2, <2>4 DEF InHand, Building, TypeOK, Stamp, BeginSave, EndSave, SaveMeta,
                        SaveFails, Go
    <2>5. CASE RenamePt(p) \/ RenameMeta(p)
      BY <1>2, <2>5 DEF InHand, Building, TypeOK, RenamePt, RenameMeta, Go
    <2>6. CASE CleanUp(p) \/ Crash(p)
      BY <1>2, <2>6 DEF InHand, Building, TypeOK, CleanUp, Crash
    <2> QED
      BY <2>1, <2>2, <2>3, <2>4, <2>5, <2>6 DEF Step
  <1> QED
    BY <1>1, <1>2

(* What the process that steps leaves behind for itself.                   *)
LEMMA OwnFiles ==
    ASSUME CacheAssumption, CacheInv, InPeace', NEW p \in Procs, Step(p), Watch,
           pc'[p] \in Writing \cup {"load"}, Sound(p)'
    PROVE  FilesOf(p)'
  <1> DEFINE f == File(p)
  <1> USE DEF Writing
  <1>1. /\ File(p)' = f /\ f \in Files /\ asked[p] \in Batch
        /\ built'[p] = built[p] /\ asked'[p] = asked[p] /\ stamp'[p] = stamp[p]
    <2>1. pc[p] # "idle"
      BY OwnStep DEF CacheInv
    <2> QED
      BY <2>1, OwnStep, BusyHasFile DEF CacheInv
  <1>2. ~Mended(p)
    BY DEF Mended
  <1>3. f \in spoilt => f \in spoilt'
    BY <1>2, OfWatch, MendedByStep DEF CacheInv
  <1>4. pc[p] \in Writing /\ pc'[p] \in Writing => Sound(p)
    BY <1>1, <1>3, OfWatch DEF Sound
  <1>5. ~Clash(f)'
    BY <1>1 DEF Sound, InPeace
  <1>6. CASE pc'[p] = "saving"
    <2>1. ptTmp'[f] = Torn
      BY <1>1, <1>6, FingerprintsOfStep DEF CacheInv
    <2> QED
      BY <1>1, <1>6, <2>1 DEF FilesOf, Only, CacheAssumption
  <1>7. CASE pc'[p] = "saveMeta"
    <2>1. pc[p] = "saving"
      BY <1>7, OwnStep DEF CacheInv
    <2>2. Only(ptTmp[f], built[p])
      BY <1>4, <1>7, <2>1 DEF CacheInv, FilesOf
    <2>3. Only(ptTmp'[f], built[p])
      BY <1>1, <2>2, TmpOfStep DEF CacheInv, Only
    <2> QED
      BY <1>1, <1>7, <2>3 DEF FilesOf, Only
  <1>8. CASE pc'[p] = "renamePt"
    <2>1. pc[p] = "saveMeta"
      BY <1>8, OwnStep DEF CacheInv
    <2>2. Only(ptTmp[f], built[p])
      BY <1>4, <1>8, <2>1 DEF CacheInv, FilesOf
    <2>3. Only(ptTmp'[f], built[p])
      BY <1>1, <2>1, <2>2, TmpOfStep DEF CacheInv, Only
    <2>4. metaTmp'[f] = stamp[p]
      BY <1>1, <1>8, FingerprintsOfStep DEF CacheInv
    <2>5. stamp[p] = built[p]
      BY <1>1, <1>5, <1>8, SameMindAfter
    <2> QED
      BY <1>1, <1>8, <2>3, <2>4, <2>5 DEF FilesOf, Only
  <1>9. CASE pc'[p] = "renameMeta"
    <2>1. pc[p] = "renamePt"
      BY <1>9, OwnStep DEF CacheInv
    <2>2. Only(ptTmp[f], built[p]) /\ metaTmp[f] \in {None, built[p]}
      BY <1>4, <1>9, <2>1 DEF CacheInv, FilesOf
    <2>3. ptTmp'[f] = None /\ pt'[f] = ptTmp[f] /\ metaTmp' = metaTmp
      BY <1>1, <1>9, FingerprintsOfStep DEF CacheInv
    <2> QED
      BY <1>1, <1>9, <2>2, <2>3 DEF FilesOf, Only, CacheAssumption
  <1>10. CASE pc'[p] = "load"
    <2>1. Hit(p) /\ pt' = pt /\ pc[p] = "lookup"
      BY <1>10, OwnStep DEF CacheInv
    <2>2. f \notin spoilt
      BY <1>1, <1>3, <1>10 DEF Sound
    <2>3. meta[f] = asked[p]
      BY <2>1 DEF Hit
    <2>4. Only(pt[f], asked[p]) \/ Between(f)
      BY <1>1, <2>2, <2>3 DEF CacheInv, EntryOf
    <2>5. ASSUME Between(f)
          PROVE  Only(pt[f], asked[p])
      <3>1. PICK r \in Procs : pc[r] = "renameMeta" /\ File(r) = f
        BY <2>5 DEF Between
      <3>2. r # p
        BY <2>1, <3>1
      <3>3. pc'[r] = "renameMeta" /\ File(r)' = f /\ built'[r] = built[r]
        BY <3>1, <3>2, OthersKeepTheirs DEF CacheInv
      <3>4. Meant(p)' = built'[r]
        BY <1>1, <1>5, <1>10, <3>3, SameMindAfter
      <3>5. asked[p] = built[r]
        BY <1>1, <1>10, <3>3, <3>4 DEF Meant
      <3>6. Only(pt[f], built[r])
        BY <2>2, <3>1 DEF CacheInv, FilesOf, Sound
      <3> QED
        BY <3>5, <3>6
    <2>6. Only(pt'[f], asked[p])
      BY <2>1, <2>4, <2>5
    <2> QED
      BY <1>1, <1>10, <2>6 DEF FilesOf, Only
  <1> QED
    BY <1>6, <1>7, <1>8, <1>9, <1>10

(* What it leaves behind for the others.                                   *)
LEMMA OthersFiles ==
    ASSUME CacheAssumption, CacheInv, InPeace', NEW p \in Procs, Step(p), Watch,
           NEW q \in Procs, q # p, pc'[q] \in Writing \cup {"load"}, Sound(q)'
    PROVE  FilesOf(q)'
  <1> DEFINE f == File(q)
  <1> USE DEF Writing
  <1>1. /\ pc'[q] = pc[q] /\ File(q)' = f /\ f \in Files
        /\ built'[q] = built[q] /\ asked'[q] = asked[q]
    BY OthersKeepTheirs, BusyHasFile DEF CacheInv
  <1>2. Meant(q)' = Meant(q)
    BY <1>1 DEF Meant
  <1>3. ~Clash(f)'
    BY <1>1 DEF Sound, InPeace
  <1>4. CASE Sound(q)
    <2>1. /\ pc[q] \in Writing => Only(ptTmp[f], built[q])
          /\ pc[q] \in {"renamePt", "renameMeta"} => metaTmp[f] \in {None, built[q]}
          /\ pc[q] = "renameMeta" => Only(pt[f], built[q])
          /\ pc[q] = "load" => Only(pt[f], asked[q])
      BY <1>1, <1>4 DEF CacheInv, FilesOf
    <2>2. ASSUME pc[p] \in Writing, pc'[p] \in Writing, File(p) = f
          PROVE  Meant(q) = built[p] /\ stamp[p] = built[p]
      <3>1. File(p)' = f /\ built'[p] = built[p] /\ stamp'[p] = stamp[p]
        BY <2>2, OwnStep DEF CacheInv
      <3> QED
        BY <1>1, <1>2, <1>3, <2>2, <3>1, SameMindAfter
    <2>3. pc[q] \in Writing => Only(ptTmp'[f], built[q])
      <3>1. CASE pc[p] = "saving" /\ File(p) = f /\ Only(ptTmp'[f], built[p])
        <4>1. CASE ptTmp' = ptTmp
          BY <2>1, <4>1
        <4>2. CASE ptTmp' # ptTmp
          BY <2>2, <3>1, <4>2, OwnStep DEF CacheInv, Meant
        <4> QED
          BY <4>1, <4>2
      <3> QED
        BY <1>1, <2>1, <3>1, TmpOfStep DEF CacheInv, Only
    <2>4. pc[q] \in {"renamePt", "renameMeta"} => metaTmp'[f] \in {None, built[q]}
      <3>1. CASE pc[p] = "saveMeta" /\ File(p) = f /\ metaTmp'[f] = stamp[p]
        <4>1. CASE metaTmp' = metaTmp
          BY <2>1, <4>1
        <4>2. CASE metaTmp' # metaTmp
          BY <2>2, <3>1, <4>2, OwnStep DEF CacheInv, Meant
        <4> QED
          BY <4>1, <4>2
      <3> QED
        BY <1>1, <2>1, <3>1, FingerprintsOfStep DEF CacheInv
    <2>5. pc[q] \in {"renameMeta", "load"} => Only(pt'[f], Meant(q))
      <3>1. CASE pc[p] = "saving" /\ File(p) = f /\ Only(pt'[f], built[p])
        <4>1. CASE pt' = pt
          BY <2>1, <4>1 DEF Meant
        <4>2. CASE pt' # pt
          BY <2>2, <3>1, <4>2, OwnStep DEF CacheInv
        <4> QED
          BY <4>1, <4>2
      <3>2. CASE /\ pc[p] = "renamePt" /\ pc'[p] = "renameMeta" /\ File(p) = f
                 /\ pt'[f] = ptTmp[f]
        <4>1. CASE pc[q] = "renameMeta"
          BY <2>1, <3>2, <4>1 DEF Meant
        <4>2. CASE pc[q] = "load"
          <5>1. f \notin spoilt
            BY <1>4, <4>2 DEF Sound
          <5>2. Only(ptTmp[f], built[p])
            BY <3>2, <5>1 DEF CacheInv, FilesOf, Sound
          <5> QED
            BY <2>2, <3>2, <5>2
        <4> QED
          BY <4>1, <4>2
      <3>3. CASE pt'[f] = pt[f]
        BY <2>1, <3>3 DEF Meant
      <3> QED
        BY <1>1, <3>1, <3>2, <3>3, TensorsOfStep DEF CacheInv
    <2> QED
      BY <1>1, <2>3, <2>4, <2>5 DEF FilesOf, Meant, Only
  <1>5. CASE ~Sound(q)
    <2>1. f \in spoilt \ spoilt'
      BY <1>1, <1>5, OfWatch DEF Sound
    <2>2. Mended(p) /\ File(p) = f
      BY <2>1, OfWatch, MendedByStep DEF CacheInv
    <2>3. pc[p] = "renameMeta" /\ pc'[p] = "cleanup" /\ p \notin hindered
      BY <2>2 DEF Mended
    <2>4. Only(ptTmp[f], built[p]) /\ Only(pt[f], built[p])
      BY <2>2, <2>3 DEF CacheInv, FilesOf, Sound
    <2>5. ~Clash(f)
      BY <2>2, <2>3 DEF CacheInv, InPeace
    <2>6. Meant(q) = built[p]
      BY <1>1, <2>2, <2>3, <2>5, SameMind
    <2>7. pt' = pt /\ ptTmp' = ptTmp /\ metaTmp'[f] = None
      BY <1>1, <2>2, <2>3, FingerprintsOfStep DEF CacheInv
    <2> QED
      BY <1>1, <2>4, <2>6, <2>7 DEF FilesOf, Meant
  <1> QED
    BY <1>4, <1>5

(* What it leaves behind in an entry.                                      *)
LEMMA EntryStep ==
    ASSUME CacheAssumption, CacheInv, InPeace', NEW p \in Procs, Step(p), Watch,
           NEW f \in Files
    PROVE  EntryOf(f)'
  <1> USE DEF Writing
  <1>1. SUFFICES ASSUME f \notin spoilt'
                 PROVE  /\ meta'[f] \in Batch => Only(pt'[f], meta'[f]) \/ Between(f)'
                        /\ \A q \in Procs : pc'[q] = "saving" /\ open'[q] = "pt" /\ File(q)' = f =>
                               meta'[f] \in {None, built'[q]} \/ Between(f)'
    BY DEF EntryOf, Only
  <1>2. ASSUME NEW q \in Procs, pc'[q] = "saving", open'[q] = "pt", File(q)' = f
        PROVE  /\ q # p /\ pc[q] = "saving" /\ File(q) = f /\ built'[q] = built[q]
               /\ open[q] = "pt" \/ Between(f)'
    <2>1. q # p /\ (open[q] = "pt" \/ (pc'[p] = "renameMeta" /\ File(p) = File(q)))
      BY <1>2, OpenedByStep DEF CacheInv
    <2>2. pc[q] = "saving" /\ File(q) = f /\ built'[q] = built[q]
      BY <1>2, <2>1, OthersKeepTheirs DEF CacheInv
    <2>3. pc'[p] = "renameMeta" => File(p)' = File(p)
      BY OwnStep DEF CacheInv
    <2> QED
      BY <2>1, <2>2, <2>3 DEF Between
  <1>3. CASE pc[p] = "renameMeta" /\ pc'[p] = "cleanup" /\ File(p) = f
    <2>1. f \notin spoilt \/ p \notin hindered
      BY <1>1, OfWatch, MendedByStep DEF CacheInv, Mended
    <2>2. Only(pt[f], built[p]) /\ metaTmp[f] \in {None, built[p]}
      BY <1>3, <2>1 DEF CacheInv, FilesOf, Sound
    <2>3. ~Clash(f)
      BY <1>3, <2>1 DEF CacheInv, InPeace
    <2>4. meta'[f] = metaTmp[f] /\ pt' = pt
      BY <1>3, FingerprintsOfStep DEF CacheInv
    <2>5. ASSUME NEW q \in Procs, pc'[q] = "saving", open'[q] = "pt", File(q)' = f
          PROVE  built'[q] = built[p]
      <3>1. pc[q] = "saving" /\ File(q) = f /\ built'[q] = built[q]
        BY <1>2, <2>5
      <3>2. Meant(q) = built[p]
        BY <1>3, <2>3, <3>1, SameMind
      <3> QED
        BY <3>1, <3>2 DEF Meant
    <2> QED
      BY <2>2, <2>4, <2>5 DEF CacheAssumption, Only
  <1>4. CASE ~(pc[p] = "renameMeta" /\ pc'[p] = "cleanup" /\ File(p) = f)
    <2>1. f \notin spoilt
      BY <1>1, <1>4, OfWatch, MendedByStep DEF CacheInv, Mended
    <2>2. meta'[f] = meta[f]
      BY <1>4, FingerprintsOfStep DEF CacheInv
    <2>3. EntryOf(f)
      BY DEF CacheInv
    <2>4. CASE Between(f)'
      BY <2>4
    <2>5. CASE Between(f) /\ ~Between(f)'
      <3>1. PICK r \in Procs : pc[r] = "renameMeta" /\ File(r) = f
        BY <2>5 DEF Between
      <3>2. r = p
        BY <2>5, <3>1, OthersKeepTheirs DEF CacheInv, Between
      <3>3. pc'[p] \in {"fail", "idle"}
        BY <1>4, <3>1, <3>2, OwnStep DEF CacheInv
      <3>4. meta[f] \in {None, built[p]}
        BY <1>1, <3>1, <3>2, <3>3, OfWatch DEF Halved
      <3>5. Only(pt[f], built[p])
        BY <2>1, <3>1, <3>2 DEF CacheInv, FilesOf, Sound
      <3>6. pt' = pt
        BY <3>1, <3>2, FingerprintsOfStep DEF CacheInv
      <3>7. ASSUME NEW q \in Procs, pc'[q] = "saving", open'[q] = "pt", File(q)' = f
            PROVE  built'[q] = built[p]
        <4>1. pc[q] = "saving" /\ File(q) = f /\ built'[q] = built[q]
          BY <1>2, <3>7
        <4>2. Meant(q) = built[p]
          BY <2>1, <3>1, <3>2, <4>1, SameMind DEF CacheInv, InPeace
        <4> QED
          BY <4>1, <4>2 DEF Meant
      <3> QED
        BY <2>2, <3>4, <3>5, <3>6, <3>7 DEF CacheAssumption, Only
    <2>6. CASE ~Between(f) /\ ~Between(f)'
      <3>1. ASSUME meta[f] \in Batch
            PROVE  Only(pt'[f], meta[f])
        <4>1. Only(pt[f], meta[f])
          BY <2>1, <2>3, <2>6, <3>1 DEF EntryOf
        <4>2. CASE pc[p] = "saving" /\ open[p] = "pt" /\ File(p) = f /\ Only(pt'[f], built[p])
          BY <2>1, <2>3, <2>6, <3>1, <4>2 DEF EntryOf, CacheAssumption
        <4>3. CASE pc[p] = "renamePt" /\ pc'[p] = "renameMeta" /\ File(p) = f
          BY <2>6, <4>3, OwnStep DEF CacheInv, Between
        <4> QED
          BY <4>1, <4>2, <4>3, TensorsOfStep DEF CacheInv
      <3>2. ASSUME NEW q \in Procs, pc'[q] = "saving", open'[q] = "pt", File(q)' = f
            PROVE  meta[f] \in {None, built'[q]}
        BY <1>2, <2>1, <2>3, <2>6, <3>2 DEF EntryOf
      <3> QED
        BY <2>2, <3>1, <3>2
    <2> QED
      BY <2>4, <2>5, <2>6
  <1> QED
    BY <1>3, <1>4

(* A change of the inputs touches no file and no process.                  *)
LEMMA ChangeKeeps ==
    ASSUME CacheInv, NEW r \in IngestRequests, Change(r), Watch, InPeace'
    PROVE  /\ \A p \in Procs : InHand(p)' /\ FilesOf(p)'
           /\ \A f \in Files : EntryOf(f)'
  <1>1. UNCHANGED <<pt, meta, ptTmp, metaTmp, pc, request, asked, built, stamp, open, answer>>
    BY DEF Change, diskVars, procVars
  <1>2. \A p \in Procs : InHand(p)'
    BY <1>1 DEF CacheInv, InHand
  <1>3. \A p \in Procs : File(p)' = File(p)
    BY <1>1 DEF File
  <1>4. \A f : f \in spoilt => f \in spoilt'
    BY <1>1, OfWatch DEF Mended
  <1>5. ASSUME NEW p \in Procs
        PROVE  FilesOf(p)'
    <2>1. pc[p] \in Writing \cup {"load"} /\ Sound(p)' => Sound(p)
      BY <1>1, <1>3, <1>4, OfWatch DEF Sound
    <2> QED
      BY <1>1, <1>3, <2>1 DEF CacheInv, FilesOf, Only
  <1>6. ASSUME NEW f \in Files
        PROVE  EntryOf(f)'
    <2>1. Between(f)' <=> Between(f)
      BY <1>1, <1>3 DEF Between
    <2> QED
      BY <1>1, <1>3, <1>4, <2>1 DEF CacheInv, EntryOf, Only
  <1> QED
    BY <1>2, <1>5, <1>6

-----------------------------------------------------------------------------
(* The theorems.                                                           *)

LEMMA CacheInit ==
    ASSUME CacheAssumption, Init
    PROVE  CacheInv
  <1>1. TypeOK
    BY DEF Init, TypeOK, CacheAssumption, Labels
  <1>2. \A p \in Procs : pc[p] = "idle" /\ p \notin hindered
    BY DEF Init
  <1>3. \A p \in Procs : InHand(p) /\ FilesOf(p)
    BY <1>2 DEF InHand, FilesOf, Building, Writing
  <1>4. \A f \in Files : EntryOf(f)
    BY <1>2 DEF Init, EntryOf, Only
  <1>5. InPeace
    BY <1>2 DEF InPeace, Clash, At, Writing
  <1> QED
    BY <1>1, <1>3, <1>4, <1>5 DEF CacheInv

LEMMA CacheStep ==
    ASSUME CacheAssumption, CacheInv, [Next]_vars
    PROVE  CacheInv'
  <1>1. TypeOK'
    BY TypeStep DEF CacheInv
  <1>2. ASSUME NEW p \in Procs, Step(p), Watch
        PROVE  CacheInv'
    <2>1. \A q \in Procs : InHand(q)'
      BY <1>2, HandStep DEF CacheInv
    <2>2. InPeace'
      BY <2>1, PeaceStep DEF CacheInv
    <2>3. ASSUME NEW q \in Procs
          PROVE  FilesOf(q)'
      <3>1. CASE pc'[q] \in Writing \cup {"load"} /\ Sound(q)'
        BY <1>2, <2>2, <3>1, OwnFiles, OthersFiles
      <3>2. CASE ~(pc'[q] \in Writing \cup {"load"} /\ Sound(q)')
        BY <3>2 DEF FilesOf
      <3> QED
        BY <3>1, <3>2
    <2>4. \A f \in Files : EntryOf(f)'
      BY <1>2, <2>2, EntryStep
    <2> QED
      BY <1>1, <2>1, <2>2, <2>3, <2>4 DEF CacheInv
  <1>3. ASSUME NEW r \in IngestRequests, Change(r), Watch
        PROVE  CacheInv'
    <2>1. \A p \in Procs : InHand(p)'
      BY <1>3 DEF CacheInv, InHand, Change, procVars
    <2>2. InPeace'
      BY <2>1, PeaceStep DEF CacheInv
    <2> QED
      BY <1>1, <1>3, <2>2, ChangeKeeps DEF CacheInv
  <1>4. CASE UNCHANGED vars
    BY <1>4 DEF vars, inputVars, diskVars, procVars, CacheInv, TypeOK, InHand, FilesOf, Sound,
                EntryOf, Between, InPeace, Clash, At, Meant, File, Only
  <1> QED
    BY <1>2, <1>3, <1>4 DEF Next

(* A step that ends a lookup with a batch returns what the entry holds.    *)
LEMMA ReplayStep ==
    ASSUME CacheAssumption, CacheInv, [Next]_vars
    PROVE  [\A p \in Procs :
               Replayed(p) /\ File(p) \notin spoilt => answer'[p] = asked[p]]_vars
  <1> SUFFICES ASSUME Next, NEW p \in Procs, Replayed(p), File(p) \notin spoilt
               PROVE  answer'[p] = asked[p]
    OBVIOUS
  <1> USE DEF CacheInv
  <1>1. pc[p] = "load" /\ pc'[p] = "idle" /\ answer'[p] \in Batch
    BY DEF Replayed
  <1>2. PICK q \in Procs : Step(q)
    BY <1>1 DEF Next, Change, procVars
  <1>3. q = p
    BY <1>1, <1>2, OthersKeepTheirs
  <1>4. Load(p) \/ Crash(p)
    BY <1>1, <1>2, <1>3 DEF Step, Ask, LookUp, Build, Stamp, BeginSave, EndSave, SaveMeta,
                            SaveFails, RenamePt, RenameMeta, CleanUp, Go
  <1>5. answer'[p] = pt[File(p)]
    BY <1>1, <1>4 DEF Load, Crash, Return, TypeOK, CacheAssumption
  <1>6. Only(pt[File(p)], asked[p])
    BY <1>1 DEF FilesOf, Sound
  <1> QED
    BY <1>1, <1>5, <1>6 DEF Only

(* Nothing else than a clash of batches or a store broken off between its  *)
(* two renames makes a lookup return another batch than the one asked for  *)
(* (docs/tutorial.md:324): for any number of processes, whatever requests  *)
(* share an entry, however often the inputs change, and however many       *)
(* stores fail or die (ic_cache.py:266-297).                               *)
THEOREM CacheReplaysExactBatch == CacheAssumption => (Spec => UnspoiltReplaysExactBatch)
  <1> SUFFICES ASSUME CacheAssumption
               PROVE  Spec => UnspoiltReplaysExactBatch
    OBVIOUS
  <1>1. Init => CacheInv
    BY CacheInit
  <1>2. CacheInv /\ [Next]_vars => CacheInv'
    BY CacheStep
  <1>3. CacheInv /\ [Next]_vars =>
            [\A p \in Procs :
                Replayed(p) /\ File(p) \notin spoilt => answer'[p] = asked[p]]_vars
    BY ReplayStep
  <1> QED
    BY <1>1, <1>2, <1>3, PTL DEF Spec, UnspoiltReplaysExactBatch

(* The same of the disk, with nobody looking: the tensors of an entry are  *)
(* torn or what its fingerprint says, unless the entry is spoilt, or       *)
(* somebody has renamed the tensors and not yet the fingerprint.           *)
THEOREM EntriesAreVouchedFor ==
    CacheAssumption =>
        (Spec => [](\A f \in Files : f \notin spoilt /\ meta[f] \in Batch =>
                       Only(pt[f], meta[f]) \/ Between(f)))
  <1> SUFFICES ASSUME CacheAssumption
               PROVE  Spec => [](\A f \in Files : f \notin spoilt /\ meta[f] \in Batch =>
                                    Only(pt[f], meta[f]) \/ Between(f))
    OBVIOUS
  <1>1. Init => CacheInv
    BY CacheInit
  <1>2. CacheInv /\ [Next]_vars => CacheInv'
    BY CacheStep
  <1>3. CacheInv => \A f \in Files : f \notin spoilt /\ meta[f] \in Batch =>
                       Only(pt[f], meta[f]) \/ Between(f)
    BY DEF CacheInv, EntryOf
  <1> QED
    BY <1>1, <1>2, <1>3, PTL DEF Spec
=============================================================================
