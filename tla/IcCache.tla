------------------------------- MODULE IcCache --------------------------------
(***************************************************************************)
(* The disk cache for initial conditions,                                  *)
(* flash_aurora/engine/ingress/ic_cache.py, as from_source of build_ic.py  *)
(* uses it: look the request up, else build the batch and store it.  An    *)
(* entry is two files, the tensors (.pt) and a fingerprint of what they    *)
(* were made of (.meta.json), each written under a temporary name that all *)
(* processes share and then renamed.                                       *)
(*                                                                         *)
(* A request has a key (preset, day, time index) and input files, those it *)
(* names itself (raw_paths) or those of the download directory; the key    *)
(* and the place of the first file name the entry, so requests with other  *)
(* inputs, or even another key, may share it.  A batch is abstracted to    *)
(* what it was built from, the key and the content of the input files,     *)
(* which is just what a fingerprint says too.  The inputs may change at    *)
(* any moment, also back; they are hashed, and read, in one step.          *)
(***************************************************************************)
EXTENDS Integers, FiniteSets

CONSTANTS
    Procs,
    IngestRequests, \* requests that differ in their key or in their input files
    Keys,           \* preset, day and time index
    KeyOf,          \* the key of a request
    Files,          \* entries of the cache
    FileOf,         \* the entry of a request: ic_cache_paths, which cuts a key
                    \* at its last dot, of source_cache_location
    Contents,       \* what the input files of a request may hold
    FirstInput,     \* what they hold at first
    MaxChanges,     \* bound: how often they change
    None,           \* no file, no answer yet, or nothing in hand
    Torn,           \* a file that holds part of a batch, or of two
    Error           \* an exception

Batch == [key : Keys, content : Contents]

CacheAssumption ==
    /\ KeyOf \in [IngestRequests -> Keys]
    /\ FileOf \in [IngestRequests -> Files]
    /\ FirstInput \in [IngestRequests -> Contents]
    /\ MaxChanges \in Nat
    /\ None \notin IngestRequests
    /\ {None, Torn, Error} \cap Batch = {}

VARIABLES
    input,    \* what the input files of each request hold
    changes,  \* what MaxChanges bounds
    pt,       \* the tensor file of an entry
    meta,     \* its fingerprint
    ptTmp,    \* the temporary files
    metaTmp,
    pc,       \* where a process is
    request,  \* what it was asked for
    asked,    \* the fingerprint computed for the lookup
    built,    \* the batch it built
    stamp,    \* the fingerprint computed again for the store
    open,     \* under which name the file is that it writes
    answer,   \* what from_source returned
    hindered, \* history: processes that do not write an entry in peace
    spoilt    \* history: entries whose two files may not belong together

inputVars == <<input, changes>>
diskVars == <<pt, meta, ptTmp, metaTmp>>
procVars == <<pc, request, asked, built, stamp, open, answer>>
vars == <<inputVars, diskVars, procVars, hindered, spoilt>>

Labels == {"idle", "lookup", "load", "build", "stamp", "save", "saving",
           "saveMeta", "renamePt", "renameMeta", "cleanup", "fail"}

TypeOK ==
    /\ input \in [IngestRequests -> Contents]
    /\ changes \in 0 .. MaxChanges
    /\ pt \in [Files -> Batch \cup {None, Torn}]
    /\ meta \in [Files -> Batch \cup {None}]
    /\ ptTmp \in [Files -> Batch \cup {None, Torn}]
    /\ metaTmp \in [Files -> Batch \cup {None}]
    /\ pc \in [Procs -> Labels]
    /\ request \in [Procs -> IngestRequests \cup {None}]
    /\ asked \in [Procs -> Batch \cup {None}]
    /\ built \in [Procs -> Batch \cup {None}]
    /\ stamp \in [Procs -> Batch \cup {None}]
    /\ open \in [Procs -> {"tmp", "pt", "gone", "closed"}]
    /\ answer \in [Procs -> Batch \cup {None, Error}]
    /\ hindered \subseteq Procs
    /\ spoilt \subseteq Files

(* What earlier runs of the program may have stored in an entry *)
Storable(f) ==
    [key : {KeyOf[r] : r \in {s \in IngestRequests : FileOf[s] = f}}, content : Contents]

Init ==
    /\ input = FirstInput
    /\ changes = 0
    /\ pt \in [Files -> Batch \cup {None}]
    /\ \A f \in Files : pt[f] \in Storable(f) \cup {None}
    /\ meta = pt
    /\ ptTmp = [f \in Files |-> None]
    /\ metaTmp = [f \in Files |-> None]
    /\ pc = [p \in Procs |-> "idle"]
    /\ request = [p \in Procs |-> None]
    /\ asked = [p \in Procs |-> None]
    /\ built = [p \in Procs |-> None]
    /\ stamp = [p \in Procs |-> None]
    /\ open = [p \in Procs |-> "closed"]
    /\ answer = [p \in Procs |-> None]
    /\ hindered = {}
    /\ spoilt = {}

-----------------------------------------------------------------------------
File(p) == FileOf[request[p]]
Current(r) == [key |-> KeyOf[r], content |-> input[r]]

Go(p, from, to) == pc[p] = from /\ pc' = [pc EXCEPT ![p] = to]

(* Back to the caller, with a batch or an exception *)
Return(p, result) ==
    /\ answer' = [answer EXCEPT ![p] = result]
    /\ request' = [request EXCEPT ![p] = None]
    /\ asked' = [asked EXCEPT ![p] = None]
    /\ built' = [built EXCEPT ![p] = None]
    /\ stamp' = [stamp EXCEPT ![p] = None]

(* fingerprint_for_source hashes the input files *)
Ask(p, r) ==
    /\ Go(p, "idle", "lookup")
    /\ request' = [request EXCEPT ![p] = r]
    /\ asked' = [asked EXCEPT ![p] = Current(r)]
    /\ answer' = [answer EXCEPT ![p] = None]
    /\ UNCHANGED <<inputVars, diskVars, built, stamp, open>>

(* Mutant: any fingerprint will do *)
HitAnyway(p) == pt[File(p)] # None /\ meta[File(p)] # None

(* Both files exist and the fingerprint is the one asked for *)
Hit(p) == pt[File(p)] # None /\ meta[File(p)] = asked[p]

LookUp(p) ==
    /\ Go(p, "lookup", IF Hit(p) THEN "load" ELSE "build")
    /\ UNCHANGED <<inputVars, diskVars, request, asked, built, stamp, open, answer>>

(* Mutant: whatever the file holds is returned *)
LoadUnchecked(p) ==
    /\ Go(p, "load", "idle")
    /\ Return(p, pt[File(p)])
    /\ UNCHANGED <<inputVars, diskVars, open>>

(* torch.load, after the fingerprint was compared; a torn file raises      *)
Load(p) ==
    /\ Go(p, "load", "idle")
    /\ Return(p, IF pt[File(p)] = Torn THEN Error ELSE pt[File(p)])
    /\ UNCHANGED <<inputVars, diskVars, open>>

(* The adapter reads the inputs as they are by now; it or the validator    *)
(* may refuse them                                                         *)
Build(p) ==
    \/ /\ Go(p, "build", "stamp")
       /\ built' = [built EXCEPT ![p] = Current(request[p])]
       /\ UNCHANGED <<inputVars, diskVars, request, asked, stamp, open, answer>>
    \/ /\ Go(p, "build", "idle")
       /\ Return(p, Error)
       /\ UNCHANGED <<inputVars, diskVars, open>>

-----------------------------------------------------------------------------
(* store_cached_source_batch and _store_cached.                            *)

(* The inputs are hashed a second time *)
Stamp(p) ==
    /\ Go(p, "stamp", "save")
    /\ stamp' = [stamp EXCEPT ![p] = Current(request[p])]
    /\ UNCHANGED <<inputVars, diskVars, request, asked, built, open, answer>>

(* Opening truncates the file, one that another process writes too         *)
BeginSave(p) ==
    /\ Go(p, "save", "saving")
    /\ ptTmp' = [ptTmp EXCEPT ![File(p)] = Torn]
    /\ open' = [open EXCEPT ![p] = "tmp"]
    /\ UNCHANGED <<inputVars, pt, meta, metaTmp, request, asked, built, stamp, answer>>

(* What p wrote, unless somebody else writes the same file                 *)
Saved(p) ==
    IF \E q \in Procs \ {p} : pc[q] = "saving" /\ File(q) = File(p) /\ open[q] = open[p]
    THEN Torn ELSE built[p]

(* The file may meanwhile have been renamed or removed by another process  *)
EndSave(p) ==
    /\ Go(p, "saving", "saveMeta")
    /\ ptTmp' = IF open[p] = "tmp" THEN [ptTmp EXCEPT ![File(p)] = Saved(p)] ELSE ptTmp
    /\ pt' = IF open[p] = "pt" THEN [pt EXCEPT ![File(p)] = Saved(p)] ELSE pt
    /\ open' = [open EXCEPT ![p] = "closed"]
    /\ UNCHANGED <<inputVars, meta, metaTmp, request, asked, built, stamp, answer>>

SaveMeta(p) ==
    /\ Go(p, "saveMeta", "renamePt")
    /\ metaTmp' = [metaTmp EXCEPT ![File(p)] = stamp[p]]
    /\ UNCHANGED <<inputVars, pt, meta, ptTmp, request, asked, built, stamp, open, answer>>

(* Writing a temporary file fails, and leaves it as it is                  *)
SaveFails(p) ==
    /\ Go(p, pc[p], "fail")
    /\ pc[p] \in {"saving", "saveMeta"}
    /\ open' = [open EXCEPT ![p] = "closed"]
    /\ UNCHANGED <<inputVars, diskVars, request, asked, built, stamp, answer>>

(* Who has the file open under a name keeps it when the name goes          *)
Moved(p, toPt) ==
    [q \in Procs |->
        IF pc[q] # "saving" \/ File(q) # File(p) THEN open[q]
        ELSE IF open[q] = "tmp" THEN IF toPt THEN "pt" ELSE "gone"
        ELSE IF toPt THEN "gone" ELSE open[q]]

RenamePt(p) ==
    /\ Go(p, "renamePt", IF ptTmp[File(p)] = None THEN "fail" ELSE "renameMeta")
    /\ IF ptTmp[File(p)] = None
       THEN UNCHANGED <<pt, ptTmp, open>>
       ELSE /\ pt' = [pt EXCEPT ![File(p)] = ptTmp[File(p)]]
            /\ ptTmp' = [ptTmp EXCEPT ![File(p)] = None]
            /\ open' = Moved(p, TRUE)
    /\ UNCHANGED <<inputVars, meta, metaTmp, request, asked, built, stamp, answer>>

RenameMeta(p) ==
    /\ Go(p, "renameMeta", IF metaTmp[File(p)] = None THEN "fail" ELSE "cleanup")
    /\ IF metaTmp[File(p)] = None
       THEN UNCHANGED <<meta, metaTmp>>
       ELSE /\ meta' = [meta EXCEPT ![File(p)] = metaTmp[File(p)]]
            /\ metaTmp' = [metaTmp EXCEPT ![File(p)] = None]
    /\ UNCHANGED <<inputVars, pt, ptTmp, request, asked, built, stamp, open, answer>>

(* The finally clause removes the temporary files, whoever's they are      *)
CleanUp(p) ==
    /\ pc[p] \in {"cleanup", "fail"}
    /\ pc' = [pc EXCEPT ![p] = "idle"]
    /\ ptTmp' = [ptTmp EXCEPT ![File(p)] = None]
    /\ metaTmp' = [metaTmp EXCEPT ![File(p)] = None]
    /\ open' = Moved(p, FALSE)
    /\ Return(p, IF pc[p] = "fail" THEN Error ELSE built[p])
    /\ UNCHANGED <<inputVars, pt, meta>>

-----------------------------------------------------------------------------
(* Somebody downloads input files anew, or puts earlier ones back, whoever *)
(* works with them; so does the adapter itself, which makes NetCDF files   *)
(* of GRIB ones and fetches the static fields before it reads them         *)
Change(r) ==
    /\ changes < MaxChanges
    /\ changes' = changes + 1
    /\ \E c \in Contents \ {input[r]} : input' = [input EXCEPT ![r] = c]
    /\ UNCHANGED <<diskVars, procVars>>

(* A file that was being written stays as it is                            *)
Crash(p) ==
    /\ pc[p] # "idle"
    /\ pc' = [pc EXCEPT ![p] = "idle"]
    /\ open' = [open EXCEPT ![p] = "closed"]
    /\ Return(p, None)
    /\ UNCHANGED <<inputVars, diskVars>>

Step(p) ==
    \/ \E r \in IngestRequests : Ask(p, r)
    \/ LookUp(p) \/ Load(p) \/ Build(p)
    \/ Stamp(p) \/ BeginSave(p) \/ EndSave(p) \/ SaveMeta(p) \/ SaveFails(p)
    \/ RenamePt(p) \/ RenameMeta(p) \/ CleanUp(p)
    \/ Crash(p)

-----------------------------------------------------------------------------
(* What can spoil an entry, and what makes it good again: history that no  *)
(* step of the code reads.                                                 *)

(* From the truncation of the temporary file to the second rename *)
Writing == {"saving", "saveMeta", "renamePt", "renameMeta"}

(* Who writes an entry or is about to load it, and the batch it has in mind *)
At(f) == {p \in Procs : pc[p] \in Writing \cup {"load"} /\ File(p) = f}
Meant(p) == IF pc[p] = "load" THEN asked[p] ELSE built[p]

(* Somebody writes the entry who has two batches in mind, since the inputs *)
(* changed between the build and the second hash, or while another process *)
(* at the entry has another batch in mind                                  *)
Clash(f) ==
    \E p \in At(f) :
        /\ pc[p] \in Writing
        /\ stamp[p] # built[p] \/ \E q \in At(f) : Meant(q) # built[p]

(* A process fails or dies between the two renames, and the fingerprint    *)
(* beside its tensors is of another batch                                  *)
Halved(p) ==
    /\ pc[p] = "renameMeta" /\ pc'[p] \in {"fail", "idle"}
    /\ meta[File(p)] \notin {None, built[p]}

(* Both files were written and renamed in peace *)
Mended(p) == pc[p] = "renameMeta" /\ pc'[p] = "cleanup" /\ p \notin hindered

Watch ==
    /\ hindered' = {p \in Procs : pc'[p] \in Writing /\ (p \in hindered \/ Clash(File(p))')}
    /\ spoilt' = (spoilt \ {File(p) : p \in {q \in Procs : Mended(q)}})
                     \cup {File(p) : p \in {q \in Procs : Halved(q)}}
                     \cup {f \in Files : Clash(f)'}

Next ==
    /\ (\E p \in Procs : Step(p)) \/ (\E r \in IngestRequests : Change(r))
    /\ Watch

Spec == Init /\ [][Next]_vars

-----------------------------------------------------------------------------
(* Properties.                                                             *)

(* A lookup has ended with a batch *)
Replayed(p) == pc[p] = "load" /\ pc'[p] = "idle" /\ answer'[p] \in Batch

(* docs/tutorial.md:324 "repeated prepares with the same inputs replay     *)
(* bit-for-bit", and :331 "input file hashes (CDS/GRIB/NetCDF cache layout *)
(* or raw_paths)": a batch that comes from the cache (_load_cached) is of  *)
(* the key asked for and of the inputs that were hashed for the lookup.    *)
ReplaysExactBatch ==
    [][\A p \in Procs : Replayed(p) => answer'[p] = asked[p]]_vars

(* What _store_cached and _load_cached do keep: a batch that comes from an *)
(* entry that is not spoilt is the one asked for.  So nothing else spoils  *)
(* an entry than a change of the inputs between the build and the second   *)
(* hash, processes with different batches that meet at it while one writes *)
(* it, and a failure or death between the two renames over an older        *)
(* fingerprint; and one store in peace makes the entry good again.         *)
UnspoiltReplaysExactBatch ==
    [][\A p \in Procs :
          Replayed(p) /\ File(p) \notin spoilt => answer'[p] = asked[p]]_vars
=============================================================================
