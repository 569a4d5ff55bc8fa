------------------------- MODULE MediaAssets_proofs -------------------------
(***************************************************************************)
(* Theorems of MediaAssets for any workers, assets, stems, keys and        *)
(* variants, and every limit on attempts, stalls and troubles.             *)
(***************************************************************************)
EXTENDS MediaAssets, TLAPS

-----------------------------------------------------------------------------
(* The inductive invariant. *)

HasImage(key) == \E a \in Asset : IsRow(a) /\ IsImage(a) /\ row[a].key = key
Full(a, v) == object[VariantKey(row[a].key, v)] # Nothing

\* The key itself, registered, or a variant of an image.
Made(k, of) ==
    \/ of = k /\ Registered(k)
    \/ HasImage(of) /\ \E v \in Variant : k = VariantKey(of, v)

\* Only an asset that has a row has a job.
JobInv == \A a \in Asset : job[a].state # "absent" => IsRow(a)

\* Whoever downloads or uploads works on an image; what he has put is there,
\* and the image of a worker that is done is processed.
Working(w) ==
    /\ At(w, "idle") <=> ~Busy(w)
    /\ Busy(w) => IsRow(slot[w])
    /\ At(w, "download") \/ At(w, "upload") => IsImage(slot[w])
    /\ At(w, "upload") => \A v \in Variant \ step[w].put : Full(slot[w], v)
    /\ step[w].put # {} => At(w, "upload")
    /\ At(w, "done") /\ IsImage(slot[w]) /\ sharp => row[slot[w]].processed
WorkInv == \A w \in Worker : Working(w)

\* What the bucket holds is the original that was registered under its key, or
\* a variant of an image, and so will be whatever is still under way.
VariantInv ==
    /\ \A k \in Object : object[k] # Nothing => Made(k, object[k])
    /\ \A kv \in stray : HasImage(kv[1])

\* A processed asset is an image with its variants in place.
ProcessedInv ==
    \A a \in Asset : row[a].processed => IsRow(a) /\ IsImage(a) /\ \A v \in Variant : Full(a, v)

IInv == TypeOK /\ JobInv /\ WorkInv /\ VariantInv /\ ProcessedInv

USE QueueAssumption, NoneAssumption

-----------------------------------------------------------------------------
(* BullMQ's steps. *)

State == {"absent", "waiting", "active", "completed", "failed"}

LEMMA FreshEntry == \A s \in State : Fresh(s) \in Entry /\ Fresh(s).state = s
  BY DEF Fresh, Entry, State

LEMMA BusyFacts ==
    ASSUME QueueTypeOK, NEW w \in Worker, Busy(w)
    PROVE  slot[w] \in Asset
  BY DEF QueueTypeOK, Busy, Asset

LEMMA JobFacts ==
    ASSUME QueueTypeOK, NEW j \in Job
    PROVE  /\ job[j] \in Entry /\ job[j].state \in State /\ job[j].owner \in Worker \cup {NoWorker}
           /\ job[j].made \in 0..Attempts - 1 /\ job[j].stalls \in 0..MaxStalls
  <1>1. job[j] \in Entry
    BY DEF QueueTypeOK
  <1>2. QED
    BY <1>1 DEF Entry, State

LEMMA RetriedEntry ==
    ASSUME QueueTypeOK, NEW j \in Job, job[j].made + 1 < Attempts
    PROVE  Retried(j) \in Entry /\ Retried(j).state = "waiting"
  <1>1. job[j] \in Entry /\ job[j].made + 1 \in 0..Attempts - 1
    BY JobFacts
  <1>2. QED
    BY <1>1 DEF Retried, Entry

LEMMA HandedEntry ==
    ASSUME QueueTypeOK, NEW j \in Job
    PROVE  /\ Handed(j).state = "waiting"
           /\ job[j].stalls < MaxStalls => Handed(j) \in Entry
  <1>1. job[j] \in Entry /\ (job[j].stalls < MaxStalls => job[j].stalls + 1 \in 0..MaxStalls)
    BY JobFacts
  <1>2. QED
    BY <1>1 DEF Handed, Entry

\* The end of an attempt frees its worker and touches no job but the worker's.
\* An attempt that threw completes nothing.
LEMMA Resolves ==
    ASSUME QueueTypeOK, NEW w \in Worker, Busy(w), Resolve(w)
    PROVE  /\ job' \in [Job -> Entry] /\ slot' = [slot EXCEPT ![w] = NoJob]
           /\ closed' \in SUBSET Worker
           /\ \A j \in Job \ {slot[w]} : job'[j] = job[j]
  <1>1. slot[w] \in Job /\ job \in [Job -> Entry] /\ closed \in SUBSET Worker
    BY BusyFacts DEF QueueTypeOK, Asset
  <1>2. job' = job \/ job' = [job EXCEPT ![slot[w]] = Fresh("completed")]
    BY DEF Resolve
  <1>3. QED
    BY <1>1, <1>2, FreshEntry DEF State, Resolve, Leave

LEMMA Rejects ==
    ASSUME QueueTypeOK, NEW w \in Worker, Busy(w), Reject(w)
    PROVE  /\ job' \in [Job -> Entry] /\ slot' = [slot EXCEPT ![w] = NoJob]
           /\ closed' \in SUBSET Worker
           /\ \A j \in Job \ {slot[w]} : job'[j] = job[j]
           /\ job'[slot[w]].state = "completed" => job[slot[w]].state = "completed"
  <1>1. slot[w] \in Job /\ job \in [Job -> Entry] /\ closed \in SUBSET Worker
    BY BusyFacts DEF QueueTypeOK, Asset
  <1>2. slot' = [slot EXCEPT ![w] = NoJob] /\ closed' \in SUBSET Worker
    BY <1>1 DEF Reject, Leave
  <1>3. \/ job' = job
        \/ /\ job[slot[w]].made + 1 < Attempts
           /\ job' = [job EXCEPT ![slot[w]] = Retried(slot[w])]
        \/ job' = [job EXCEPT ![slot[w]] = Fresh("failed")]
    BY DEF Reject
  <1>4. job[slot[w]].made + 1 < Attempts =>
          Retried(slot[w]) \in Entry /\ Retried(slot[w]).state = "waiting"
    BY <1>1, RetriedEntry
  <1>5. Fresh("failed") \in Entry /\ Fresh("failed").state = "failed"
    BY FreshEntry DEF State
  <1>6. QED
    BY <1>1, <1>2, <1>3, <1>4, <1>5

LEMMA Takes ==
    ASSUME QueueTypeOK, NEW w \in Worker, NEW j \in Job, Take(w, j)
    PROVE  /\ QueueTypeOK' /\ slot' = [slot EXCEPT ![w] = j]
           /\ ~Busy(w) /\ job[j].state = "waiting" /\ job'[j].state = "active"
           /\ \A i \in Job \ {j} : job'[i] = job[i]
  <1>0. /\ job \in [Job -> Entry] /\ slot \in [Worker -> Job \cup {NoJob}]
        /\ closed \in SUBSET Worker /\ troubles \in 0..MaxTroubles
    BY DEF QueueTypeOK
  <1>1. [job[j] EXCEPT !.state = "active", !.owner = w] \in Entry
    BY <1>0 DEF Entry
  <1>2. job'[j] = [job[j] EXCEPT !.state = "active", !.owner = w]
    BY <1>0 DEF Take
  <1>3. job'[j].state = "active"
    BY <1>0, <1>2 DEF Entry
  <1>4. job' \in [Job -> Entry]
    BY <1>0, <1>1 DEF Take
  <1>5. QED
    BY <1>0, <1>3, <1>4 DEF Take, QueueTypeOK

\* A stall hands on or fails an active job.
LEMMA Stalls ==
    ASSUME QueueTypeOK, NEW j \in Job, Stall(j)
    PROVE  /\ QueueTypeOK' /\ slot' = slot
           /\ job[j].state = "active" /\ job'[j].state # "completed"
           /\ \A i \in Job \ {j} : job'[i] = job[i]
  <1>0. /\ job \in [Job -> Entry] /\ slot \in [Worker -> Job \cup {NoJob}]
        /\ closed \in SUBSET Worker /\ troubles \in 0..MaxTroubles /\ job[j] \in Entry
    BY DEF QueueTypeOK
  <1>1. PICK e \in {Handed(j), Fresh("failed")} :
            job' = [job EXCEPT ![j] = e] /\ (e = Handed(j) => job[j].stalls < MaxStalls)
    <2>1. CASE job[j].stalls < MaxStalls
      BY <2>1 DEF Stall
    <2>2. CASE ~(job[j].stalls < MaxStalls)
      <3>1. job' = [job EXCEPT ![j] = Fresh("failed")]
        BY <2>2 DEF Stall
      <3>2. Fresh("failed").state = "failed"
        BY FreshEntry DEF State
      <3>3. Handed(j).state = "waiting"
        BY HandedEntry
      <3>4. QED
        BY <3>1, <3>2, <3>3
    <2>3. QED
      BY <2>1, <2>2
  <1>2. e \in Entry /\ e.state # "completed"
    BY <1>1, HandedEntry, FreshEntry DEF State
  <1>3. troubles' \in 0..MaxTroubles
    BY <1>0 DEF Stall, Trouble
  <1>4. QED
    BY <1>0, <1>1, <1>2, <1>3 DEF Stall, QueueTypeOK

LEMMA Adds ==
    ASSUME QueueTypeOK, NEW j \in Job, Add(j)
    PROVE  /\ QueueTypeOK' /\ slot' = slot
           /\ \A i \in Job \ {j} : job'[i] = job[i]
           /\ job'[j].state = "completed" => job[j].state = "completed"
  <1>1. job \in [Job -> Entry] /\ Fresh("waiting") \in Entry /\ Fresh("waiting").state = "waiting"
    BY FreshEntry DEF QueueTypeOK, State
  <1>2. job' = job \/ job' = [job EXCEPT ![j] = Fresh("waiting")]
    BY DEF Add
  <1>3. QED
    BY <1>1, <1>2 DEF Add, QueueTypeOK

LEMMA Evicts ==
    ASSUME QueueTypeOK, NEW j \in Job, Evict(j)
    PROVE  /\ QueueTypeOK' /\ slot' = slot
           /\ \A i \in Job \ {j} : job'[i] = job[i]
           /\ job'[j].state = "absent"
  <1>1. job \in [Job -> Entry] /\ Fresh("absent") \in Entry /\ Fresh("absent").state = "absent"
    BY FreshEntry DEF QueueTypeOK, State
  <1>2. job' = [job EXCEPT ![j] = Fresh("absent")]
    BY DEF Evict
  <1>3. QED
    BY <1>1, <1>2 DEF Evict, QueueTypeOK

-----------------------------------------------------------------------------
(* Rows and variants. *)

Steps == [at: {"idle", "find", "download", "upload", "done"}, put: SUBSET Variant]

\* A row has a key of its own, which no placeholder is.
LEMMA RowFacts ==
    ASSUME TypeOK, NEW a \in Asset
    PROVE  /\ row[a].processed \in BOOLEAN
           /\ IsRow(a) <=> row[a] \in Row
           /\ IsRow(a) => row[a].key \in Key /\ row[a] = [key |-> row[a].key, processed |-> row[a].processed]
           /\ ~IsRow(a) => ~row[a].processed
  <1>1. NoRow \notin Row
    BY DEF NoRow, Row
  <1>2. row[a] \in {NoRow} \cup Row
    BY DEF TypeOK
  <1>3. CASE row[a] = NoRow
    BY <1>1, <1>3 DEF NoRow, IsRow
  <1>4. CASE row[a] \in Row
    BY <1>1, <1>4 DEF Row, IsRow
  <1>5. QED
    BY <1>2, <1>3, <1>4

LEMMA KeyFacts ==
    ASSUME NEW key \in Key
    PROVE  /\ key # Nothing /\ key.stem \in Stem /\ key \in Object
           /\ \A v \in Variant : VariantKey(key, v) \in Object
  <1>1. key \in [stem: Stem, mime: AllowedMime]
    BY MediaAssumption
  <1>2. key.stem \in Stem /\ key.mime \in AllowedMime
    BY <1>1
  <1>3. key # Nothing
    BY <1>2 DEF AllowedMime, Image, Video, Nothing
  <1>4. QED
    BY <1>2, <1>3 DEF Object

\* No two keys have a variant in common, but for their extension.
LEMMA VariantOfStem ==
    ASSUME NEW key \in Key, NEW of \in Key, NEW v \in Variant, NEW u \in Variant,
           VariantKey(key, v) = VariantKey(of, u)
    PROVE  key.stem = of.stem
  <1>1. <<key.stem, v>> \in Stem \X Variant /\ <<of.stem, u>> \in Stem \X Variant
    BY KeyFacts
  <1>2. Suffixed[<<key.stem, v>>] = Suffixed[<<of.stem, u>>]
    BY DEF VariantKey
  <1>3. <<key.stem, v>> = <<of.stem, u>>
    BY <1>1, <1>2, MediaAssumption
  <1>4. QED
    BY <1>3

\* Rows stay as they are but for the flag, which is only set; objects are only
\* overwritten.
Grows ==
    /\ \A a \in Asset : IsRow(a) =>
        IsRow(a)' /\ row'[a].key = row[a].key /\ (row[a].processed => row'[a].processed)
    /\ \A k \in Object : object[k] # Nothing => object'[k] # Nothing
    /\ sharp' = sharp

LEMMA ImageKept ==
    ASSUME Grows, NEW a \in Asset, IsRow(a)
    PROVE  /\ IsImage(a)' <=> IsImage(a)
           /\ \A v : VariantKey(row[a].key, v)' = VariantKey(row[a].key, v)
  BY DEF Grows, IsImage, VariantKey

LEMMA HasImageKept ==
    ASSUME Grows, NEW key, HasImage(key)
    PROVE  HasImage(key)'
  BY ImageKept DEF Grows, HasImage

LEMMA MadeKept ==
    ASSUME Grows, NEW k, NEW of, Made(k, of)
    PROVE  Made(k, of)'
  <1>1. Registered(k) => Registered(k)'
    BY DEF Grows, Registered
  <1>2. QED
    BY <1>1, HasImageKept DEF Made, VariantKey

LEMMA FullKept ==
    ASSUME TypeOK, Grows, NEW a \in Asset, IsRow(a), NEW v \in Variant, Full(a, v)
    PROVE  Full(a, v)'
  <1>1. VariantKey(row[a].key, v) \in Object
    BY RowFacts, KeyFacts
  <1>2. QED
    BY <1>1, ImageKept DEF Full, Grows

\* A worker that does not move goes on as before.
LEMMA WorkKept ==
    ASSUME TypeOK, Grows, NEW w \in Worker, Working(w),
           slot'[w] = slot[w], step'[w] = step[w]
    PROVE  Working(w)'
  <1>0. Busy(w)' <=> Busy(w)
    BY DEF Busy
  <1>1. CASE ~Busy(w)
    BY <1>0, <1>1 DEF Working, At
  <1>2. CASE Busy(w)
    <2>1. slot[w] \in Asset /\ IsRow(slot[w])
      BY <1>2, BusyFacts DEF Working, TypeOK
    <2>2. IsImage(slot[w])' <=> IsImage(slot[w])
      BY <2>1, ImageKept
    <2>3. \A v \in Variant : Full(slot[w], v) => Full(slot[w], v)'
      BY <2>1, FullKept
    <2>4. QED
      BY <1>0, <1>2, <2>1, <2>2, <2>3 DEF Working, At, Grows
  <1>3. QED
    BY <1>1, <1>2

\* What an action owes the invariant: a new object is rightly made, a flag that
\* is set is of an image with its variants, a job that is added has a row, and
\* whoever moves does so rightly.
LEMMA Frame ==
    ASSUME IInv, TypeOK', Grows,
           \A k \in Object : object'[k] # object[k] => Made(k, object'[k]),
           \A kv \in stray' : kv \in stray \/ HasImage(kv[1]),
           \A a \in Asset : row'[a].processed => row[a].processed \/
                (IsRow(a) /\ IsImage(a) /\ \A v \in Variant : Full(a, v)),
           \A a \in Asset : job'[a].state # "absent" => job[a].state # "absent" \/ IsRow(a),
           \A w \in Worker : (slot'[w] = slot[w] /\ step'[w] = step[w]) \/ Working(w)'
    PROVE  IInv'
  <1>1. JobInv'
    BY DEF IInv, JobInv, Grows
  <1>2. WorkInv'
    BY WorkKept DEF IInv, WorkInv
  <1>3. VariantInv'
    <2>1. ASSUME NEW k \in Object, NEW of, of = object'[k], of # Nothing
          PROVE  Made(k, of)'
      <3>1. Made(k, of)
        BY <2>1 DEF IInv, VariantInv
      <3>2. QED
        BY <3>1, MadeKept
    <2>2. ASSUME NEW kv \in stray' PROVE HasImage(kv[1])'
      <3>1. HasImage(kv[1])
        BY <2>2 DEF IInv, VariantInv
      <3>2. QED
        BY <3>1, HasImageKept
    <2>3. QED
      BY <2>1, <2>2 DEF VariantInv
  <1>4. ProcessedInv'
    <2> SUFFICES ASSUME NEW a \in Asset, row'[a].processed
                 PROVE  IsRow(a)' /\ IsImage(a)' /\ \A v \in Variant : Full(a, v)'
      BY DEF ProcessedInv
    <2>1. IsRow(a) /\ IsImage(a) /\ \A v \in Variant : Full(a, v)
      BY DEF IInv, ProcessedInv
    <2>2. QED
      BY <2>1, ImageKept, FullKept DEF IInv, Grows
  <1>5. QED
    BY <1>1, <1>2, <1>3, <1>4 DEF IInv

\* Only an attempt that processed its image, or could not read it, completes
\* the job of an image.
Finishes ==
    /\ missed \subseteq missed'
    /\ \A a \in Asset : job'[a].state = "completed" =>
        \/ job[a].state = "completed"
        \/ IsRow(a) /\ (IsImage(a) /\ sharp => row[a].processed \/ a \in missed')

LEMMA TypeFacts ==
    ASSUME IInv
    PROVE  /\ QueueTypeOK /\ row \in [Asset -> {NoRow} \cup Row] 
           /\ object \in [Object -> Key \cup {Nothing}] /\ sharp \in BOOLEAN
           /\ step \in [Worker -> Steps] /\ stray \in SUBSET (Key \X Variant)
           /\ missed \in SUBSET Asset
  BY DEF IInv, TypeOK, Steps

LEMMA QueueSame ==
    ASSUME QueueTypeOK, UNCHANGED queueVars
    PROVE  QueueTypeOK'
  BY DEF QueueTypeOK, queueVars

\* What a worker works on.
LEMMA WorkFacts ==
    ASSUME IInv, NEW w \in Worker, ~At(w, "idle")
    PROVE  /\ Busy(w) /\ slot[w] \in Asset /\ IsRow(slot[w]) /\ KeyOf(w) \in Key
           /\ At(w, "download") \/ At(w, "upload") => IsImage(slot[w]) /\ HasImage(KeyOf(w))
           /\ step[w] \in Steps
  <1>1. Busy(w) /\ IsRow(slot[w])
    BY DEF IInv, WorkInv, Working
  <1>2. slot[w] \in Asset
    BY <1>1, BusyFacts, TypeFacts
  <1>3. KeyOf(w) \in Key /\ step[w] \in Steps
    BY <1>1, <1>2, RowFacts, TypeFacts DEF KeyOf, IInv
  <1>4. At(w, "download") \/ At(w, "upload") => IsImage(slot[w])
    BY DEF IInv, WorkInv, Working
  <1>5. QED
    BY <1>1, <1>2, <1>3, <1>4 DEF HasImage, KeyOf

\* A step that leaves rows and objects as they are.
LEMMA Still ==
    ASSUME UNCHANGED <<row, object, sharp>>
    PROVE  Grows
  BY DEF Grows, IsRow

-----------------------------------------------------------------------------
(* One lemma for each action. *)

LEMMA CreateStep ==
    ASSUME IInv, NEW a \in Asset, NEW key \in Key, Create(a, key),
           UNCHANGED <<queueVars, bucket, sharp, step, missed>>
    PROVE  IInv' /\ Grows /\ Finishes
  <1> USE TypeFacts
  <1>1. /\ ~IsRow(a) /\ row' = [row EXCEPT ![a] = [key |-> key, processed |-> FALSE]]
        /\ job' = job /\ slot' = slot /\ object' = object /\ stray' = stray
    BY DEF Create, queueVars, bucket
  <1>2. \A b \in Asset : IsRow(b) => b # a /\ row'[b] = row[b]
    BY <1>1
  <1>3. Grows
    BY <1>1, <1>2 DEF Grows, IsRow
  <1>4. TypeOK'
    <2>1. [key |-> key, processed |-> FALSE] \in Row
      BY DEF Row
    <2>2. row' \in [Asset -> {NoRow} \cup Row]
      BY <1>1, <2>1
    <2>3. QED
      BY <1>1, <2>2, QueueSame DEF TypeOK, Steps
  <1>5. \A b \in Asset : row'[b].processed => row[b].processed
    <2>1. row'[a] = [key |-> key, processed |-> FALSE] /\ \A b \in Asset \ {a} : row'[b] = row[b]
      BY <1>1
    <2>2. QED
      BY <2>1
  <1>6. IInv'
    BY <1>1, <1>3, <1>4, <1>5, Frame
  <1>7. QED
    BY <1>1, <1>3, <1>6 DEF Finishes

LEMMA PutStep ==
    ASSUME IInv, NEW key \in Key, Put(key)
    PROVE  IInv' /\ Grows /\ Finishes
  <1> USE TypeFacts
  <1>1. /\ Registered(key) /\ object' = [object EXCEPT ![key] = key]
        /\ UNCHANGED <<job, slot, row, stray, sharp, step, missed>> /\ QueueTypeOK'
    BY QueueSame DEF Put, queueVars, Registered
  <1>2. /\ object' \in [Object -> Key \cup {Nothing}] /\ object'[key] = key /\ key # Nothing
        /\ \A k \in Object : k # key => object'[k] = object[k]
    BY <1>1, KeyFacts
  <1>3. Grows
    BY <1>1, <1>2 DEF Grows, IsRow
  <1>4. TypeOK'
    BY <1>1, <1>2 DEF TypeOK, Steps
  <1>5. \A k \in Object : object'[k] # object[k] => Made(k, object'[k])
    BY <1>1, <1>2 DEF Made
  <1>6. IInv'
    BY <1>1, <1>3, <1>4, <1>5, Frame
  <1>7. QED
    BY <1>1, <1>3, <1>6 DEF Finishes

\* A step of the queue alone.
LEMMA QueueStep ==
    ASSUME IInv, QueueTypeOK', slot' = slot, UNCHANGED <<row, bucket, sharp, step, missed>>,
           \A a \in Asset : job'[a].state # "absent" => job[a].state # "absent" \/ IsRow(a),
           \A a \in Asset : job'[a].state = "completed" => job[a].state = "completed"
    PROVE  IInv' /\ Grows /\ Finishes
  <1> USE TypeFacts
  <1>1. UNCHANGED <<object, stray>>
    BY DEF bucket
  <1>2. Grows
    BY <1>1, Still
  <1>3. TypeOK'
    BY <1>1 DEF TypeOK, Steps
  <1>4. IInv'
    BY <1>1, <1>2, <1>3, Frame
  <1>5. QED
    BY <1>2, <1>4 DEF Finishes

LEMMA ProcessStep ==
    ASSUME IInv, NEW a \in Asset, Process(a)
    PROVE  IInv' /\ Grows /\ Finishes
  <1>1. IsRow(a) /\ QueueTypeOK
    BY TypeFacts DEF Process
  <1>2. CASE Add(a)
    BY <1>1, <1>2, Adds, QueueStep DEF Process, Asset
  <1>3. CASE UNCHANGED queueVars
    BY <1>1, <1>3, QueueSame, QueueStep DEF Process, queueVars
  <1>4. QED
    BY <1>2, <1>3 DEF Process, EnqueueProcessing

LEMMA HandOnStep ==
    ASSUME IInv, NEW a \in Asset, HandOn(a)
    PROVE  IInv' /\ Grows /\ Finishes
  <1>1. CASE Stall(a)
    BY <1>1, Stalls, TypeFacts, QueueStep DEF HandOn, Asset
  <1>2. CASE Evict(a)
    BY <1>2, Evicts, TypeFacts, QueueStep DEF HandOn, Asset
  <1>3. QED
    BY <1>1, <1>2 DEF HandOn

LEMMA ShutdownStep ==
    ASSUME IInv, NEW w \in Worker, Shutdown(w)
    PROVE  IInv' /\ Grows /\ Finishes
  <1>1. QueueTypeOK' /\ slot' = slot /\ job' = job
    BY TypeFacts DEF Shutdown, Close, Trouble, QueueTypeOK
  <1>2. QED
    BY <1>1, QueueStep DEF Shutdown

LEMMA BeginStep ==
    ASSUME IInv, NEW w \in Worker, NEW a \in Asset, Begin(w, a)
    PROVE  IInv' /\ Grows /\ Finishes
  <1> DEFINE found == [at |-> "find", put |-> {}]
  <1> USE TypeFacts
  <1>1. /\ QueueTypeOK' /\ slot' = [slot EXCEPT ![w] = a]
        /\ job[a].state = "waiting" /\ job'[a].state = "active"
        /\ \A i \in Asset \ {a} : job'[i] = job[i]
    BY Takes DEF Begin, Asset
  <1>2. /\ UNCHANGED <<row, object, stray, sharp, missed>>
        /\ step' = [step EXCEPT ![w] = found]
    BY DEF Begin, bucket, Goto
  <1>3. slot \in [Worker -> Job \cup {NoJob}]
    BY DEF QueueTypeOK
  <1>4. slot'[w] = a /\ step'[w] = found
        /\ \A x \in Worker \ {w} : slot'[x] = slot[x] /\ step'[x] = step[x]
    BY <1>1, <1>2, <1>3
  <1>5. IsRow(a)
    BY <1>1 DEF IInv, JobInv
  <1>6. Working(w)'
    <2>1. /\ At(w, "find")' /\ ~At(w, "idle")' /\ ~At(w, "download")' /\ ~At(w, "upload")'
          /\ ~At(w, "done")' /\ step'[w].put = {}
      BY <1>4 DEF At
    <2>2. Busy(w)' /\ IsRow(slot[w])'
      BY <1>2, <1>4, <1>5 DEF Busy, Asset, IsRow
    <2>3. QED
      BY <2>1, <2>2 DEF Working
  <1>7. Grows
    BY <1>2, Still
  <1>8. TypeOK'
    <2>1. found \in Steps
      BY DEF Steps
    <2>2. step' \in [Worker -> Steps]
      BY <1>2, <2>1
    <2>3. QED
      BY <1>1, <1>2, <2>2 DEF TypeOK, Steps
  <1>9. IInv'
    BY <1>1, <1>2, <1>4, <1>5, <1>6, <1>7, <1>8, Frame
  <1>10. QED
    BY <1>1, <1>2, <1>7, <1>9 DEF Finishes

LEMMA FindStep ==
    ASSUME IInv, NEW w \in Worker, Find(w)
    PROVE  IInv' /\ Grows /\ Finishes
  <1> DEFINE a == slot[w]
             s == IF ~row[a].processed /\ IsImage(a) /\ sharp THEN "download" ELSE "done"
  <1> USE TypeFacts
  <1>1. /\ At(w, "find") /\ step' = [step EXCEPT ![w] = [at |-> s, put |-> {}]]
        /\ UNCHANGED <<job, slot, row, object, stray, sharp, missed>> /\ UNCHANGED queueVars
    BY DEF Find, queueVars, bucket, Goto
  <1>2. /\ step'[w] = [at |-> s, put |-> {}]
        /\ \A x \in Worker \ {w} : step'[x] = step[x]
    BY <1>1
  <1>3. IsRow(a) /\ Busy(w)
    BY <1>1, WorkFacts DEF At
  <1>4. Working(w)'
    <2>1. ~At(w, "idle")' /\ ~At(w, "upload")' /\ step'[w].put = {}
      BY <1>2 DEF At
    <2>2. Busy(w)' /\ IsRow(slot[w])' /\ IsImage(slot[w])' = IsImage(a) /\ slot'[w] = a
      BY <1>1, <1>3 DEF Busy, IsRow, IsImage
    <2>3. At(w, "download")' => IsImage(a)
      BY <1>2 DEF At
    <2>4. At(w, "done")' => ~(~row[a].processed /\ IsImage(a) /\ sharp)
      BY <1>2 DEF At
    <2>5. QED
      BY <1>1, <2>1, <2>2, <2>3, <2>4 DEF Working
  <1>5. Grows
    BY <1>1, Still
  <1>6. TypeOK'
    <2>1. [at |-> s, put |-> {}] \in Steps
      BY DEF Steps
    <2>2. step' \in [Worker -> Steps]
      BY <1>1, <2>1
    <2>3. QED
      BY <1>1, <2>2, QueueSame DEF TypeOK, Steps
  <1>7. IInv'
    BY <1>1, <1>2, <1>4, <1>5, <1>6, Frame
  <1>8. QED
    BY <1>1, <1>5, <1>7 DEF Finishes

LEMMA DownloadStep ==
    ASSUME IInv, NEW w \in Worker, Download(w)
    PROVE  IInv' /\ Grows /\ Finishes
  <1> USE TypeFacts
  <1>1. /\ At(w, "download") /\ step' = [step EXCEPT ![w] = [at |-> "upload", put |-> Variant]]
        /\ UNCHANGED <<job, slot, row, object, stray, sharp, missed>>
        /\ UNCHANGED queueVars
    BY DEF Download, queueVars, bucket
  <1>2. /\ step'[w] = [at |-> "upload", put |-> Variant]
        /\ \A x \in Worker \ {w} : step'[x] = step[x]
    BY <1>1
  <1>3. ~At(w, "idle") /\ IsImage(slot[w]) /\ IsRow(slot[w]) /\ Busy(w)
    BY <1>1, WorkFacts DEF At
  <1>4. Working(w)'
    <2>1. At(w, "upload")' /\ ~At(w, "idle")' /\ ~At(w, "done")' /\ step'[w].put = Variant
      BY <1>2 DEF At
    <2>2. Busy(w)' /\ IsRow(slot[w])' /\ IsImage(slot[w])'
      BY <1>1, <1>3 DEF Busy, IsRow, IsImage
    <2>3. QED
      BY <2>1, <2>2 DEF Working
  <1>5. Grows
    BY <1>1, Still
  <1>6. TypeOK'
    <2>1. [at |-> "upload", put |-> Variant] \in Steps
      BY DEF Steps
    <2>2. step' \in [Worker -> Steps]
      BY <1>1, <2>1
    <2>3. QED
      BY <1>1, <2>2, QueueSame DEF TypeOK, Steps
  <1>7. IInv'
    BY <1>1, <1>2, <1>4, <1>5, <1>6, Frame
  <1>8. QED
    BY <1>1, <1>5, <1>7 DEF Finishes

\* A worker that stops.
LEMMA Stops ==
    ASSUME IInv, NEW w \in Worker, slot' = [slot EXCEPT ![w] = NoJob], Goto(w, "idle")
    PROVE  /\ step' \in [Worker -> Steps]
           /\ \A x \in Worker : (slot'[x] = slot[x] /\ step'[x] = step[x]) \/ Working(x)'
  <1>1. step \in [Worker -> Steps] /\ slot \in [Worker -> Job \cup {NoJob}]
    BY TypeFacts DEF QueueTypeOK
  <1>2. step' = [step EXCEPT ![w] = [at |-> "idle", put |-> {}]]
    BY DEF Goto
  <1>3. step' \in [Worker -> Steps]
    <2>1. [at |-> "idle", put |-> {}] \in Steps
      BY DEF Steps
    <2>2. QED
      BY <1>1, <1>2, <2>1
  <1>4. /\ step'[w] = [at |-> "idle", put |-> {}] /\ slot'[w] = NoJob
        /\ \A x \in Worker \ {w} : step'[x] = step[x] /\ slot'[x] = slot[x]
    BY <1>1, <1>2
  <1>5. Working(w)'
    BY <1>4 DEF Working, At, Busy
  <1>6. QED
    BY <1>3, <1>4, <1>5

LEMMA SkipStep ==
    ASSUME IInv, NEW w \in Worker, Skip(w)
    PROVE  IInv' /\ Grows /\ Finishes
  <1> USE TypeFacts
  <1>1. /\ At(w, "download") /\ missed' = missed \cup {slot[w]} /\ Goto(w, "idle") /\ Resolve(w)
        /\ UNCHANGED <<troubles, row, object, stray, sharp>>
    BY DEF Skip, bucket
  <1>2. Busy(w) /\ slot[w] \in Asset /\ IsRow(slot[w])
    BY <1>1, WorkFacts DEF At
  <1>3. /\ job' \in [Job -> Entry] /\ slot' = [slot EXCEPT ![w] = NoJob] /\ closed' \in SUBSET Worker
        /\ \A a \in Asset \ {slot[w]} : job'[a] = job[a]
    BY <1>1, <1>2, Resolves DEF Asset
  <1>4. Grows
    BY <1>1, Still
  <1>5. TypeOK'
    <2>1. QueueTypeOK'
      BY <1>1, <1>3 DEF QueueTypeOK
    <2>2. QED
      BY <1>1, <1>2, <1>3, <2>1, Stops DEF TypeOK, Steps
  <1>6. IInv'
    BY <1>1, <1>2, <1>3, <1>4, <1>5, Stops, Frame
  <1>7. QED
    BY <1>1, <1>2, <1>3, <1>4, <1>6 DEF Finishes

LEMMA LandStep ==
    ASSUME IInv, NEW w \in Worker, NEW v \in Variant, Land(w, v)
    PROVE  IInv' /\ Grows /\ Finishes
  <1> DEFINE key == KeyOf(w)
  <1> USE TypeFacts
  <1>1. /\ At(w, "upload") /\ v \in step[w].put
        /\ object' = [object EXCEPT ![VariantKey(key, v)] = key]
        /\ step' = [step EXCEPT ![w].put = @ \ {v}]
        /\ UNCHANGED <<job, slot, row, stray, sharp, missed>> /\ UNCHANGED queueVars
    BY DEF Land, queueVars
  <1>2. /\ Busy(w) /\ slot[w] \in Asset /\ IsRow(slot[w]) /\ IsImage(slot[w])
        /\ key \in Key /\ HasImage(key) /\ step[w] \in Steps
    BY <1>1, WorkFacts DEF At
  <1>3. key # Nothing /\ VariantKey(key, v) \in Object
    BY <1>2, KeyFacts
  <1>4. /\ object'[VariantKey(key, v)] = key
        /\ \A k \in Object : k # VariantKey(key, v) => object'[k] = object[k]
        /\ object' \in [Object -> Key \cup {Nothing}]
    BY <1>1, <1>2, <1>3
  <1>5. /\ step'[w].at = "upload" /\ step'[w].put = step[w].put \ {v} /\ step'[w] \in Steps
        /\ \A x \in Worker \ {w} : step'[x] = step[x]
        /\ step' \in [Worker -> Steps]
    <2>1. step' = [step EXCEPT ![w] = [step[w] EXCEPT !.put = step[w].put \ {v}]]
      BY <1>1
    <2>2. /\ [step[w] EXCEPT !.put = step[w].put \ {v}] \in Steps
          /\ [step[w] EXCEPT !.put = step[w].put \ {v}].put = step[w].put \ {v}
          /\ [step[w] EXCEPT !.put = step[w].put \ {v}].at = step[w].at
      BY <1>2 DEF Steps
    <2>3. QED
      BY <1>1, <2>1, <2>2 DEF At
  <1>6. Grows
    BY <1>1, <1>3, <1>4 DEF Grows, IsRow
  <1>7. Working(w)'
    <2>1. At(w, "upload")' /\ ~At(w, "idle")' /\ ~At(w, "download")' /\ ~At(w, "done")'
      BY <1>5 DEF At
    <2>2. Busy(w)' /\ IsRow(slot[w])' /\ IsImage(slot[w])' /\ slot'[w] = slot[w]
      BY <1>1, <1>2 DEF Busy, IsRow, IsImage
    <2>3. ASSUME NEW u \in Variant \ step'[w].put PROVE Full(slot[w], u)'
      <3>1. CASE u = v
        BY <1>1, <1>3, <1>4, <3>1 DEF Full, VariantKey, KeyOf
      <3>2. CASE u # v
        <4>1. Full(slot[w], u)
          BY <1>1, <1>2, <1>5, <3>2 DEF IInv, WorkInv, Working
        <4>2. QED
          BY <1>1, <1>2, <1>6, <4>1, FullKept DEF IInv
      <3>3. QED
        BY <3>1, <3>2
    <2>4. QED
      BY <2>1, <2>2, <2>3 DEF Working
  <1>8. TypeOK'
    BY <1>1, <1>4, <1>5, QueueSame DEF TypeOK, Steps
  <1>9. \A k \in Object : object'[k] # object[k] => Made(k, object'[k])
    BY <1>2, <1>4 DEF Made
  <1>10. IInv'
    BY <1>1, <1>5, <1>6, <1>7, <1>8, <1>9, Frame
  <1>11. QED
    BY <1>1, <1>6, <1>10 DEF Finishes

LEMMA StraggleStep ==
    ASSUME IInv, NEW key \in Key, NEW v \in Variant, Straggle(key, v)
    PROVE  IInv' /\ Grows /\ Finishes
  <1> USE TypeFacts
  <1>1. /\ <<key, v>> \in stray /\ stray' = stray \ {<<key, v>>}
        /\ object' = [object EXCEPT ![VariantKey(key, v)] = key]
        /\ UNCHANGED <<job, slot, row, sharp, step, missed>> /\ UNCHANGED queueVars
    BY DEF Straggle, queueVars
  <1>2. HasImage(key)
    BY <1>1 DEF IInv, VariantInv
  <1>3. key # Nothing /\ VariantKey(key, v) \in Object
    BY KeyFacts
  <1>4. /\ object'[VariantKey(key, v)] = key
        /\ \A k \in Object : k # VariantKey(key, v) => object'[k] = object[k]
        /\ object' \in [Object -> Key \cup {Nothing}]
    BY <1>1, <1>3
  <1>5. Grows
    BY <1>1, <1>3, <1>4 DEF Grows, IsRow
  <1>6. TypeOK'
    BY <1>1, <1>4, QueueSame DEF TypeOK, Steps
  <1>7. \A k \in Object : object'[k] # object[k] => Made(k, object'[k])
    BY <1>2, <1>4 DEF Made
  <1>8. IInv'
    BY <1>1, <1>5, <1>6, <1>7, Frame
  <1>9. QED
    BY <1>1, <1>5, <1>8 DEF Finishes

\* PUTs that outlive their attempt are of the worker's image.
LEMMA StrayOfImage ==
    ASSUME IInv, NEW w \in Worker, NEW V, V \subseteq step[w].put, ~At(w, "idle"),
           stray' = stray \cup {<<KeyOf(w), v>> : v \in V}
    PROVE  /\ stray' \in SUBSET (Key \X Variant)
           /\ \A kv \in stray' : kv \in stray \/ HasImage(kv[1])
  <1>1. KeyOf(w) \in Key /\ step[w].put \subseteq Variant
    BY WorkFacts DEF Steps
  <1>2. step[w].put # {} => HasImage(KeyOf(w))
    BY WorkFacts DEF IInv, WorkInv, Working
  <1>3. QED
    BY <1>1, <1>2, TypeFacts

LEMMA LoseStep ==
    ASSUME IInv, NEW w \in Worker, NEW v \in Variant, Lose(w, v)
    PROVE  IInv' /\ Grows /\ Finishes
  <1> USE TypeFacts
  <1>1. /\ At(w, "upload") /\ stray' = stray \cup {<<KeyOf(w), u>> : u \in step[w].put \ {v}}
        /\ Goto(w, "idle") /\ Reject(w) /\ UNCHANGED <<row, object, sharp, missed>>
        /\ troubles' \in 0..MaxTroubles
    BY DEF Lose, Trouble, QueueTypeOK
  <1>2. ~At(w, "idle") /\ Busy(w) /\ slot[w] \in Asset /\ IsRow(slot[w])
    BY <1>1, WorkFacts DEF At
  <1>3. /\ job' \in [Job -> Entry] /\ slot' = [slot EXCEPT ![w] = NoJob] /\ closed' \in SUBSET Worker
        /\ \A a \in Asset \ {slot[w]} : job'[a] = job[a]
        /\ job'[slot[w]].state = "completed" => job[slot[w]].state = "completed"
    BY <1>1, <1>2, Rejects DEF Asset
  <1>4. Grows
    BY <1>1, Still
  <1>5. /\ stray' \in SUBSET (Key \X Variant)
        /\ \A kv \in stray' : kv \in stray \/ HasImage(kv[1])
    BY <1>1, <1>2, StrayOfImage
  <1>6. TypeOK'
    <2>1. QueueTypeOK'
      BY <1>1, <1>3 DEF QueueTypeOK
    <2>2. QED
      BY <1>1, <1>3, <1>5, <2>1, Stops DEF TypeOK, Steps
  <1>7. IInv'
    BY <1>1, <1>2, <1>3, <1>4, <1>5, <1>6, Stops, Frame
  <1>8. QED
    BY <1>1, <1>2, <1>3, <1>4, <1>7 DEF Finishes

\* The row of a worker that has put both variants is marked.
LEMMA Marks ==
    ASSUME IInv, NEW w \in Worker, At(w, "upload"), step[w].put = {}, UNCHANGED <<object, sharp>>,
           row' \in {row, [row EXCEPT ![slot[w]].processed = TRUE]}
    PROVE  /\ Grows /\ row' \in [Asset -> {NoRow} \cup Row]
           /\ \A a \in Asset : row'[a].processed => row[a].processed \/
                (IsRow(a) /\ IsImage(a) /\ \A v \in Variant : Full(a, v))
           /\ row' # row => row'[slot[w]].processed
  <1> DEFINE a == slot[w]
             r == [row[a] EXCEPT !.processed = TRUE]
  <1>1. a \in Asset /\ IsRow(a) /\ IsImage(a) /\ \A v \in Variant : Full(a, v)
    BY WorkFacts DEF At, IInv, WorkInv, Working
  <1>2. row[a] \in Row /\ r \in Row /\ r.key = row[a].key /\ r.processed /\ r # NoRow
    <2>1. row[a] \in Row
      BY <1>1, RowFacts DEF IInv
    <2>2. r \in Row /\ r.key = row[a].key /\ r.processed
      BY <2>1 DEF Row
    <2>3. QED
      BY <2>1, <2>2 DEF NoRow
  <1>3. CASE row' = row
    BY <1>3, Still, TypeFacts
  <1>4. CASE row' = [row EXCEPT ![a].processed = TRUE]
    <2>1. row' = [row EXCEPT ![a] = r]
      BY <1>4
    <2>2. row'[a] = r /\ \A b \in Asset \ {a} : row'[b] = row[b]
      BY <1>1, <2>1, TypeFacts
    <2>3. row' \in [Asset -> {NoRow} \cup Row]
      BY <1>1, <1>2, <2>1, TypeFacts
    <2>4. Grows
      BY <1>1, <1>2, <2>2 DEF Grows, IsRow
    <2>5. QED
      BY <1>1, <1>2, <2>2, <2>3, <2>4
  <1>5. QED
    BY <1>3, <1>4

LEMMA UpdateStep ==
    ASSUME IInv, NEW w \in Worker, Update(w)
    PROVE  IInv' /\ Grows /\ Finishes
  <1> USE TypeFacts
  <1>1. /\ At(w, "upload") /\ step[w].put = {}
        /\ row' = [row EXCEPT ![slot[w]].processed = TRUE]
        /\ step' = [step EXCEPT ![w] = [at |-> "done", put |-> {}]]
        /\ UNCHANGED <<job, slot, object, stray, sharp, missed>> /\ UNCHANGED queueVars
    BY DEF Update, Goto, bucket, queueVars
  <1>2. Busy(w) /\ slot[w] \in Asset /\ IsRow(slot[w]) /\ IsImage(slot[w])
    BY <1>1, WorkFacts DEF At
  <1>3. /\ Grows /\ row' \in [Asset -> {NoRow} \cup Row]
        /\ \A a \in Asset : row'[a].processed => row[a].processed \/
                (IsRow(a) /\ IsImage(a) /\ \A v \in Variant : Full(a, v))
    BY <1>1, Marks
  <1>4. row'[slot[w]].processed
    BY <1>1, <1>2, RowFacts DEF IInv, Row
  <1>5. /\ step'[w] = [at |-> "done", put |-> {}]
        /\ \A x \in Worker \ {w} : step'[x] = step[x]
    BY <1>1
  <1>6. Working(w)'
    <2>1. At(w, "done")' /\ ~At(w, "idle")' /\ ~At(w, "upload")' /\ ~At(w, "download")'
          /\ step'[w].put = {}
      BY <1>5 DEF At
    <2>2. Busy(w)' /\ IsRow(slot[w])'
      BY <1>1, <1>2, <1>3 DEF Busy, Grows
    <2>3. QED
      BY <1>1, <1>4, <2>1, <2>2 DEF Working
  <1>7. TypeOK'
    <2>1. [at |-> "done", put |-> {}] \in Steps
      BY DEF Steps
    <2>2. step' \in [Worker -> Steps]
      BY <1>1, <2>1
    <2>3. QED
      BY <1>1, <1>3, <2>2, QueueSame DEF TypeOK, Steps
  <1>8. IInv'
    BY <1>1, <1>3, <1>5, <1>6, <1>7, Frame
  <1>9. QED
    BY <1>1, <1>3, <1>8 DEF Finishes

LEMMA CompleteStep ==
    ASSUME IInv, NEW w \in Worker, Complete(w)
    PROVE  IInv' /\ Grows /\ Finishes
  <1> USE TypeFacts
  <1>1. /\ At(w, "done") /\ Goto(w, "idle") /\ Resolve(w)
        /\ UNCHANGED <<troubles, row, object, stray, sharp, missed>>
    BY DEF Complete, bucket
  <1>2. Busy(w) /\ slot[w] \in Asset /\ IsRow(slot[w])
    BY <1>1, WorkFacts DEF At
  <1>3. /\ job' \in [Job -> Entry] /\ slot' = [slot EXCEPT ![w] = NoJob] /\ closed' \in SUBSET Worker
        /\ \A a \in Asset \ {slot[w]} : job'[a] = job[a]
    BY <1>1, <1>2, Resolves DEF Asset
  <1>4. Grows
    BY <1>1, Still
  <1>5. TypeOK'
    <2>1. QueueTypeOK'
      BY <1>1, <1>3 DEF QueueTypeOK
    <2>2. QED
      BY <1>1, <1>3, <2>1, Stops DEF TypeOK, Steps
  <1>6. IInv'
    BY <1>1, <1>2, <1>3, <1>4, <1>5, Stops, Frame
  <1>7. IsImage(slot[w]) /\ sharp => row[slot[w]].processed
    BY <1>1 DEF IInv, WorkInv, Working
  <1>8. QED
    BY <1>1, <1>2, <1>3, <1>4, <1>6, <1>7 DEF Finishes

LEMMA FaultStep ==
    ASSUME IInv, NEW w \in Worker, Fault(w)
    PROVE  IInv' /\ Grows /\ Finishes
  <1> USE TypeFacts
  <1>1. /\ \/ (At(w, "find") \/ At(w, "download")) /\ row' = row
           \/ /\ At(w, "upload") /\ step[w].put = {}
              /\ row' \in {row, [row EXCEPT ![slot[w]].processed = TRUE]}
        /\ Goto(w, "idle") /\ Reject(w) /\ UNCHANGED <<object, stray, sharp, missed>>
        /\ troubles' \in 0..MaxTroubles
    BY DEF Fault, bucket, Trouble, QueueTypeOK
  <1>2. Busy(w) /\ slot[w] \in Asset /\ IsRow(slot[w])
    BY <1>1, WorkFacts DEF At
  <1>3. /\ job' \in [Job -> Entry] /\ slot' = [slot EXCEPT ![w] = NoJob] /\ closed' \in SUBSET Worker
        /\ \A a \in Asset \ {slot[w]} : job'[a] = job[a]
        /\ job'[slot[w]].state = "completed" => job[slot[w]].state = "completed"
    BY <1>1, <1>2, Rejects DEF Asset
  <1>4. /\ Grows /\ row' \in [Asset -> {NoRow} \cup Row]
        /\ \A a \in Asset : row'[a].processed => row[a].processed \/
                (IsRow(a) /\ IsImage(a) /\ \A v \in Variant : Full(a, v))
    <2>1. CASE row' = row
      BY <1>1, <2>1, Still
    <2>2. CASE row' # row
      BY <1>1, <2>2, Marks
    <2>3. QED
      BY <2>1, <2>2
  <1>5. TypeOK'
    <2>1. QueueTypeOK'
      BY <1>1, <1>3 DEF QueueTypeOK
    <2>2. QED
      BY <1>1, <1>3, <1>4, <2>1, Stops DEF TypeOK, Steps
  <1>6. IInv'
    BY <1>1, <1>2, <1>3, <1>4, <1>5, Stops, Frame
  <1>7. QED
    BY <1>1, <1>3, <1>4, <1>6 DEF Finishes

LEMMA DieStep ==
    ASSUME IInv, NEW w \in Worker, Die(w)
    PROVE  IInv' /\ Grows /\ Finishes
  <1> USE TypeFacts
  <1>1. /\ Busy(w) /\ Goto(w, "idle") /\ stray' = stray \cup {<<KeyOf(w), v>> : v \in step[w].put}
        /\ UNCHANGED <<job, row, object, sharp, missed>>
        /\ troubles' \in 0..MaxTroubles /\ closed' \in SUBSET Worker
        /\ slot' = [slot EXCEPT ![w] = NoJob]
    BY DEF Die, Crash, Leave, Trouble, QueueTypeOK
  <1>2. ~At(w, "idle")
    BY <1>1 DEF IInv, WorkInv, Working
  <1>3. Grows
    BY <1>1, Still
  <1>4. /\ stray' \in SUBSET (Key \X Variant)
        /\ \A kv \in stray' : kv \in stray \/ HasImage(kv[1])
    BY <1>1, <1>2, StrayOfImage
  <1>5. TypeOK'
    <2>1. QueueTypeOK'
      BY <1>1 DEF QueueTypeOK
    <2>2. QED
      BY <1>1, <1>4, <2>1, Stops DEF TypeOK, Steps
  <1>6. IInv'
    BY <1>1, <1>3, <1>4, <1>5, Stops, Frame
  <1>7. QED
    BY <1>1, <1>3, <1>6 DEF Finishes

-----------------------------------------------------------------------------
(* The theorems. *)

LEMMA InitInv == Init => IInv /\ CompletedProcessed
  <1> SUFFICES ASSUME Init PROVE IInv /\ CompletedProcessed
    OBVIOUS
  <1>1. QueueTypeOK /\ \A a \in Asset : job[a].state = "absent"
    BY FreshEntry DEF Init, QueueInit, QueueTypeOK, State, Asset
  <1>2. /\ \A a \in Asset : row[a] = NoRow /\ ~IsRow(a) /\ ~row[a].processed
        /\ \A k \in Object : object[k] = Nothing
        /\ stray = {} /\ \A w \in Worker : step[w] = [at |-> "idle", put |-> {}] /\ ~Busy(w)
    BY DEF Init, QueueInit, IsRow, NoRow, Busy
  <1>3. TypeOK
    BY <1>1 DEF Init, TypeOK
  <1>4. WorkInv
    <2>1. ASSUME NEW w \in Worker PROVE Working(w)
      <3>1. step[w] = [at |-> "idle", put |-> {}] /\ ~Busy(w)
        BY <1>2
      <3>2. QED
        BY <3>1 DEF Working, At
    <2>2. QED
      BY <2>1 DEF WorkInv
  <1>5. QED
    BY <1>1, <1>2, <1>3, <1>4 DEF IInv, JobInv, VariantInv, ProcessedInv, CompletedProcessed

LEMMA Step == IInv /\ [Next]_vars => IInv' /\ Grows /\ Finishes
  <1> SUFFICES ASSUME IInv, [Next]_vars PROVE IInv' /\ Grows /\ Finishes
    OBVIOUS
  <1>1. CASE UNCHANGED vars
    <2>1. QueueTypeOK' /\ slot' = slot /\ job' = job
      BY <1>1, QueueSame, TypeFacts DEF vars, queueVars
    <2>2. QED
      BY <1>1, <2>1, QueueStep DEF vars
  <1>2. ASSUME NEW a \in Asset, NEW key \in Key, PresignUpload(a, key) \/ RegisterAsset(a, key)
        PROVE  IInv' /\ Grows /\ Finishes
    BY <1>2, CreateStep DEF PresignUpload, RegisterAsset
  <1>3. ASSUME NEW key \in Key, Put(key) \/ \E v \in Variant : Straggle(key, v)
        PROVE  IInv' /\ Grows /\ Finishes
    BY <1>3, PutStep, StraggleStep
  <1>4. ASSUME NEW a \in Asset, Process(a) \/ HandOn(a)
        PROVE  IInv' /\ Grows /\ Finishes
    BY <1>4, ProcessStep, HandOnStep
  <1>5. ASSUME NEW w \in Worker,
               \/ \E a \in Asset : Begin(w, a)
               \/ Proceed(w) \/ Fault(w) \/ Die(w) \/ Shutdown(w)
               \/ \E v \in Variant : Lose(w, v)
        PROVE  IInv' /\ Grows /\ Finishes
    BY <1>5, BeginStep, FindStep, DownloadStep, SkipStep, UpdateStep, CompleteStep, LandStep, FaultStep,
       DieStep, ShutdownStep, LoseStep DEF Proceed
  <1>6. QED
    BY <1>1, <1>2, <1>3, <1>4, <1>5 DEF Next

LEMMA Invariance == Spec => []IInv
  BY InitInv, Step, PTL DEF Spec

\* Every variable keeps its type.
THEOREM TypeCorrect == Spec => []TypeOK
  BY Invariance, PTL DEF IInv

\* A view names variants of the asset's own original, or of an image whose key
\* differs in the extension only, unless the variant's key was registered as an
\* original (MediaProcessingService.ensureProcessed,
\* MediaAssetService.toViewWithUrls).
THEOREM VariantsOwnHolds == Spec => []VariantsOwn
  <1>1. IInv => VariantsOwn
    <2> SUFFICES ASSUME IInv, NEW a \in Asset, IsRow(a), NEW v \in DOMAIN View(a)
                 PROVE  \/ View(a)[v] \in {row[a].key} \cup {row[b].key : b \in Sharers(a)}
                        \/ /\ Registered(VariantKey(row[a].key, v))
                           /\ View(a)[v] = VariantKey(row[a].key, v)
      BY DEF VariantsOwn
    <2> DEFINE k == VariantKey(row[a].key, v)
    <2>1. row[a].processed /\ v \in Variant /\ View(a)[v] = object[k]
      BY DEF View
    <2>2. object[k] # Nothing /\ k \in Object /\ row[a].key \in Key
      BY <2>1, RowFacts, KeyFacts DEF IInv, ProcessedInv, Full
    <2>3. Made(k, object[k]) /\ object[k] \in Key
      BY <2>2, TypeFacts DEF IInv, VariantInv
    <2>4. CASE object[k] = k /\ Registered(k)
      BY <2>1, <2>4
    <2>5. CASE HasImage(object[k]) /\ \E u \in Variant : k = VariantKey(object[k], u)
      <3>1. row[a].key.stem = object[k].stem
        BY <2>1, <2>2, <2>3, <2>5, VariantOfStem
      <3>2. QED
        BY <2>1, <2>5, <3>1 DEF HasImage, Sharers
    <2>6. QED
      BY <2>3, <2>4, <2>5 DEF Made
  <1>2. QED
    BY <1>1, Invariance, PTL

LEMMA CompletedStep ==
    ASSUME IInv, CompletedProcessed, [Next]_vars
    PROVE  CompletedProcessed'
  <1> SUFFICES ASSUME NEW a \in Asset, job'[a].state = "completed", IsImage(a)', sharp'
               PROVE  row'[a].processed \/ a \in missed'
    BY DEF CompletedProcessed
  <1>1. IInv' /\ Grows /\ Finishes
    BY Step
  <1>2. \/ job[a].state = "completed"
        \/ IsRow(a) /\ (IsImage(a) /\ sharp => row[a].processed \/ a \in missed')
    BY <1>1 DEF Finishes
  <1>3. IsRow(a)
    BY <1>2 DEF IInv, JobInv
  <1>4. IsImage(a) /\ sharp /\ (row[a].processed => row'[a].processed)
    BY <1>1, <1>3, ImageKept DEF Grows
  <1>5. job[a].state = "completed" => row[a].processed \/ a \in missed
    BY <1>4 DEF CompletedProcessed
  <1>6. QED
    BY <1>1, <1>2, <1>4, <1>5 DEF Finishes

\* A completed job has processed its image, unless an attempt could not read
\* the original or sharp is not installed (MediaProcessingProcessor.process).
THEOREM CompletedProcessedHolds == Spec => []CompletedProcessed
  BY InitInv, Step, CompletedStep, Invariance, PTL DEF Spec
=============================================================================
