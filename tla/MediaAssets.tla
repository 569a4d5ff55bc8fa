----------------------------- MODULE MediaAssets -----------------------------
(***************************************************************************)
(* Media assets: MediaAssetService hands out upload URLs and keeps rows,   *)
(* the media-processing queue's workers make the JPEG variants of images.  *)
(*                                                                         *)
(* An asset's id is its job's id (media:<id>).  A storage key is a stem    *)
(* and the file's type: the stem of an upload-init has a UUID and is new,  *)
(* registerAsset takes any key no row has, a variant's included.  The      *)
(* variants' keys are made of the stem alone.  An object is abstracted to  *)
(* the key of the original that it is, or was made from.                   *)
(***************************************************************************)
EXTENDS JobQueue, FiniteSets

CONSTANTS
    Stem,    \* directory and file name without the extension
    Key,     \* storage keys: a stem and a MIME type
    Variant, \* the two JPEGs made of an image, "-thumb" and "-medium"
    Suffixed \* the stem with a variant's suffix

Image == {"image/jpeg", "image/png", "image/webp", "image/gif"}
Video == {"video/mp4", "video/webm", "video/quicktime"}

Asset == Job
AllowedMime == Image \cup Video

ASSUME MediaAssumption ==
    /\ Key \subseteq [stem: Stem, mime: AllowedMime]
    /\ \A sv, tu \in Stem \X Variant : Suffixed[sv] = Suffixed[tu] => sv = tu

Row == [key: Key, processed: BOOLEAN]
NoRow == [processed |-> FALSE]
Nothing == [mime |-> "nothing"]

VARIABLES
    row,      \* the asset's row; processed stands for its two variant keys and processedAt
    object,   \* what the bucket holds under each key: an original or a variant of it
    sharp,    \* the optional dependency is installed
    step,     \* where each worker stands, and the variants it has still to put
    stray,    \* PUTs that outlive the attempt that started them
    missed    \* history: assets an attempt on which could not read the original

bucket == <<object, stray>>
vars == <<queueVars, row, bucket, sharp, step, missed>>

\* splitKey: the extension, and with it the type, is no part of a variant's key.
VariantKey(key, v) == [stem |-> Suffixed[key.stem, v], mime |-> "image/jpeg"]

Object == Key \cup {VariantKey(key, v) : key \in Key, v \in Variant}

IsRow(a) == row[a] # NoRow
IsImage(a) == row[a].key.mime \in Image
At(w, s) == step[w].at = s
Goto(w, s) == step' = [step EXCEPT ![w] = [at |-> s, put |-> {}]]
KeyOf(w) == row[slot[w]].key

TypeOK ==
    /\ QueueTypeOK
    /\ row \in [Asset -> {NoRow} \cup Row]
    /\ object \in [Object -> Key \cup {Nothing}]
    /\ sharp \in BOOLEAN
    /\ step \in [Worker -> [at: {"idle", "find", "download", "upload", "done"}, put: SUBSET Variant]]
    /\ stray \in SUBSET (Key \X Variant)
    /\ missed \in SUBSET Asset

Init ==
    /\ QueueInit
    /\ row = [a \in Asset |-> NoRow]
    /\ object = [k \in Object |-> Nothing]
    /\ sharp \in BOOLEAN
    /\ step = [w \in Worker |-> [at |-> "idle", put |-> {}]]
    /\ stray = {}
    /\ missed = {}

-----------------------------------------------------------------------------
(* MediaAssetService *)

\* MediaAssetRepository.create: storage_key is unique.
Create(a, key) ==
    /\ ~IsRow(a)
    /\ \A b \in Asset : IsRow(b) => row[b].key # key
    /\ row' = [row EXCEPT ![a] = [key |-> key, processed |-> FALSE]]

\* presignUpload with a size its class allows: the URL is signed and the row
\* inserted; when the preview URL cannot be signed, the client gets neither.
PresignUpload(a, key) ==
    /\ \A b \in Asset : IsRow(b) => row[b].key.stem # key.stem
    /\ Create(a, key)
    /\ UNCHANGED <<queueVars, bucket, sharp, step, missed>>

\* registerAsset: the bytes are in storage already, or so the caller says.
RegisterAsset(a, key) ==
    /\ Create(a, key)
    /\ UNCHANGED <<queueVars, bucket, sharp, step, missed>>

\* The bytes of a row's original reach storage, if they ever do: the client's
\* PUT, which storage holds to the signed type and size range, or another's.
Put(key) ==
    /\ \E a \in Asset : IsRow(a) /\ row[a].key = key
    /\ object[key] # key
    /\ object' = [object EXCEPT ![key] = key]
    /\ UNCHANGED <<queueVars, row, stray, sharp, step, missed>>

\* MediaProcessingQueueService.enqueue: the job's id is the asset's.  BullMQ may
\* refuse it: media:<id> has a colon.
EnqueueProcessing(a) == Add(a) \/ UNCHANGED queueVars

\* MediaAssetService.process: the row is found and its job enqueued, or the
\* request fails.
Process(a) ==
    /\ IsRow(a)
    /\ EnqueueProcessing(a)
    /\ UNCHANGED <<row, bucket, sharp, step, missed>>

\* toViewWithUrls: what the URLs of an asset's variants lead to; a row that is
\* not processed names no variant.
View(a) == IF row[a].processed THEN [v \in Variant |-> object[VariantKey(row[a].key, v)]]
           ELSE [v \in {} |-> Nothing]

-----------------------------------------------------------------------------
(* MediaProcessingProcessor.process and MediaProcessingService.ensureProcessed *)

Begin(w, a) ==
    /\ Take(w, a)
    /\ Goto(w, "find")
    /\ UNCHANGED <<row, bucket, sharp, missed>>

\* findById, and the reasons to return at once.
Find(w) ==
    /\ At(w, "find")
    /\ Goto(w, IF ~row[slot[w]].processed /\ IsImage(slot[w]) /\ sharp THEN "download" ELSE "done")
    /\ UNCHANGED <<queueVars, row, bucket, sharp, missed>>

\* The original is in memory and resized; both variants are on their way.
Download(w) ==
    /\ At(w, "download") /\ object[KeyOf(w)] # Nothing
    /\ step' = [step EXCEPT ![w] = [at |-> "upload", put |-> Variant]]
    /\ UNCHANGED <<queueVars, row, bucket, sharp, missed>>

\* A download that fails, for whatever reason, ends the job.
Skip(w) ==
    /\ At(w, "download")
    /\ missed' = missed \cup {slot[w]}
    /\ Goto(w, "idle")
    /\ Resolve(w)
    /\ UNCHANGED <<troubles, row, bucket, sharp>>

Land(w, v) ==
    /\ At(w, "upload") /\ v \in step[w].put
    /\ object' = [object EXCEPT ![VariantKey(KeyOf(w), v)] = KeyOf(w)]
    /\ step' = [step EXCEPT ![w].put = @ \ {v}]
    /\ UNCHANGED <<queueVars, row, stray, sharp, missed>>

\* Mutant: uploads that fail are not waited for.
LoseSilently(w, v) ==
    /\ At(w, "upload") /\ v \in step[w].put
    /\ step' = [step EXCEPT ![w].put = @ \ {v}]
    /\ UNCHANGED <<queueVars, row, bucket, sharp, missed>>

\* Mutant: a failed upload is a terminal no-op too, like a failed download.
LoseForGood(w, v) ==
    /\ At(w, "upload") /\ v \in step[w].put
    /\ stray' = stray \cup {<<KeyOf(w), u>> : u \in step[w].put \ {v}}
    /\ Goto(w, "idle")
    /\ Resolve(w)
    /\ UNCHANGED <<troubles, row, object, sharp, missed>>

\* One upload fails; Promise.all rejects, the other may land later.
Lose(w, v) ==
    /\ At(w, "upload") /\ v \in step[w].put
    /\ stray' = stray \cup {<<KeyOf(w), u>> : u \in step[w].put \ {v}}
    /\ Goto(w, "idle")
    /\ Trouble
    /\ Reject(w)
    /\ UNCHANGED <<row, object, sharp, missed>>

\* Both have landed: the row is updated.
Update(w) ==
    /\ At(w, "upload") /\ step[w].put = {}
    /\ row' = [row EXCEPT ![slot[w]].processed = TRUE]
    /\ Goto(w, "done")
    /\ UNCHANGED <<queueVars, bucket, sharp, missed>>

Complete(w) ==
    /\ At(w, "done")
    /\ Goto(w, "idle")
    /\ Resolve(w)
    /\ UNCHANGED <<troubles, row, bucket, sharp, missed>>

-----------------------------------------------------------------------------
\* findById fails, or the update does, before or after it took effect: they may
\* at any time, and do after a shutdown has ended the pool; or the original
\* cannot be resized.
Fault(w) ==
    /\ \/ (At(w, "find") \/ At(w, "download")) /\ UNCHANGED row
       \/ /\ At(w, "upload") /\ step[w].put = {}
          /\ row' \in {row, [row EXCEPT ![slot[w]].processed = TRUE]}
    /\ IF w \in closed THEN UNCHANGED troubles ELSE Trouble
    /\ Goto(w, "idle")
    /\ Reject(w)
    /\ UNCHANGED <<bucket, sharp, missed>>

\* The process dies; what it was sending may still arrive.
Die(w) ==
    /\ Crash(w)
    /\ stray' = stray \cup {<<KeyOf(w), v>> : v \in step[w].put}
    /\ Goto(w, "idle")
    /\ UNCHANGED <<row, object, sharp, missed>>

Shutdown(w) ==
    /\ Close(w)
    /\ UNCHANGED <<row, bucket, sharp, step, missed>>

Straggle(key, v) ==
    /\ <<key, v>> \in stray
    /\ stray' = stray \ {<<key, v>>}
    /\ object' = [object EXCEPT ![VariantKey(key, v)] = key]
    /\ UNCHANGED <<queueVars, row, sharp, step, missed>>

HandOn(a) ==
    /\ Stall(a) \/ Evict(a)
    /\ UNCHANGED <<row, bucket, sharp, step, missed>>

Proceed(w) ==
    \/ Find(w) \/ Download(w) \/ Skip(w) \/ Update(w) \/ Complete(w)
    \/ \E v \in Variant : Land(w, v)

Next ==
    \/ \E a \in Asset, key \in Key : PresignUpload(a, key) \/ RegisterAsset(a, key)
    \/ \E key \in Key : Put(key) \/ \E v \in Variant : Straggle(key, v)
    \/ \E a \in Asset : Process(a) \/ HandOn(a)
    \/ \E w \in Worker :
        \/ \E a \in Asset : Begin(w, a)
        \/ Proceed(w) \/ Fault(w) \/ Die(w) \/ Shutdown(w)
        \/ \E v \in Variant : Lose(w, v)

Spec == Init /\ [][Next]_vars

-----------------------------------------------------------------------------
(* Properties *)

Sharers(a) == {b \in Asset \ {a} : IsRow(b) /\ IsImage(b) /\ row[b].key.stem = row[a].key.stem}

Registered(key) == \E a \in Asset : IsRow(a) /\ row[a].key = key

\* A view's variants are variants of the asset's own original, with retries,
\* overtaken workers and PUTs that arrive late, as long as no other image has a
\* key that differs in the extension only, and the variant's own key was not
\* registered as an original.
VariantsOwn ==
    \A a \in Asset : IsRow(a) =>
        \A v \in DOMAIN View(a) :
            \/ View(a)[v] \in {row[a].key} \cup {row[b].key : b \in Sharers(a)}
            \/ Registered(VariantKey(row[a].key, v)) /\ View(a)[v] = VariantKey(row[a].key, v)

\* A job that completed has left an image processed, unless one of its asset's
\* attempts could not read the original ("terminal no-op") or sharp is missing.
CompletedProcessed ==
    \A a \in Asset : job[a].state = "completed" /\ IsImage(a) /\ sharp =>
        row[a].processed \/ a \in missed
=============================================================================
