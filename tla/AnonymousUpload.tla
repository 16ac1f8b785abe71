--------------------------- MODULE AnonymousUpload ---------------------------
(***************************************************************************)
(* The anonymous image page (AnonymousUpload.tsx): images are chosen,      *)
(* dropped or pasted in batches, checked, queued, and sent at most         *)
(* MaxConcurrent at a time.  Images are numbers: an image chosen later, or  *)
(* later in its batch, has the greater one.                                *)
(*                                                                         *)
(* The answer of an upload is handled in two callbacks: .then or .catch     *)
(* writes its outcome, .finally gives back its place and calls pump again. *)
(* A page that is left only loses the outcomes: its queue is still pumped. *)
(***************************************************************************)
EXTENDS Naturals, Sequences, FiniteSets

CONSTANTS
  Images,        \* that may be chosen
  MaxConcurrent  \* MAX_CONCURRENT_UPLOADS

ASSUME UploadAssumption ==
  /\ Images \subseteq Nat /\ IsFiniteSet(Images)
  /\ MaxConcurrent \in Nat \ {0}

VARIABLES
  service,  \* what the page knows of the service: "pending", "on", "off", "error"
  open,     \* the page has not been left
  item,     \* of an image: "unknown" to the page yet, or as in UploadState;
            \* "refused": an error of the page's own check
  queue,    \* uploadQueueRef
  settling, \* images whose outcome is known and whose .finally is still to run
  active    \* activeUploadCountRef

uploadVars == <<service, open, item, queue, settling, active>>

ItemState == {"unknown", "refused", "queued", "uploading", "success", "error"}
Service == {"pending", "on", "off", "error"}

UploadTypeOK ==
  /\ service \in Service /\ open \in BOOLEAN
  /\ item \in [Images -> ItemState]
  /\ queue \in Seq(Images)
  /\ settling \in SUBSET Images
  /\ active \in 0..MaxConcurrent

UploadInit ==
  /\ service = "pending" /\ open = TRUE
  /\ item = [i \in Images |-> "unknown"]
  /\ queue = <<>> /\ settling = {} /\ active = 0

\* The uploads that hold one of the places.
Sending == {i \in Images : item[i] = "uploading"}
UnderWay == Sending \cup settling

-----------------------------------------------------------------------------

\* How many uploads pump begins when n are under way and q is the queue.
Begun(q, n) == IF MaxConcurrent - n < Len(q) THEN MaxConcurrent - n ELSE Len(q)

\* Fault: the loop does not look at the count.
pumpAll(items, q, n) ==
  /\ item' = [i \in Images |-> IF \E k \in 1..Len(q) : q[k] = i THEN "uploading" ELSE items[i]]
  /\ queue' = <<>>
  /\ active' = IF n + Len(q) < MaxConcurrent THEN n + Len(q) ELSE MaxConcurrent

\* pumpUploadQueue: its loop, from the items, the queue and the count given.
pump(items, q, n) ==
  LET begun == {q[k] : k \in 1..Begun(q, n)} IN
  /\ item' = [i \in Images |-> IF i \in begun THEN "uploading" ELSE items[i]]
  /\ queue' = SubSeq(q, Begun(q, n) + 1, Len(q))
  /\ active' = n + Begun(q, n)

statusRead ==
  /\ open /\ service = "pending"
  /\ service' \in {"on", "off", "error"}
  /\ UNCHANGED <<open, item, queue, settling, active>>

\* 重新检查 after an error; a reconnection reads the status again as well.
recheck ==
  /\ open /\ service # "pending"
  /\ service' \in IF service = "error" THEN {"pending"} ELSE {"on", "off"}
  /\ UNCHANGED <<open, item, queue, settling, active>>

Unknown == {i \in Images : item[i] = "unknown"}

\* Some images, in the order they were chosen in.
InOrder(S) ==
  {q \in [1..Cardinality(S) -> S] : \A j, k \in DOMAIN q : j < k => q[j] < q[k]}

\* addFiles, from the picker, a drop or the clipboard: those of another type,
\* or too large, are refused at once, the others queued.
addFiles(batch, refused) ==
  /\ open /\ service = "on"
  /\ batch # {}
  /\ \E valid \in InOrder(batch \ refused) :
       pump([i \in Images |-> IF i \in refused THEN "refused"
                              ELSE IF i \in batch THEN "queued" ELSE item[i]],
            queue \o valid, active)
  /\ UNCHANGED <<service, open, settling>>

\* .then and .catch of an upload.
settled(i, outcome) ==
  /\ item[i] = "uploading"
  /\ item' = [item EXCEPT ![i] = outcome]
  /\ settling' = settling \cup {i}
  /\ UNCHANGED <<service, open, queue, active>>

\* .finally of an upload.
finally(i) ==
  /\ i \in settling
  /\ settling' = settling \ {i}
  /\ pump(item, queue, active - 1)
  /\ UNCHANGED <<service, open>>

leave ==
  /\ open /\ open' = FALSE
  /\ UNCHANGED <<service, item, queue, settling, active>>

UploadNext ==
  \/ statusRead \/ recheck \/ leave
  \/ \E batch \in SUBSET Unknown :
       /\ \A i \in batch, j \in Unknown \ batch : i < j
       /\ \E refused \in SUBSET batch : addFiles(batch, refused)
  \/ \E i \in Images : settled(i, "success") \/ settled(i, "error") \/ finally(i)

UploadSpec == UploadInit /\ [][UploadNext]_uploadVars

-----------------------------------------------------------------------------
\* At most MaxConcurrent uploads hold a place ("最多 3 张并行处理"), whatever
\* batches are added while others are being answered, and no image waits while
\* a place is free.  (The state is well typed all along.)
PlacesUsed ==
  /\ UploadTypeOK
  /\ Cardinality(UnderWay) <= MaxConcurrent
  /\ queue # <<>> => Cardinality(UnderWay) = MaxConcurrent
=============================================================================
