----------------------------- MODULE BatchOfFiles -----------------------------
(***************************************************************************)
(* One batch of the upload queue as the rest of the code takes it: a list  *)
(* of files and a setting.  Whoever copies it has a list of his own, and   *)
(* the audit tells of each file of a commit what was queued with it.       *)
(*                                                                         *)
(* The queue itself is still read and written in steps of their own, so a  *)
(* file may be lost or uploaded twice; SharedBatch is about whether the    *)
(* arrays behind the lists ever show.                                      *)
(***************************************************************************)
EXTENDS Integers, Sequences

CONSTANTS
  Delivery,
  FileCount, \* FileCount[d]: how many files d queues
  AutoMerge, \* AutoMerge[d]: does the workflow of d want its files merged?
  None       \* no batch

VARIABLES
  queue,   \* the batch in the queue
  pc,      \* pc[d]: where d stands
  next,    \* next[d]: the file at hand
  batch,   \* batch[d]: the batch d adds a file to
  held,    \* held[d]: the batch d uploads
  sent,    \* sent[d]: the files of the commit
  audited  \* audited[d]: each with the file the audit takes it for

vars == <<queue, pc, next, batch, held, sent, audited>>

Init ==
  /\ queue = None
  /\ pc = [d \in Delivery |-> "idle"]
  /\ next = [d \in Delivery |-> 1]
  /\ batch = [d \in Delivery |-> None]
  /\ held = [d \in Delivery |-> None]
  /\ sent = [d \in Delivery |-> <<>>]
  /\ audited = [d \in Delivery |-> <<>>]

Goes(d, from, to) == pc[d] = from /\ pc' = [pc EXCEPT ![d] = to]

Start(d) ==
  /\ Goes(d, "idle", "queue")
  /\ UNCHANGED <<queue, next, batch, held, sent, audited>>

Take(d) ==
  /\ Goes(d, "queue", "add")
  /\ next[d] <= FileCount[d]
  /\ batch' = [batch EXCEPT ![d] =
       IF queue = None THEN [files |-> <<>>, autoMerge |-> AutoMerge[d]]
       ELSE [files |-> queue.files, autoMerge |-> queue.autoMerge /\ AutoMerge[d]]]
  /\ UNCHANGED <<queue, next, held, sent, audited>>

Add(d) ==
  /\ Goes(d, "add", "put")
  /\ batch' = [batch EXCEPT ![d] =
       [files |-> Append(batch[d].files, <<d, next[d]>>), autoMerge |-> batch[d].autoMerge]]
  /\ UNCHANGED <<queue, next, held, sent, audited>>

Put(d) ==
  /\ Goes(d, "put", "queue")
  /\ queue' = batch[d]
  /\ batch' = [batch EXCEPT ![d] = None]
  /\ next' = [next EXCEPT ![d] = next[d] + 1]
  /\ UNCHANGED <<held, sent, audited>>

Hold(d) ==
  /\ Goes(d, "queue", "upload")
  /\ next[d] > FileCount[d]
  /\ held' = [held EXCEPT ![d] = queue]
  /\ UNCHANGED <<queue, next, batch, sent, audited>>

FilesOf(b) == IF b = None THEN <<>> ELSE b.files

Upload(d) ==
  /\ Goes(d, "upload", "audit")
  /\ sent' = [sent EXCEPT ![d] = FilesOf(held[d])]
  /\ UNCHANGED <<queue, next, batch, held, audited>>

Audit(d) ==
  /\ Goes(d, "audit", "clear")
  /\ audited' = [audited EXCEPT ![d] =
       [i \in DOMAIN FilesOf(held[d]) |-> <<FilesOf(held[d])[i], FilesOf(held[d])[i]>>]]
  /\ UNCHANGED <<queue, next, batch, held, sent>>

Clear(d) ==
  /\ Goes(d, "clear", "done")
  /\ queue' = None
  /\ UNCHANGED <<next, batch, held, sent, audited>>

Next == \E d \in Delivery :
  \/ Start(d) \/ Take(d) \/ Add(d) \/ Put(d) \/ Hold(d) \/ Upload(d) \/ Audit(d) \/ Clear(d)

Spec == Init /\ [][Next]_vars
=============================================================================
