----------------------------- MODULE SharedBatch -----------------------------
(***************************************************************************)
(* One batch of the upload queue, with the slices it is made of.           *)
(*                                                                         *)
(* CopyPipeline gives batches value semantics.  In the code a batch holds  *)
(* two slices, Content and FileMeta, and the copy that GetFilesToUpload    *)
(* makes of the map shares their arrays with the queue: an append that     *)
(* finds spare capacity writes to an array that other goroutines hold, too,*)
(* and no lock is held then.  Here slices are pointers into a heap of      *)
(* arrays, and the appends are steps of their own.                         *)
(*                                                                         *)
(* Every delivery queues files of one workflow into the batch of one key;  *)
(* retries, panics and failing uploads are the matter of CopyPipeline.     *)
(* An element is written and read as a whole: what a torn one looks like   *)
(* is left out.                                                            *)
(***************************************************************************)
EXTENDS Integers, Sequences, FiniteSets

CONSTANTS
  Delivery,
  FileCount, \* FileCount[d]: how many files d queues
  AutoMerge, \* AutoMerge[d]: does the workflow of d want its files merged?
  None,      \* a key the map does not hold
  Blank      \* an array element not yet written

ASSUME SharedBatchAssumption ==
  /\ FileCount \in [Delivery -> Nat \ {0}]
  /\ AutoMerge \in [Delivery -> BOOLEAN]
  /\ Blank \notin Delivery \X Nat
  /\ None \notin [content : [array : Nat, len : Nat], meta : [array : Nat, len : Nat],
                  autoMerge : BOOLEAN]
  /\ None \notin [files : Seq(Delivery \X Nat), autoMerge : BOOLEAN]

VARIABLES
  heap,    \* the arrays, in the order of their allocation
  queue,   \* filesToUpload[key]
  pc,      \* pc[d]: where the goroutine of d stands
  next,    \* next[d]: the file at hand
  batch,   \* batch[d]: the copy queueUpload works on
  held,    \* held[d]: the copy that is uploaded
  sent,    \* sent[d]: the files of the commit
  audited, \* audited[d]: what the audit says of them
  company  \* history: the deliveries in flight together with d

vars == <<heap, queue, pc, next, batch, held, sent, audited, company>>

File == UNION {{d} \X (1 .. FileCount[d]) : d \in Delivery}
Slice == [array : 0 .. Len(heap), len : Nat]
Nil == [array |-> 0, len |-> 0]
Batch == [content : Slice, meta : Slice, autoMerge : BOOLEAN]

Elements(s) == IF s = Nil THEN <<>> ELSE SubSeq(heap[s.array], 1, s.len)
Written(s) ==
  s # Nil => \A i \in 1 .. s.len : i \in DOMAIN heap[s.array] /\ heap[s.array][i] # Blank

(* What anyone holds has been written.  While d appends to its copy, the   *)
(* two slices differ by the file at hand.                                  *)
TypeOK ==
  /\ \A a \in DOMAIN heap : heap[a] \in Seq(File \cup {Blank})
  /\ pc \in [Delivery -> {"idle", "queue", "content", "meta", "put",
                          "upload", "audit", "clear", "done"}]
  /\ \A d \in Delivery : next[d] \in 1 .. FileCount[d] + 1
  /\ \A b \in {queue} \cup {batch[d] : d \in Delivery} \cup {held[d] : d \in Delivery} :
       b # None => b \in Batch /\ Written(b.content) /\ Written(b.meta)
  /\ company \in [Delivery -> SUBSET Delivery]

Init ==
  /\ heap = <<>>
  /\ queue = None
  /\ pc = [d \in Delivery |-> "idle"]
  /\ next = [d \in Delivery |-> 1]
  /\ batch = [d \in Delivery |-> None]
  /\ held = [d \in Delivery |-> None]
  /\ sent = [d \in Delivery |-> <<>>]
  /\ audited = [d \in Delivery |-> <<>>]
  /\ company = [d \in Delivery |-> {}]

Goes(d, from, to) == pc[d] = from /\ pc' = [pc EXCEPT ![d] = to]

InFlight(d) == pc[d] \notin {"idle", "done"}

Start(d) ==
  LET others == {e \in Delivery : InFlight(e)}
  IN  /\ Goes(d, "idle", "queue")
      /\ company' = [e \in Delivery |->
           CASE e = d -> others
             [] e \in others -> company[e] \cup {d}
             [] OTHER -> company[e]]
      /\ UNCHANGED <<heap, queue, next, batch, held, sent, audited>>

-----------------------------------------------------------------------------
(* append, as Go has it: in place while there is room, otherwise to a copy *)
(* of twice the size.                                                      *)

HasRoom(s) == s # Nil /\ s.len < Len(heap[s.array])

InPlace(s, file) == [heap EXCEPT ![s.array][s.len + 1] = file]

Mut_GrownAhead(s, file) ==
  Append(heap, [i \in 1 .. 2 * (s.len + 1) |->
    IF i <= s.len THEN heap[s.array][i] ELSE IF i = s.len + 1 THEN file ELSE Blank])

Grown(s, file) ==
  Append(heap, [i \in 1 .. (IF s.len = 0 THEN 1 ELSE 2 * s.len) |->
    IF i <= s.len THEN heap[s.array][i] ELSE IF i = s.len + 1 THEN file ELSE Blank])

Longer(s) == [array |-> IF HasRoom(s) THEN s.array ELSE Len(heap) + 1, len |-> s.len + 1]

AppendTo(s, file) == heap' = IF HasRoom(s) THEN InPlace(s, file) ELSE Grown(s, file)

-----------------------------------------------------------------------------
(* queueUpload, once per file.                                             *)

Mut_OneTooMany(d) == next[d] <= FileCount[d] + 1
More(d) == next[d] <= FileCount[d]

Mut_LastWins(d) == IF queue = None THEN [content |-> Nil, meta |-> Nil, autoMerge |-> AutoMerge[d]]
                   ELSE [queue EXCEPT !.autoMerge = AutoMerge[d]]

(* The settings of the batch: auto-merge only if everybody wants it.       *)
Opened(d) == IF queue = None THEN [content |-> Nil, meta |-> Nil, autoMerge |-> AutoMerge[d]]
             ELSE [queue EXCEPT !.autoMerge = @ /\ AutoMerge[d]]

(* GetFilesToUpload.                                                       *)
QueueRead(d) ==
  /\ Goes(d, "queue", "content")
  /\ More(d)
  /\ batch' = [batch EXCEPT ![d] = Opened(d)]
  /\ UNCHANGED <<heap, queue, next, held, sent, audited, company>>

AppendContent(d) ==
  /\ Goes(d, "content", "meta")
  /\ AppendTo(batch[d].content, <<d, next[d]>>)
  /\ batch' = [batch EXCEPT ![d].content = Longer(@)]
  /\ UNCHANGED <<queue, next, held, sent, audited, company>>

AppendMeta(d) ==
  /\ Goes(d, "meta", "put")
  /\ AppendTo(batch[d].meta, <<d, next[d]>>)
  /\ batch' = [batch EXCEPT ![d].meta = Longer(@)]
  /\ UNCHANGED <<queue, next, held, sent, audited, company>>

(* AddFileToUpload.                                                        *)
QueueWrite(d) ==
  /\ Goes(d, "put", "queue")
  /\ queue' = batch[d]
  /\ batch' = [batch EXCEPT ![d] = None]
  /\ next' = [next EXCEPT ![d] = @ + 1]
  /\ UNCHANGED <<heap, held, sent, audited, company>>

-----------------------------------------------------------------------------
(* uploadAndDeprecateFiles.                                                *)

TakeUploads(d) ==
  /\ Goes(d, "queue", "upload")
  /\ ~ More(d)
  /\ held' = [held EXCEPT ![d] = queue]
  /\ UNCHANGED <<heap, queue, next, batch, sent, audited, company>>

(* The files are read from the array when the commit is made ...           *)
Upload(d) ==
  /\ Goes(d, "upload", "audit")
  /\ sent' = [sent EXCEPT ![d] = IF held[d] = None THEN <<>> ELSE Elements(held[d].content)]
  /\ UNCHANGED <<heap, queue, next, batch, held, audited, company>>

(* ... and again, with what FileMeta says of them, for the audit.          *)
Audit(d) ==
  /\ Goes(d, "audit", "clear")
  /\ audited' = [audited EXCEPT ![d] = IF held[d] = None THEN <<>> ELSE
       [i \in 1 .. held[d].content.len |->
          <<Elements(held[d].content)[i], Elements(held[d].meta)[i]>>]]
  /\ UNCHANGED <<heap, queue, next, batch, held, sent, company>>

Mut_NothingCleared(d) ==
  /\ Goes(d, "clear", "done")
  /\ UNCHANGED <<heap, queue, next, batch, held, sent, audited, company>>

ClearUploads(d) ==
  /\ Goes(d, "clear", "done")
  /\ queue' = None
  /\ UNCHANGED <<heap, next, batch, held, sent, audited, company>>

Next == \E d \in Delivery :
  \/ Start(d) \/ QueueRead(d) \/ AppendContent(d) \/ AppendMeta(d) \/ QueueWrite(d)
  \/ TakeUploads(d) \/ Upload(d) \/ Audit(d) \/ ClearUploads(d)

Spec == Init /\ [][Next]_vars

-----------------------------------------------------------------------------
(* A delivery that overlaps no other commits exactly its own files, in     *)
(* their order, with the settings of its workflow, and the audit says so,  *)
(* whatever arrays earlier deliveries have left behind.                    *)
LoneBatchIsSound ==
  \A d \in Delivery : company[d] = {} /\ pc[d] = "clear" =>
    LET own == [i \in 1 .. FileCount[d] |-> <<d, i>>]
    IN  /\ sent[d] = own
        /\ audited[d] = [i \in DOMAIN own |-> <<own[i], own[i]>>]
        /\ held[d].autoMerge = AutoMerge[d]

(* Up to three files no append finds room, and slices behave like values:  *)
(* however deliveries overlap, a batch that is merged without review has   *)
(* no file whose workflow wants one.  With a fourth file this is no longer *)
(* so: the append of another goroutine may take the place of that file.    *)
SmallBatchesAgree ==
  \A d \in Delivery : pc[d] = "audit" /\ Len(sent[d]) <= 3 /\ held[d] # None =>
    (held[d].autoMerge => \A i \in DOMAIN sent[d] : AutoMerge[sent[d][i][1]])

(* The batch as a list of files; content comes before meta, and the file   *)
(* is there once it is appended to content.                                *)
Value(b) ==
  IF b = None THEN None ELSE [files |-> Elements(b.content), autoMerge |-> b.autoMerge]

QueueList  == Value(queue)
BatchLists == [d \in Delivery |-> Value(batch[d])]
HeldLists  == [d \in Delivery |-> Value(held[d])]
Places ==
  [d \in Delivery |->
     CASE pc[d] = "content" -> "add"
       [] pc[d] = "meta" -> "put"
       [] OTHER -> pc[d]]

Lists == INSTANCE BatchOfFiles WITH
           queue <- QueueList, pc <- Places, batch <- BatchLists, held <- HeldLists

UpToThree(b) == b # None => b.content.len <= 3

Small == UpToThree(queue) /\ \A d \in Delivery : UpToThree(batch[d]) /\ UpToThree(held[d])

(* As long as no batch has more than three files, the arrays never show:   *)
(* every step is one of BatchOfFiles, whose batches are lists that nobody  *)
(* else writes to, and the audit finds in FileMeta what Content says,      *)
(* though GetFilesToUpload copies the map and not the slices in it.        *)
ListsWhileSmall == [][Small' => [Lists!Next]_(Lists!vars)]_vars
=============================================================================
