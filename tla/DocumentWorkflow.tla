---------------------------- MODULE DocumentWorkflow ----------------------------
(***************************************************************************)
(* examples/s3-sqs-dynamodb-document-workflow: Submit stores a document in *)
(* S3 and announces it on SQS; ProcessOnce receives an announcement, reads *)
(* the object and records it with a conditional DynamoDB write.  Submit    *)
(* and several ProcessOnce calls run at the same time, every call to a     *)
(* service may fail, and a worker may die between any two of them.         *)
(***************************************************************************)
EXTENDS SqsQueue, Sequences, SequencesExt

CONSTANTS
    Uploads,    \* the documents submitted: [doc, file, size]
    Foreign     \* bodies of other producers whose keys are not of a submitted document

VARIABLES
    pc,       \* "submitter" and worker -> where it stands
    upload,   \* the document being submitted
    objects,  \* [doc, file] -> the sizes stored under objectKey, oldest first
    read,     \* worker -> the size it has read
    table     \* doc -> the item under its tenant and processing key, NoItem without one

docVars == <<pc, upload, objects, read, table>>
vars == <<queueVars, docVars>>

Docs == {u.doc : u \in Uploads}
Keys == {[doc |-> u.doc, file |-> u.file] : u \in Uploads}
KeyOf(u) == [doc |-> u.doc, file |-> u.file]
NoUpload == [doc |-> "none", file |-> "none", size |-> 0]
NoItem == [file |-> "none", size |-> 0]

DocumentAssumption ==
    /\ \A u \in Uploads : DOMAIN u = {"doc", "file", "size"} /\ u.size \in Nat \ {0}
    /\ Foreign \intersect Keys = {}
    /\ "submitter" \notin Workers
    /\ MaxFaults \in Nat

TypeOK ==
    /\ QueueTypeOK
    /\ pc["submitter"] \in {"idle", "store", "send"}
    /\ \A w \in Workers : pc[w] \in {"idle", "decode", "read", "record", "ack", "retry"}
    /\ upload \in Uploads \union {NoUpload}
    /\ \A k \in Keys : objects[k] \in Seq({u.size : u \in Uploads})
    /\ \A d \in Docs : table[d] = NoItem \/ [doc |-> d, file |-> table[d].file] \in Keys

Init ==
    /\ QueueInit
    /\ pc = [p \in Workers \union {"submitter"} |-> "idle"]
    /\ upload = NoUpload
    /\ objects = [k \in Keys |-> <<>>]
    /\ read = [w \in Workers |-> 0]
    /\ table = [d \in Docs |-> NoItem]

Goto(p, label) == pc' = [pc EXCEPT ![p] = label]

--------------------------------------------------------------------------------
\* Submit of a document that validateDocument accepts; the others change nothing.
Submit(u) ==
    /\ pc["submitter"] = "idle"
    /\ \E m \in Messages : ~Sent(m)
    /\ upload' = u
    /\ Goto("submitter", "store")
    /\ UNCHANGED <<queueVars, objects, read, table>>

PutObject ==
    /\ pc["submitter"] = "store"
    /\ objects' = [objects EXCEPT ![KeyOf(upload)] = Append(@, upload.size)]
    /\ Goto("submitter", "send")
    /\ UNCHANGED <<queueVars, upload, read, table>>

SendEvent ==
    /\ pc["submitter"] = "send"
    /\ SendMessage(KeyOf(upload))
    /\ upload' = NoUpload
    /\ Goto("submitter", "idle")
    /\ UNCHANGED <<held, faults, objects, read, table>>

\* A call of Submit fails: the caller gets the error, whether or not the service has
\* done what it was asked.
SubmitFails ==
    /\ Fault
    /\ \/ /\ pc["submitter"] = "store"
          /\ UNCHANGED queue
          /\ \/ UNCHANGED objects
             \/ objects' = [objects EXCEPT ![KeyOf(upload)] = Append(@, upload.size)]
       \/ /\ pc["submitter"] = "send"
          /\ UNCHANGED objects
          /\ UNCHANGED queue \/ SendMessage(KeyOf(upload))
    /\ upload' = NoUpload
    /\ Goto("submitter", "idle")
    /\ UNCHANGED <<held, read, table>>

\* Another producer puts a body on the queue that is no document event.
ForeignSend(body) ==
    /\ \A m \in Messages : queue[m].body # body
    /\ SendMessage(body)
    /\ UNCHANGED <<held, faults, docVars>>

--------------------------------------------------------------------------------
\* ProcessOnce receives one message; without a visible one it returns ErrNoMessages.
Receive(w, m) ==
    /\ pc[w] = "idle"
    /\ ReceiveMessage(w, m)
    /\ Goto(w, "decode")
    /\ UNCHANGED <<faults, upload, objects, read, table>>

Event(w) == queue[held[w].message].body

\* decodeEvent refuses a body whose keys do not belong to its document.
Decode(w) ==
    /\ pc[w] = "decode"
    /\ Goto(w, IF Event(w) \in Keys THEN "read" ELSE "retry")
    /\ UNCHANGED <<queueVars, upload, objects, read, table>>

\* readObjectSize; an object that does not exist is an error of GetObject.
ReadObject(w) ==
    /\ pc[w] = "read"
    /\ IF objects[Event(w)] = <<>>
       THEN Goto(w, "retry") /\ UNCHANGED read
       ELSE Goto(w, "record") /\ read' = [read EXCEPT ![w] = Last(objects[Event(w)])]
    /\ UNCHANGED <<queueVars, upload, objects, table>>

Exists(doc) == table[doc] # NoItem

\* Mutant: the write is unconditional.
PutItemAlways(w) ==
    table' = [table EXCEPT ![Event(w).doc] = [file |-> Event(w).file, size |-> read[w]]]

\* The condition attribute_not_exists of the write is false for an existing item.
PutItem(w) ==
    IF Exists(Event(w).doc)
    THEN UNCHANGED table
    ELSE table' = [table EXCEPT ![Event(w).doc] = [file |-> Event(w).file, size |-> read[w]]]

\* recordProcessed: the conditional conflict of a repeated event is acknowledged like a
\* success.
RecordProcessed(w) ==
    /\ pc[w] = "record"
    /\ PutItem(w)
    /\ Goto(w, "ack")
    /\ UNCHANGED <<queueVars, upload, objects, read>>

\* GetObject or PutItem fails, the latter perhaps after it wrote the item.
CallFails(w) ==
    /\ pc[w] \in {"read", "record"}
    /\ Fault
    /\ UNCHANGED table \/ (pc[w] = "record" /\ PutItem(w))
    /\ Goto(w, "retry")
    /\ UNCHANGED <<queue, held, upload, objects, read>>

Leave(w) == Goto(w, "idle") /\ Release(w) /\ read' = [read EXCEPT ![w] = 0]

Ack(w) ==
    /\ pc[w] = "ack"
    /\ DeleteMessage(w)
    /\ Leave(w)
    /\ UNCHANGED <<faults, upload, objects, table>>

Retry(w) ==
    /\ pc[w] = "retry"
    /\ ChangeMessageVisibility(w)
    /\ Leave(w)
    /\ UNCHANGED <<faults, upload, objects, table>>

\* DeleteMessage or ChangeMessageVisibility fails, perhaps after it took effect, or the
\* worker dies: ProcessOnce ends and a message that is still hidden stays so until its
\* visibility timeout.
GiveUp(w) ==
    /\ pc[w] # "idle"
    /\ Fault
    /\ \/ UNCHANGED queue
       \/ pc[w] = "ack" /\ DeleteMessage(w)
       \/ pc[w] = "retry" /\ ChangeMessageVisibility(w)
    /\ Leave(w)
    /\ UNCHANGED <<upload, objects, table>>

Timeout(m) == VisibilityTimeout(m) /\ UNCHANGED docVars

SubmitStep == PutObject \/ SendEvent
ProcessStep(w) == Decode(w) \/ ReadObject(w) \/ RecordProcessed(w) \/ Ack(w) \/ Retry(w)

Next ==
    \/ \E u \in Uploads : Submit(u)
    \/ SubmitStep
    \/ SubmitFails
    \/ \E b \in Foreign : ForeignSend(b)
    \/ \E w \in Workers, m \in Messages : Receive(w, m)
    \/ \E w \in Workers : ProcessStep(w) \/ CallFails(w) \/ GiveUp(w)
    \/ \E m \in Messages : Timeout(m)

Spec == Init /\ [][Next]_vars

--------------------------------------------------------------------------------
\* Submit and ProcessOnce: a message leaves the queue only when its document is in the
\* table, so no failure, redelivery or late acknowledgement loses a document.
AckedMeansRecorded ==
    \A m \in Messages : queue[m].state = "deleted" =>
        queue[m].body \in Keys /\ Exists(queue[m].body.doc)

\* Submit stores before it announces and recordProcessed writes what was read: the table
\* names an object that exists, with a size that was stored under that key.
RecordsAreOfObjects ==
    /\ \A m \in Messages : Sent(m) /\ queue[m].body \in Keys => objects[queue[m].body] # <<>>
    /\ \A d \in Docs : Exists(d) =>
          table[d].size \in ToSet(objects[[doc |-> d, file |-> table[d].file]])

\* recordProcessed: however often an event is delivered, the first record stays.
RecordStays == \A d \in Docs : Exists(d) => table'[d] = table[d]

\* ProcessOnce: an announced document is settled in the end.
Announced(m) == Sent(m) /\ queue[m].body \in Keys
Settled(m) == Announced(m) /\ Exists(queue[m].body.doc)

================================================================================
