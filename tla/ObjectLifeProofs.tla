-------------------------- MODULE ObjectLifeProofs --------------------------
(***************************************************************************)
(* Proofs about the stored objects (ObjectLife): what a row, a persona or  *)
(* the evidence of a blocked image refers to is stored, and nothing that   *)
(* is recorded as gone still is.                                           *)
(*                                                                         *)
(* The argument is about who may still write an object.  An object enters  *)
(* the outbox only once nobody will store it again, and leaves it only as  *)
(* done (QueueInv, GoneInv); until then it has one request that answers    *)
(* for it (OwnersInv, HandlerOk), and after that one row or one persona    *)
(* (RowOk, UploadKept, PersonaInv).                                        *)
(***************************************************************************)
EXTENDS ObjectLife, TLAPS

(* What the code's own constants satisfy: a key is not a null, and a lease *)
(* is not a state of the outbox.                                           *)
ConstantsFit ==
    /\ Nobody \notin Rows \cup Uploads
    /\ Earlier \subseteq Uploads
    /\ Workers \cap {"none", "queued", "done"} = {}

-----------------------------------------------------------------------------
(* The objects                                                             *)

UploadObject(u) == <<"upload", u>>
Scratch(h) == <<"scratch", h>>
Evidence(h) == <<"quarantine", h>>

(* Objects of different kinds, or of different owners, are different.      *)
LEMMA Kinds ==
    /\ \A x : /\ Media(x)[1] = "media" /\ Thumb(x)[1] = "thumb" /\ UploadObject(x)[1] = "upload"
              /\ Scratch(x)[1] = "scratch" /\ Evidence(x)[1] = "quarantine"
    /\ \A x, y : /\ Media(x) = Media(y) => x = y
                 /\ UploadObject(x) = UploadObject(y) => x = y
                 /\ Scratch(x) = Scratch(y) => x = y
                 /\ Evidence(x) = Evidence(y) => x = y
BY DEF Media, Thumb, UploadObject, Scratch, Evidence

LEMMA Known ==
    /\ \A g \in Rows : Media(g) \in Objects /\ Thumb(g) \in Objects
    /\ \A u \in Uploads : UploadObject(u) \in Objects
    /\ \A h \in Handlers : Scratch(h) \in Objects /\ Evidence(h) \in Objects
BY DEF Objects, Media, Thumb, UploadObject, Scratch, Evidence

-----------------------------------------------------------------------------
(* The invariant                                                           *)

Untouched == {"none", "staged", "live", "held"}
Usables == {"staged", "live"}

HandlerStates ==
    [pc : {"idle", "stage", "moderate", "quarantine", "strike", "discard", "sweep",
           "sweep_refused", "insert", "register", "put", "record", "drop_object", "drop_row",
           "allow", "block", "answered"},
     op : {"none", "save", "thumb", "upload"},
     row : Rows \cup {Nobody}, upload : Uploads \cup {Nobody}]

WorkerStates ==
    [pc : {"idle", "delete", "look", "acknowledge"}, batch : SUBSET Objects,
     object : Objects \cup {Nobody}, thrown : BOOLEAN, verdict : {"none", "gone", "failed"}]

RowStates ==
    [state : {"none", "pending", "done", "failed", "gone"}, hidden : BOOLEAN, media : BOOLEAN,
     thumb : BOOLEAN, video : BOOLEAN, busy : BOOLEAN]

PersonaStates ==
    [state : {"none", "draft", "ready", "gone"}, photos : [Slots -> Uploads \cup {Nobody}]]

StoreTypes ==
    /\ registry \in [Objects -> {"none", "staged", "live", "delete_pending", "held", "gone"}]
    /\ outbox \in [Objects -> {"none", "queued", "done"} \cup Workers]
    /\ bytes \subseteq Objects
RequestTypes ==
    /\ handlers \in [Handlers -> HandlerStates]
    /\ uploads \in [Uploads -> {"none", "pending", "allowed", "blocked"}]
RowTypes == rows \in [Rows -> RowStates]
WorkerTypes == workers \in [Workers -> WorkerStates]
PersonaTypes == personas \in [Personas -> PersonaStates]

(* An object is in the outbox just when it is on its way out, and evidence *)
(* never is.                                                               *)
QueueInv ==
    \A o \in Objects :
      /\ outbox[o] = "none" <=> registry[o] \in Untouched
      /\ registry[o] = "held" => o[1] = "quarantine"
      /\ o[1] = "quarantine" => outbox[o] = "none"

(* What a worker has claimed stays in the outbox, and what it saw absent   *)
(* or wrote off is not stored.                                             *)
WorkerOk(w) ==
    /\ \A o \in workers[w].batch : outbox[o] # "none"
    /\ workers[w].pc \in {"look", "acknowledge"} =>
         workers[w].object \in Objects /\ outbox[workers[w].object] # "none"
    /\ workers[w].pc = "acknowledge" /\ workers[w].verdict = "gone" =>
         workers[w].object[1] = "thumb" \/ workers[w].object \notin bytes
GoneInv ==
    /\ \A w \in Workers : WorkerOk(w)
    /\ \A o \in Objects : registry[o] = "gone" => o[1] = "thumb" \/ o \notin bytes

EvidenceInv == evidence \subseteq bytes /\ \A o \in evidence : o[1] = "quarantine"

RowOk(g) ==
    /\ rows[g].state # "gone" => outbox[Media(g)] = "none"
    /\ rows[g].media = TRUE <=> rows[g].state = "done"
    /\ rows[g].busy = TRUE => rows[g].state = "pending"
    /\ rows[g].state = "done" => Media(g) \in bytes /\ registry[Media(g)] \in Usables

(* A request that saves an edit or an import, from its row on.             *)
Saving == {"register", "put", "record", "drop_object", "drop_row"}
SaveOk(h) ==
    /\ handlers[h].upload = Nobody
    /\ handlers[h].row = Nobody => handlers[h].pc \notin Saving
    /\ handlers[h].row # Nobody =>
         /\ handlers[h].pc \in Saving \cup {"answered"}
         /\ rows[Own(h)].busy = FALSE /\ rows[Own(h)].state # "none"
         /\ handlers[h].pc # "answered" =>
              rows[Own(h)].state \in {"pending", "gone"} /\ outbox[Media(Own(h))] = "none"
         /\ handlers[h].pc \in {"put", "record"} => registry[Media(Own(h))] \in Usables
         /\ handlers[h].pc = "record" => Media(Own(h)) \in bytes
    /\ handlers[h].pc \notin {"idle", "allow", "block"}

ThumbOk(h) ==
    /\ handlers[h].upload = Nobody /\ handlers[h].row \in Rows
    /\ handlers[h].pc \notin {"idle", "insert", "drop_object", "drop_row", "allow", "block"}

(* A request that stores an upload, until its verdict is written.          *)
Brought(h) == handlers[h].upload
UploadOk(h) ==
    /\ handlers[h].upload \in Uploads /\ handlers[h].row = Nobody
    /\ handlers[h].pc \in {"register", "put", "record", "moderate", "quarantine", "strike",
                           "discard", "allow", "block", "answered"}
    /\ handlers[h].pc # "answered" => uploads[Brought(h)] \in {"none", "pending"}
    /\ handlers[h].pc \notin {"block", "answered"} => outbox[UploadObject(Brought(h))] = "none"
    /\ handlers[h].pc \in {"put", "record", "moderate", "quarantine", "strike", "allow"} =>
         registry[UploadObject(Brought(h))] \in Usables
    /\ handlers[h].pc \in {"record", "moderate", "quarantine", "strike", "allow"} =>
         UploadObject(Brought(h)) \in bytes

HandlerOk(h) ==
    /\ handlers[h].pc \in {"idle", "stage"} => outbox[Scratch(h)] = "none"
    /\ handlers[h].pc = "strike" => Evidence(h) \in bytes
    /\ handlers[h].op = "none" =>
         handlers[h].pc = "idle" /\ handlers[h].row = Nobody /\ handlers[h].upload = Nobody
    /\ handlers[h].op = "save" => SaveOk(h)
    /\ handlers[h].op = "thumb" => ThumbOk(h)
    /\ handlers[h].op = "upload" => UploadOk(h)

(* A row is saved by one request, an upload stored by one.                 *)
OwnersInv ==
    \A h, k \in Handlers :
      /\ handlers[h].op = "save" /\ handlers[k].op = "save" /\ handlers[h].row # Nobody
           /\ handlers[h].row = handlers[k].row => h = k
      /\ handlers[h].upload # Nobody /\ handlers[h].upload = handlers[k].upload => h = k

UploadKept(u) ==
    uploads[u] = "allowed" /\ outbox[UploadObject(u)] = "none" =>
        UploadObject(u) \in bytes /\ registry[UploadObject(u)] \in Usables

PersonaOk(p) ==
    /\ p \notin Living => Photos(p) = {}
    /\ \A u \in Photos(p) : uploads[u] = "allowed" /\ outbox[UploadObject(u)] = "none"
    /\ \A q \in Personas \ {p} : Photos(p) \cap Photos(q) = {}

ObjectInv ==
    /\ StoreTypes /\ RequestTypes /\ RowTypes /\ WorkerTypes /\ PersonaTypes
    /\ QueueInv /\ GoneInv /\ EvidenceInv
    /\ \A g \in Rows : RowOk(g)
    /\ \A h \in Handlers : HandlerOk(h)
    /\ OwnersInv
    /\ \A u \in Uploads : UploadKept(u)
    /\ \A p \in Personas : PersonaOk(p)

-----------------------------------------------------------------------------
(* What a step does to the store                                           *)

(* An object the step leaves where it is, and one it sends to the outbox.  *)
Stays(o) ==
    /\ outbox'[o] = outbox[o]
    /\ registry'[o] \in Untouched <=> registry[o] \in Untouched
    /\ registry[o] \in Usables => registry'[o] \in Usables \/ o[1] = "quarantine"
    /\ registry'[o] = "gone" <=> registry[o] = "gone"
    /\ registry'[o] = "held" => registry[o] = "held" \/ o[1] = "quarantine"
Sent(o) ==
    /\ outbox'[o] # "none" /\ registry'[o] \notin Untouched
    /\ registry'[o] = "gone" <=> registry[o] = "gone"

(* The step stores W, removes R, and sends objects of S to the outbox.     *)
StoreStep(W, R, S) ==
    /\ StoreTypes'
    /\ \A o \in Objects : Stays(o) \/ (o \in S /\ Sent(o))
    /\ bytes' \subseteq bytes \cup W /\ bytes \subseteq bytes' \cup R
    /\ \A o \in W : o \in Objects /\ (outbox[o] = "none" \/ o[1] = "thumb") /\ o \notin S
    /\ \A o \in R \cup S : o[1] # "quarantine"

LEMMA StoreKeeps ==
    ASSUME ObjectInv, NEW W, NEW R, NEW S, StoreStep(W, R, S), UNCHANGED workers
    PROVE  QueueInv' /\ GoneInv'
<1>1. QueueInv'
  BY DEF ObjectInv, QueueInv, StoreStep, Stays, Sent, Untouched, Usables
<1>2. \A o \in Objects : outbox[o] # "none" => outbox'[o] # "none"
  BY DEF StoreStep, Stays, Sent
<1>3. \A o \in Objects : outbox[o] # "none" /\ o[1] # "thumb" /\ o \notin bytes => o \notin bytes'
  BY DEF StoreStep
<1>4. ASSUME NEW w \in Workers PROVE WorkerOk(w)'
  <2>1. workers[w].batch \subseteq Objects
    BY DEF ObjectInv, WorkerTypes, WorkerStates
  <2> QED
    BY <1>2, <1>3, <2>1 DEF ObjectInv, GoneInv, WorkerOk
<1>5. ASSUME NEW o \in Objects, registry'[o] = "gone" PROVE o[1] = "thumb" \/ o \notin bytes'
  <2>1. registry[o] = "gone"
    BY <1>5 DEF StoreStep, Stays, Sent
  <2>2. outbox[o] # "none"
    BY <2>1 DEF ObjectInv, QueueInv, Untouched
  <2> QED
    BY <1>3, <2>1, <2>2 DEF ObjectInv, GoneInv
<1> QED
  BY <1>1, <1>4, <1>5 DEF GoneInv

-----------------------------------------------------------------------------
(* A request's step                                                        *)

SameRow(g) ==
    rows'[g].state = rows[g].state /\ rows'[g].media = rows[g].media
    /\ rows'[g].busy = rows[g].busy

(* What a request may remove, or have removed: its scratch copy, the       *)
(* upload it has yet to decide about, the result it could not record.      *)
Private(h, o) ==
    \/ o = Scratch(h)
    \/ handlers[h].op = "upload" /\ handlers[h].pc # "answered" /\ o = UploadObject(Brought(h))
    \/ /\ handlers[h].op = "save" /\ handlers[h].pc = "drop_object"
       /\ o = Media(Own(h)) /\ outbox'[o] = "none"

(* What the step changes of rows and uploads is the request's own.         *)
OwnStep(h) ==
    /\ \A k \in Handlers \ {h} : handlers'[k] = handlers[k]
    /\ RequestTypes' /\ RowTypes' /\ OwnersInv' /\ HandlerOk(h)'
    /\ \A o \in evidence' : o \in evidence \/ (o = Evidence(h) /\ o \in bytes)
    /\ \A g \in Rows :
          SameRow(g) \/ (handlers'[h].op = "save" /\ handlers'[h].row = g /\ RowOk(g)')
    /\ \A u \in Uploads :
          \/ uploads'[u] = uploads[u]
          \/ /\ handlers[h].op = "upload" /\ Brought(h) = u /\ handlers[h].pc # "answered"
             /\ UploadKept(u)'

LEMMA PrivateRow ==
    ASSUME ObjectInv, NEW h \in Handlers, NEW o, Private(h, o), NEW g \in Rows, o = Media(g)
    PROVE  outbox'[o] = "none" /\ handlers[h].op = "save" /\ handlers[h].row = g
           /\ rows[g].state # "done"
<1>1. handlers[h].op = "save" /\ handlers[h].pc = "drop_object" /\ Own(h) = g /\ outbox'[o] = "none"
  BY Kinds DEF Private
<1>2. SaveOk(h)
  BY <1>1 DEF ObjectInv, HandlerOk
<1> QED
  BY <1>1, <1>2 DEF SaveOk, Own, Saving

LEMMA PrivateUpload ==
    ASSUME ObjectInv, NEW h \in Handlers, NEW o, Private(h, o), NEW u \in Uploads,
           o = UploadObject(u)
    PROVE  /\ handlers[h].op = "upload" /\ Brought(h) = u /\ handlers[h].pc # "answered"
           /\ uploads[u] \in {"none", "pending"}
<1>1. handlers[h].op = "upload" /\ Brought(h) = u /\ handlers[h].pc # "answered"
  BY Kinds DEF Private
<1>2. UploadOk(h)
  BY <1>1 DEF ObjectInv, HandlerOk
<1> QED
  BY <1>1, <1>2 DEF UploadOk, Brought

LEMMA RowStays ==
    ASSUME ObjectInv, NEW h \in Handlers, NEW W, NEW R, NEW S, StoreStep(W, R, S),
           \A o \in R \cup S : Private(h, o), NEW g \in Rows
    PROVE  Stays(Media(g)) /\ (rows[g].state = "done" => Media(g) \notin R)
<1>1. Media(g) \in Objects
  BY Known
<1>2. Media(g) \notin S \/ ~Sent(Media(g))
  <2> SUFFICES ASSUME Private(h, Media(g)), Sent(Media(g)) PROVE FALSE
    OBVIOUS
  <2> QED
    BY PrivateRow DEF Sent
<1>3. rows[g].state = "done" => Media(g) \notin R
  <2> SUFFICES ASSUME Private(h, Media(g)), rows[g].state = "done" PROVE FALSE
    OBVIOUS
  <2> QED
    BY PrivateRow
<1> QED
  BY <1>1, <1>2, <1>3 DEF StoreStep

LEMMA RowsKept ==
    ASSUME ObjectInv, NEW h \in Handlers, NEW W, NEW R, NEW S, StoreStep(W, R, S),
           \A o \in R \cup S : Private(h, o), OwnStep(h), NEW g \in Rows
    PROVE  RowOk(g)'
<1>1. CASE SameRow(g)
  <2>1. Media(g) \in Objects /\ RowOk(g)
    BY Known DEF ObjectInv
  <2>2. Stays(Media(g))
    BY RowStays
  <2>3. rows[g].state = "done" => Media(g) \in bytes'
    BY <2>1, RowStays DEF StoreStep, RowOk
  <2> QED
    BY <1>1, <2>1, <2>2, <2>3 DEF RowOk, SameRow, Stays, Media
<1> QED
  BY <1>1 DEF OwnStep

LEMMA UploadsKept ==
    ASSUME ObjectInv, NEW h \in Handlers, NEW W, NEW R, NEW S, StoreStep(W, R, S),
           \A o \in R \cup S : Private(h, o), OwnStep(h), NEW u \in Uploads
    PROVE  UploadKept(u)'
<1>1. CASE uploads'[u] = uploads[u] /\ uploads[u] = "allowed"
  <2>1. UploadObject(u) \in Objects /\ UploadKept(u)
    BY Known DEF ObjectInv
  <2>2. UploadObject(u) \notin R \cup S
    BY <1>1, PrivateUpload
  <2>3. Stays(UploadObject(u)) /\ (UploadObject(u) \in bytes => UploadObject(u) \in bytes')
    BY <2>1, <2>2 DEF StoreStep
  <2> QED
    BY <1>1, <2>1, <2>3 DEF UploadKept, Stays, UploadObject
<1>2. CASE uploads'[u] = uploads[u] /\ uploads[u] # "allowed"
  BY <1>2 DEF UploadKept
<1> QED
  BY <1>1, <1>2 DEF OwnStep

LEMMA PersonasKept ==
    ASSUME ObjectInv, NEW h \in Handlers, NEW W, NEW R, NEW S, StoreStep(W, R, S),
           \A o \in R \cup S : Private(h, o), OwnStep(h), UNCHANGED personas, NEW p \in Personas
    PROVE  PersonaOk(p)'
<1>1. PersonaOk(p) /\ Photos(p) \subseteq Uploads
  BY DEF ObjectInv, PersonaTypes, PersonaStates, Photos
<1>2. ASSUME NEW u \in Photos(p) PROVE uploads'[u] = "allowed" /\ outbox'[UploadObject(u)] = "none"
  <2>1. u \in Uploads /\ uploads[u] = "allowed" /\ outbox[UploadObject(u)] = "none"
    BY <1>1 DEF PersonaOk
  <2>2. UploadObject(u) \in Objects /\ UploadObject(u) \notin R \cup S
    BY <2>1, PrivateUpload, Known
  <2>3. Stays(UploadObject(u))
    BY <2>2 DEF StoreStep
  <2>4. uploads'[u] = uploads[u]
    <3> SUFFICES ASSUME handlers[h].op = "upload", Brought(h) = u, handlers[h].pc # "answered"
                 PROVE  FALSE
      BY <2>1 DEF OwnStep
    <3> QED
      BY <2>1 DEF ObjectInv, HandlerOk, UploadOk
  <2> QED
    BY <2>1, <2>3, <2>4 DEF Stays
<1>3. \A q \in Personas : Photos(q)' = Photos(q) /\ (q \in Living' <=> q \in Living)
  BY DEF Photos, Living
<1> QED
  BY <1>1, <1>2, <1>3 DEF PersonaOk, UploadObject

LEMMA OthersKept ==
    ASSUME ObjectInv, ConstantsFit, NEW h \in Handlers, NEW W, NEW R, NEW S, StoreStep(W, R, S),
           \A o \in R \cup S : Private(h, o), OwnStep(h), NEW k \in Handlers, k # h
    PROVE  HandlerOk(k)'
<1>0. /\ handlers'[k] = handlers[k] /\ HandlerOk(k) /\ OwnersInv /\ OwnersInv'
      /\ handlers[k] \in HandlerStates
  BY DEF ObjectInv, OwnStep, RequestTypes
<1>1. handlers[k].pc \in {"idle", "stage"} => outbox'[Scratch(k)] = "none"
  <2>1. Scratch(k) \notin R \cup S /\ Scratch(k) \in Objects
    BY Kinds, Known DEF Private
  <2> QED
    BY <1>0, <2>1 DEF StoreStep, Stays, HandlerOk
<1>2. handlers[k].pc = "strike" => Evidence(k) \in bytes'
  <2>1. Evidence(k) \notin R
    BY Kinds DEF StoreStep
  <2> QED
    BY <1>0, <2>1 DEF StoreStep, HandlerOk
<1>3. CASE handlers[k].op = "save"
  <2>1. SaveOk(k)
    BY <1>0, <1>3 DEF HandlerOk
  <2>2. ASSUME handlers[k].row = Nobody PROVE SaveOk(k)'
    BY <1>0, <2>1, <2>2 DEF SaveOk
  <2>3. ASSUME handlers[k].row # Nobody PROVE SaveOk(k)'
    <3>1. Own(k) \in Rows /\ Media(Own(k)) \in Objects
      BY <1>0, <2>3, Known DEF HandlerStates, Own
    <3>2. SameRow(Own(k))
      <4> SUFFICES ASSUME handlers'[h].op = "save", handlers'[h].row = handlers[k].row PROVE FALSE
        BY <3>1 DEF OwnStep, Own
      <4> QED
        BY <1>0, <1>3, <2>3 DEF OwnersInv
    <3>3. Media(Own(k)) \notin R
      <4> SUFFICES ASSUME Private(h, Media(Own(k))) PROVE FALSE
        OBVIOUS
      <4> QED
        BY <1>0, <1>3, <2>3, <3>1, PrivateRow DEF OwnersInv, Own
    <3>4. Stays(Media(Own(k)))
      BY <3>1, RowStays
    <3> QED
      BY <1>0, <2>1, <2>3, <3>1, <3>2, <3>3, <3>4 DEF SaveOk, Own, Media, SameRow, Stays, StoreStep
  <2>4. SaveOk(k)'
    BY <2>2, <2>3
  <2> QED
    BY <1>0, <1>1, <1>2, <1>3, <2>4 DEF HandlerOk, Scratch, Evidence
<1>4. CASE handlers[k].op = "thumb"
  BY <1>0, <1>1, <1>2, <1>4 DEF HandlerOk, ThumbOk, Scratch, Evidence
<1>5. CASE handlers[k].op = "upload"
  <2>1. UploadOk(k) /\ Brought(k) # Nobody
    BY <1>0, <1>5 DEF HandlerOk, UploadOk, ConstantsFit, Brought
  <2>2. Brought(k) \in Uploads /\ UploadObject(Brought(k)) \in Objects
    BY <2>1, Known DEF UploadOk, Brought
  <2>3. ~(handlers[h].op = "upload" /\ Brought(h) = Brought(k))
    BY <1>0, <2>1 DEF OwnersInv, Brought
  <2>4. UploadObject(Brought(k)) \notin R \cup S
    <3> SUFFICES ASSUME Private(h, UploadObject(Brought(k))) PROVE FALSE
      OBVIOUS
    <3> QED
      BY <2>2, <2>3, PrivateUpload
  <2>5. Stays(UploadObject(Brought(k))) /\ uploads'[Brought(k)] = uploads[Brought(k)]
    BY <2>2, <2>3, <2>4 DEF StoreStep, OwnStep
  <2>6. UploadObject(Brought(k)) \in bytes => UploadObject(Brought(k)) \in bytes'
    BY <2>4 DEF StoreStep
  <2>7. UploadOk(k)'
    BY <1>0, <2>1, <2>5, <2>6 DEF UploadOk, Brought, UploadObject, Stays
  <2> QED
    BY <1>0, <1>1, <1>2, <1>5, <2>7 DEF HandlerOk, Scratch, Evidence
<1>6. CASE handlers[k].op = "none"
  BY <1>0, <1>1, <1>2, <1>6 DEF HandlerOk, Scratch, Evidence
<1> QED
  BY <1>0, <1>3, <1>4, <1>5, <1>6 DEF HandlerStates

LEMMA RequestKeeps ==
    ASSUME ObjectInv, ConstantsFit, NEW h \in Handlers, NEW W, NEW R, NEW S, StoreStep(W, R, S),
           \A o \in R \cup S : Private(h, o), OwnStep(h), UNCHANGED <<workers, personas>>
    PROVE  ObjectInv'
<1>1. StoreTypes' /\ QueueInv' /\ GoneInv'
  BY StoreKeeps DEF StoreStep
<1>2. EvidenceInv'
  BY Kinds DEF ObjectInv, EvidenceInv, OwnStep, StoreStep
<1>3. \A k \in Handlers : HandlerOk(k)'
  BY OthersKept DEF OwnStep
<1> QED
  BY <1>1, <1>2, <1>3, RowsKept, UploadsKept, PersonasKept
     DEF ObjectInv, OwnStep, WorkerTypes, PersonaTypes

-----------------------------------------------------------------------------
(* The requests, step by step                                              *)

Pcs == {"idle", "stage", "moderate", "quarantine", "strike", "discard", "sweep",
        "sweep_refused", "insert", "register", "put", "record", "drop_object", "drop_row",
        "allow", "block", "answered"}

LEMMA NoStore == ASSUME ObjectInv, UNCHANGED stored PROVE StoreStep({}, {}, {})
BY DEF ObjectInv, StoreTypes, StoreStep, Stays, stored

(* Registering an object leaves every object as usable as it was.          *)
LEMMA Registers ==
    ASSUME ObjectInv, NEW o \in Objects
    PROVE  /\ registerObject(registry, o)
                \in [Objects -> {"none", "staged", "live", "delete_pending", "held", "gone"}]
           /\ \A x \in Objects : registerObject(registry, o)[x] =
                IF x = o /\ registry[x] = "none" THEN "staged" ELSE registry[x]
BY DEF ObjectInv, StoreTypes, registerObject

LEMMA RegisterStep ==
    ASSUME ObjectInv, NEW o \in Objects, UNCHANGED outbox,
           registry' = registry \/ registry' = registerObject(registry, o),
           NEW W, bytes' \subseteq bytes \cup W, bytes \subseteq bytes',
           \A x \in W : x \in Objects /\ (outbox[x] = "none" \/ x[1] = "thumb")
    PROVE  StoreStep(W, {}, {})
<1>1. StoreTypes'
  BY Registers DEF ObjectInv, StoreTypes
<1>2. ASSUME NEW x \in Objects PROVE Stays(x)
  BY Registers, <1>2 DEF Stays, Untouched, Usables
<1> QED
  BY <1>1, <1>2 DEF StoreStep

(* A request that goes on keeps what it is about.                          *)
LEMMA Goes ==
    ASSUME ObjectInv, NEW h \in Handlers, NEW pc \in Pcs, Go(h, pc)
    PROVE  /\ handlers' \in [Handlers -> HandlerStates] /\ OwnersInv'
           /\ \A k \in Handlers \ {h} : handlers'[k] = handlers[k]
           /\ handlers'[h].pc = pc /\ handlers'[h].op = handlers[h].op
           /\ handlers'[h].row = handlers[h].row /\ handlers'[h].upload = handlers[h].upload
<1>1. /\ handlers' \in [Handlers -> HandlerStates]
      /\ \A k \in Handlers \ {h} : handlers'[k] = handlers[k]
      /\ handlers'[h].pc = pc /\ handlers'[h].op = handlers[h].op
      /\ handlers'[h].row = handlers[h].row /\ handlers'[h].upload = handlers[h].upload
  BY DEF ObjectInv, RequestTypes, HandlerStates, Go, Pcs
<1>2. OwnersInv'
  BY <1>1 DEF ObjectInv, OwnersInv
<1> QED
  BY <1>1, <1>2

LEMMA GoStep ==
    ASSUME ObjectInv, NEW h \in Handlers, NEW pc \in Pcs, Go(h, pc), HandlerOk(h)',
           UNCHANGED <<rows, uploads>>,
           \A o \in evidence' : o \in evidence \/ (o = Evidence(h) /\ o \in bytes)
    PROVE  OwnStep(h)
BY Goes DEF ObjectInv, OwnStep, RequestTypes, RowTypes, SameRow

(* A request may end anywhere, having begun.                               *)
LEMMA Answered ==
    ASSUME ObjectInv, NEW h \in Handlers, handlers[h].op # "none", Go(h, "answered"),
           handlers[h].op = "save" /\ Own(h) # Nobody =>
              rows'[Own(h)].busy = FALSE /\ rows'[Own(h)].state # "none"
    PROVE  HandlerOk(h)'
<1>1. /\ handlers'[h].pc = "answered" /\ handlers'[h].op = handlers[h].op
      /\ handlers'[h].row = handlers[h].row /\ handlers'[h].upload = handlers[h].upload
  BY Goes DEF Pcs
<1> QED
  BY <1>1 DEF ObjectInv, HandlerOk, SaveOk, ThumbOk, UploadOk, Own, Saving

LEMMA AnsweredSame ==
    ASSUME ObjectInv, NEW h \in Handlers, handlers[h].op # "none", Go(h, "answered"),
           UNCHANGED rows
    PROVE  HandlerOk(h)'
BY Answered DEF ObjectInv, HandlerOk, SaveOk, Own

LEMMA BeginKeeps ==
    ASSUME ObjectInv, ConstantsFit, NEW h \in Handlers,
           SaveEdit(h) \/ Import(h) \/ (\E u \in Uploads : Upload(h, u))
           \/ (\E g \in Rows : Poster(h, g))
    PROVE  ObjectInv'
<1>1. handlers[h].pc = "idle" /\ UNCHANGED <<stored, rows, uploads, evidence, workers, personas>>
  BY DEF SaveEdit, Import, BeginSave, Upload, Poster, At, content
<1>2. ASSUME NEW r \in HandlerStates, handlers' = [handlers EXCEPT ![h] = r], HandlerOk(h)', OwnersInv'
      PROVE  ObjectInv'
  <2>1. OwnStep(h)
    BY <1>1, <1>2 DEF ObjectInv, OwnStep, RequestTypes, RowTypes, SameRow
  <2> QED
    BY <1>1, <2>1, NoStore, RequestKeeps
<1>3. HandlerOk(h) /\ outbox[Scratch(h)] = "none"
  BY <1>1 DEF ObjectInv, HandlerOk
<1>4. CASE BeginSave(h)
  <2> DEFINE r == [Ready EXCEPT !.op = "save", !.pc = "stage"]
  <2>1. /\ r \in HandlerStates /\ handlers' = [handlers EXCEPT ![h] = r] /\ r.op = "save"
        /\ r.pc = "stage" /\ r.row = Nobody /\ r.upload = Nobody
    BY <1>4 DEF BeginSave, Ready, HandlerStates
  <2>2. handlers'[h] = r /\ \A k \in Handlers \ {h} : handlers'[k] = handlers[k]
    BY <2>1 DEF ObjectInv, RequestTypes
  <2> HIDE DEF r
  <2>3. HandlerOk(h)'
    BY <1>1, <1>3, <2>1, <2>2 DEF HandlerOk, SaveOk, Saving, Scratch, stored
  <2>4. OwnersInv'
    BY <2>1, <2>2 DEF ObjectInv, OwnersInv
  <2> QED
    BY <1>2, <2>1, <2>3, <2>4
<1>5. ASSUME NEW u \in Uploads, Upload(h, u) PROVE ObjectInv'
  <2> DEFINE r == [Ready EXCEPT !.op = "upload", !.upload = u, !.pc = "register"]
  <2>1. /\ r \in HandlerStates /\ handlers' = [handlers EXCEPT ![h] = r] /\ r.op = "upload"
        /\ r.pc = "register" /\ r.row = Nobody /\ r.upload = u
    BY <1>5 DEF Upload, Ready, HandlerStates
  <2>2. handlers'[h] = r /\ \A k \in Handlers \ {h} : handlers'[k] = handlers[k]
    BY <2>1 DEF ObjectInv, RequestTypes
  <2> HIDE DEF r
  <2>3. uploads[u] = "none" /\ outbox[UploadObject(u)] = "none"
    BY <1>5, Known DEF Upload, UploadObject, ObjectInv, QueueInv, Untouched
  <2>4. HandlerOk(h)'
    BY <1>1, <2>1, <2>2, <2>3 DEF HandlerOk, UploadOk, Brought, UploadObject, stored
  <2>5. \A k \in Handlers : handlers[k].upload # u
    BY <1>5 DEF Upload
  <2>6. OwnersInv'
    BY <2>1, <2>2, <2>5 DEF ObjectInv, OwnersInv
  <2> QED
    BY <1>2, <2>1, <2>4, <2>6
<1>6. ASSUME NEW g \in Rows, Poster(h, g) PROVE ObjectInv'
  <2> DEFINE r == [Ready EXCEPT !.op = "thumb", !.row = g, !.pc = "stage"]
  <2>1. /\ r \in HandlerStates /\ handlers' = [handlers EXCEPT ![h] = r] /\ r.op = "thumb"
        /\ r.pc = "stage" /\ r.row = g /\ r.upload = Nobody
    BY <1>6 DEF Poster, Ready, HandlerStates
  <2>2. handlers'[h] = r /\ \A k \in Handlers \ {h} : handlers'[k] = handlers[k]
    BY <2>1 DEF ObjectInv, RequestTypes
  <2> HIDE DEF r
  <2>3. HandlerOk(h)'
    BY <1>1, <1>3, <2>1, <2>2 DEF HandlerOk, ThumbOk, Scratch, stored
  <2>4. OwnersInv'
    BY <2>1, <2>2 DEF ObjectInv, OwnersInv
  <2> QED
    BY <1>2, <2>1, <2>3, <2>4
<1> QED
  BY <1>4, <1>5, <1>6 DEF SaveEdit, Import

LEMMA GoKeeps ==
    ASSUME ObjectInv, ConstantsFit, NEW h \in Handlers, NEW pc \in Pcs, Go(h, pc), HandlerOk(h)',
           NEW W, NEW R, NEW S, StoreStep(W, R, S), \A o \in R \cup S : Private(h, o),
           UNCHANGED <<rows, uploads, workers, personas>>,
           \A o \in evidence' : o \in evidence \/ (o = Evidence(h) /\ o \in bytes)
    PROVE  ObjectInv'
<1>1. OwnStep(h)
  BY GoStep
<1> QED
  BY <1>1, RequestKeeps

LEMMA Begun ==
    ASSUME ObjectInv, NEW h \in Handlers, handlers[h].pc # "idle"
    PROVE  /\ handlers[h].op \in {"save", "thumb", "upload"} /\ HandlerOk(h)
           /\ handlers[h].op = "save" => SaveOk(h)
           /\ handlers[h].op = "thumb" => ThumbOk(h)
           /\ handlers[h].op = "upload" => UploadOk(h)
<1>1. HandlerOk(h) /\ handlers[h] \in HandlerStates
  BY DEF ObjectInv, RequestTypes
<1> QED
  BY <1>1 DEF HandlerOk, HandlerStates

(* While an image is looked at, its request answers for its bytes.         *)
Looked == {"moderate", "quarantine", "strike", "discard", "sweep", "sweep_refused", "insert"}
LEMMA Looking ==
    ASSUME ObjectInv, NEW h \in Handlers, handlers[h].pc \in {"stage"} \cup Looked,
           NEW pc \in Pcs, Go(h, pc), pc = "strike" => Evidence(h) \in bytes',
           handlers[h].op = "save" => pc \in Looked,
           handlers[h].op = "thumb" => pc \in (Looked \ {"insert"}) \cup {"register"},
           handlers[h].op = "upload" =>
              /\ pc \in {"quarantine", "strike", "discard", "allow", "block"}
              /\ uploads' = uploads
              /\ pc # "block" => outbox'[UploadObject(Brought(h))] = "none"
              /\ pc \in {"quarantine", "strike", "allow"} =>
                   registry'[UploadObject(Brought(h))] \in Usables
                   /\ UploadObject(Brought(h)) \in bytes'
    PROVE  HandlerOk(h)'
<1>1. /\ handlers'[h].pc = pc /\ handlers'[h].op = handlers[h].op
      /\ handlers'[h].row = handlers[h].row /\ handlers'[h].upload = handlers[h].upload
  BY Goes
<1>2. handlers[h].op \in {"save", "thumb", "upload"}
  BY Begun DEF Looked
<1>3. CASE handlers[h].op = "save"
  <2>1. SaveOk(h)
    BY <1>3, Begun DEF Looked
  <2> QED
    BY <1>1, <1>3, <2>1 DEF HandlerOk, SaveOk, Saving, Looked, Evidence
<1>4. CASE handlers[h].op = "thumb"
  <2>1. ThumbOk(h)
    BY <1>4, Begun DEF Looked
  <2> QED
    BY <1>1, <1>4, <2>1 DEF HandlerOk, ThumbOk, Looked, Evidence
<1>5. CASE handlers[h].op = "upload"
  <2>1. UploadOk(h)
    BY <1>5, Begun DEF Looked
  <2> QED
    BY <1>1, <1>5, <2>1 DEF HandlerOk, UploadOk, Looked, Evidence, UploadObject, Brought
<1> QED
  BY <1>2, <1>3, <1>4, <1>5

LEMMA WriteScratchKeeps ==
    ASSUME ObjectInv, ConstantsFit, NEW h \in Handlers, writeScratch(h) PROVE ObjectInv'
<1>1. /\ handlers[h].pc = "stage" /\ UNCHANGED <<outbox, evidence, rows, uploads, personas, workers>>
      /\ outbox[Scratch(h)] = "none" /\ handlers[h].op \in {"save", "thumb"}
  <2>1. handlers[h].pc = "stage" /\ UNCHANGED <<outbox, evidence, rows, uploads, personas, workers>>
    BY DEF writeScratch, At, content
  <2> QED
    BY <2>1, Begun DEF HandlerOk, UploadOk
<1>2. StoreStep({Scratch(h)}, {}, {})
  <2>1. /\ registry' = registry \/ registry' = registerObject(registry, Scratch(h))
        /\ bytes' = bytes \/ bytes' = bytes \cup {Scratch(h)}
    BY DEF writeScratch, Scratch
  <2> QED
    BY <1>1, <2>1, RegisterStep, Known
<1>3. CASE Go(h, "moderate")
  BY <1>1, <1>2, <1>3, Looking, GoKeeps DEF Pcs, Looked
<1>4. CASE Go(h, "answered")
  BY <1>1, <1>2, <1>4, AnsweredSame, GoKeeps DEF Pcs
<1> QED
  BY <1>3, <1>4 DEF writeScratch

LEMMA AfterChecks ==
    ASSUME ObjectInv, NEW h \in Handlers, handlers[h].pc \in Looked, NEW passed \in BOOLEAN,
           Go(h, AfterCheck(h, passed)), handlers[h].pc \notin {"sweep", "sweep_refused", "insert"},
           handlers[h].op = "upload" /\ passed =>
             handlers[h].pc = "moderate" /\ UNCHANGED <<stored, uploads>>,
           UNCHANGED uploads
    PROVE  AfterCheck(h, passed) \in Pcs /\ HandlerOk(h)'
<1>1. handlers[h].op \in {"save", "thumb", "upload"}
  BY Begun DEF Looked
<1>2. CASE handlers[h].op # "upload"
  <2>1. AfterCheck(h, passed) \in {"sweep", "sweep_refused"}
    BY <1>2 DEF AfterCheck
  <2> QED
    BY <1>1, <1>2, <2>1, Looking DEF Looked, Pcs
<1>3. CASE handlers[h].op = "upload" /\ ~passed
  <2>1. AfterCheck(h, passed) = "block"
    BY <1>3 DEF AfterCheck
  <2> QED
    BY <1>1, <1>3, <2>1, Looking DEF Looked, Pcs
<1>4. CASE handlers[h].op = "upload" /\ passed
  <2>1. AfterCheck(h, passed) = "allow" /\ UploadOk(h)
    BY <1>4, Begun DEF AfterCheck
  <2>2. /\ outbox'[UploadObject(Brought(h))] = "none"
        /\ registry'[UploadObject(Brought(h))] \in Usables /\ UploadObject(Brought(h)) \in bytes'
    BY <1>4, <2>1 DEF UploadOk, stored
  <2> QED
    BY <1>1, <1>4, <2>1, <2>2, Looking DEF Looked, Pcs
<1> QED
  BY <1>2, <1>3, <1>4

LEMMA CheckedPrivate ==
    ASSUME ObjectInv, NEW h \in Handlers, handlers[h].pc \in Looked
    PROVE  Private(h, Checked(h)) /\ Checked(h) \in Objects /\ Checked(h)[1] # "quarantine"
<1>1. CASE handlers[h].op = "upload"
  <2>1. Checked(h) = UploadObject(Brought(h)) /\ Brought(h) \in Uploads
    BY <1>1, Begun DEF Checked, Target, UploadObject, Brought, UploadOk, Looked
  <2> QED
    BY <1>1, <2>1, Known, Kinds DEF Private, Looked
<1>2. CASE handlers[h].op # "upload"
  <2>1. Checked(h) = Scratch(h)
    BY <1>2 DEF Checked, Scratch
  <2> QED
    BY <2>1, Known, Kinds DEF Private
<1> QED
  BY <1>1, <1>2

LEMMA RemoveStep ==
    ASSUME ObjectInv, NEW o, o[1] # "quarantine", UNCHANGED <<registry, outbox>>,
           bytes' \in {bytes, bytes \ {o}}
    PROVE  StoreStep({}, {o}, {})
<1>1. StoreTypes'
  BY DEF ObjectInv, StoreTypes
<1>2. ASSUME NEW x \in Objects PROVE Stays(x)
  BY DEF Stays
<1> QED
  BY <1>1, <1>2 DEF StoreStep

LEMMA ModerateKeeps ==
    ASSUME ObjectInv, ConstantsFit, NEW h \in Handlers, moderateStoredImage(h) PROVE ObjectInv'
<1>1. /\ handlers[h].pc = "moderate"
      /\ UNCHANGED <<registry, outbox, evidence, rows, uploads, personas, workers>>
  BY DEF moderateStoredImage, At, content
<1>2. StoreStep({}, {Checked(h)}, {}) /\ Private(h, Checked(h))
  <2>1. bytes' \in {bytes, bytes \ {Checked(h)}}
    BY DEF moderateStoredImage
  <2> QED
    BY <1>1, <2>1, CheckedPrivate, RemoveStep DEF Looked
<1>3. CASE \E passed \in BOOLEAN :
             Go(h, AfterCheck(h, passed)) /\ (passed => UNCHANGED bytes)
  <2>1. PICK passed \in BOOLEAN : Go(h, AfterCheck(h, passed)) /\ (passed => UNCHANGED bytes)
    BY <1>3
  <2>2. AfterCheck(h, passed) \in Pcs /\ HandlerOk(h)'
    BY <1>1, <2>1, AfterChecks DEF Looked, stored
  <2> QED
    BY <1>1, <1>2, <2>1, <2>2, GoKeeps
<1>4. CASE Go(h, "quarantine") /\ UNCHANGED bytes
  <2>1. handlers[h].op = "upload" => UploadOk(h)
    BY <1>1, Begun
  <2>2. HandlerOk(h)'
    BY <1>1, <1>4, <2>1, Begun, Looking DEF Looked, Pcs, UploadOk
  <2> QED
    BY <1>1, <1>2, <1>4, <2>2, GoKeeps DEF Pcs
<1> QED
  BY <1>3, <1>4 DEF moderateStoredImage

LEMMA QuarantineKeeps ==
    ASSUME ObjectInv, ConstantsFit, NEW h \in Handlers, quarantine(h) PROVE ObjectInv'
<1>1. /\ handlers[h].pc = "quarantine" /\ Go(h, "strike") /\ Checked(h) \in bytes
      /\ UNCHANGED <<outbox, evidence, rows, uploads, personas, workers>>
      /\ \E held \in BOOLEAN : Copied(h, held)
  BY DEF quarantine, At, content
<1>2. /\ Evidence(h) \in bytes' /\ bytes' \subseteq bytes \cup {Evidence(h)}
      /\ bytes \subseteq bytes' /\ outbox[Evidence(h)] = "none" /\ Evidence(h) \in Objects
      /\ Evidence(h)[1] = "quarantine"
  BY <1>1, Known, Kinds DEF Copied, Evidence, ObjectInv, QueueInv
<1>3. StoreStep({Evidence(h)}, {}, {})
  <2>1. CASE registry' = registerObject(registry, Evidence(h))
    BY <1>1, <1>2, <2>1, RegisterStep
  <2>2. CASE registry' = [registry EXCEPT ![Evidence(h)] = "held"]
    <3>1. StoreTypes'
      BY <1>1, <1>2, <2>2 DEF ObjectInv, StoreTypes
    <3>2. registry[Evidence(h)] \in Untouched
      BY <1>2 DEF ObjectInv, QueueInv
    <3>3. ASSUME NEW x \in Objects PROVE Stays(x)
      BY <1>1, <1>2, <2>2, <3>2 DEF ObjectInv, StoreTypes, Stays, Untouched, Usables
    <3> QED
      BY <1>1, <1>2, <3>1, <3>3 DEF StoreStep
  <2> QED
    BY <1>1, <2>1, <2>2 DEF Copied, Evidence
<1>4. handlers[h].op = "upload" => UploadOk(h)
  BY <1>1, Begun
<1>5. handlers[h].op = "upload" => UploadObject(Brought(h)) # Evidence(h)
  BY Kinds
<1>6. HandlerOk(h)'
  <2>1. handlers[h].op = "upload" => registry'[UploadObject(Brought(h))] \in Usables
    BY <1>1, <1>3, <1>4, <1>5, Known, Kinds DEF StoreStep, Stays, UploadOk, Brought
  <2> QED
    BY <1>1, <1>2, <1>4, <2>1, Begun, Looking DEF Looked, Pcs, UploadOk
<1> QED
  BY <1>1, <1>3, <1>6, GoKeeps DEF Pcs

LEMMA QuarantineFailsKeeps ==
    ASSUME ObjectInv, ConstantsFit, NEW h \in Handlers, quarantineFails(h) PROVE ObjectInv'
<1>1. /\ handlers[h].pc = "quarantine" /\ Go(h, AfterCheck(h, FALSE))
      /\ UNCHANGED <<bytes, outbox, evidence, rows, uploads, personas, workers>>
      /\ registry' = registry \/ registry' = registerObject(registry, Evidence(h))
  BY DEF quarantineFails, At, content, Evidence
<1>2. StoreStep({}, {}, {})
  BY <1>1, RegisterStep, Known
<1>3. AfterCheck(h, FALSE) \in Pcs /\ HandlerOk(h)'
  BY <1>1, AfterChecks DEF Looked
<1> QED
  BY <1>1, <1>2, <1>3, GoKeeps

LEMMA RecordEvidenceKeeps ==
    ASSUME ObjectInv, ConstantsFit, NEW h \in Handlers, recordEvidence(h) PROVE ObjectInv'
<1>1. /\ handlers[h].pc = "strike" /\ Go(h, "discard")
      /\ UNCHANGED <<stored, rows, uploads, personas, workers>>
      /\ \A o \in evidence' : o \in evidence \/ o = Evidence(h)
  BY DEF recordEvidence, At, content, Evidence
<1>2. Evidence(h) \in bytes /\ (handlers[h].op = "upload" => UploadOk(h))
  BY <1>1, Begun DEF HandlerOk
<1>3. HandlerOk(h)'
  BY <1>1, <1>2, Begun, Looking DEF Looked, Pcs, UploadOk, stored
<1> QED
  BY <1>1, <1>2, <1>3, NoStore, GoKeeps DEF Pcs

(* Queueing sends every object that is not evidence to the outbox, and     *)
(* touches no other.                                                       *)
LEMMA Enqueues ==
    ASSUME ObjectInv, NEW Q, Q \subseteq Objects, enqueueDeletions(Q),
           \A o \in Q : o[1] # "quarantine"
    PROVE  /\ registry' \in [Objects -> {"none", "staged", "live", "delete_pending", "held", "gone"}]
           /\ outbox' \in [Objects -> {"none", "queued", "done"} \cup Workers]
           /\ \A o \in Objects : Stays(o) \/ (o \in Q /\ Sent(o))
<1> DEFINE known == [o \in Objects |-> registerObject(registry, o)[o]]
           seen == [o \in Objects |-> IF o \in Q THEN known[o] ELSE registry[o]]
           due == Deletable(seen, Q)
<1>1. /\ registry' = [o \in Objects |-> IF o \in due THEN "delete_pending" ELSE seen[o]]
      /\ outbox' = [o \in Objects |->
                      IF o \in due /\ outbox[o] = "none" THEN "queued" ELSE outbox[o]]
  BY DEF enqueueDeletions
<1>2. \A o \in Objects : seen[o] = IF o \in Q /\ registry[o] = "none" THEN "staged" ELSE registry[o]
  BY Registers
<1>3. \A o \in Objects : o \in due <=> o \in Q /\ seen[o] \notin {"gone", "held"} /\ outbox[o] # "done"
  BY DEF Deletable
<1> HIDE DEF seen, due
<1>4. StoreTypes
  BY DEF ObjectInv
<1>5. ASSUME NEW o \in Objects, o \in Q PROVE Sent(o)
  <2>1. /\ outbox[o] = "none" <=> registry[o] \in Untouched
        /\ registry[o] # "held"
    BY <1>5 DEF ObjectInv, QueueInv
  <2>2. CASE o \in due
    BY <1>1, <1>2, <1>3, <1>5, <2>1, <2>2 DEF Sent, Untouched
  <2>3. CASE o \notin due
    BY <1>1, <1>2, <1>3, <1>5, <2>1, <2>3 DEF Sent, Untouched
  <2> QED
    BY <2>2, <2>3
<1>6. ASSUME NEW o \in Objects, o \notin Q PROVE Stays(o)
  BY <1>1, <1>2, <1>3, <1>6 DEF Stays
<1>7. /\ registry' \in [Objects -> {"none", "staged", "live", "delete_pending", "held", "gone"}]
      /\ outbox' \in [Objects -> {"none", "queued", "done"} \cup Workers]
  BY <1>1, <1>2, <1>4 DEF StoreTypes
<1> QED
  BY <1>5, <1>6, <1>7

LEMMA RemoveTracked ==
    ASSUME ObjectInv, NEW o \in Objects, o[1] # "quarantine", removeTracked(o)
    PROVE  StoreStep({}, {o}, {o})
<1>1. CASE bytes' = bytes \ {o} /\ UNCHANGED <<registry, outbox>>
  <2>1. StoreStep({}, {o}, {})
    BY <1>1, RemoveStep
  <2> QED
    BY <2>1 DEF StoreStep
<1>2. CASE enqueueDeletions({o}) /\ UNCHANGED bytes
  BY <1>2, Enqueues DEF StoreStep, ObjectInv, StoreTypes
<1>3. CASE UNCHANGED stored
  <2>1. StoreStep({}, {}, {})
    BY <1>3, NoStore
  <2> QED
    BY <2>1 DEF StoreStep
<1> QED
  BY <1>1, <1>2, <1>3 DEF removeTracked

LEMMA RefuseKeeps ==
    ASSUME ObjectInv, ConstantsFit, NEW h \in Handlers, refuseBlockedImage(h) PROVE ObjectInv'
<1>1. /\ handlers[h].pc = "discard" /\ Go(h, AfterCheck(h, FALSE)) /\ removeTracked(Checked(h))
      /\ UNCHANGED <<evidence, rows, uploads, personas, workers>>
  BY DEF refuseBlockedImage, At, content
<1>2. StoreStep({}, {Checked(h)}, {Checked(h)}) /\ Private(h, Checked(h))
  BY <1>1, CheckedPrivate, RemoveTracked DEF Looked
<1>3. AfterCheck(h, FALSE) \in Pcs /\ HandlerOk(h)'
  BY <1>1, AfterChecks DEF Looked
<1> QED
  BY <1>1, <1>2, <1>3, GoKeeps

LEMMA SweepKeeps ==
    ASSUME ObjectInv, ConstantsFit, NEW h \in Handlers, sweepScratch(h) PROVE ObjectInv'
<1>1. /\ handlers[h].pc \in {"sweep", "sweep_refused"} /\ removeTracked(Scratch(h))
      /\ UNCHANGED <<evidence, rows, uploads, personas, workers>>
      /\ \/ Go(h, "answered")
         \/ handlers[h].op = "save" /\ Go(h, "insert")
         \/ handlers[h].op # "save" /\ Go(h, "register")
  BY DEF sweepScratch, At, content, Scratch
<1>2. StoreStep({}, {Scratch(h)}, {Scratch(h)}) /\ Private(h, Scratch(h))
  BY <1>1, RemoveTracked, Known, Kinds DEF Private
<1>3. handlers[h].op \in {"save", "thumb"}
  BY <1>1, Begun DEF UploadOk
<1>4. CASE Go(h, "answered")
  BY <1>1, <1>2, <1>3, <1>4, AnsweredSame, GoKeeps DEF Pcs
<1>5. CASE handlers[h].op = "save" /\ Go(h, "insert")
  BY <1>1, <1>2, <1>5, Looking, GoKeeps DEF Pcs, Looked
<1>6. CASE handlers[h].op = "thumb" /\ Go(h, "register")
  BY <1>1, <1>2, <1>6, Looking, GoKeeps DEF Pcs, Looked
<1> QED
  BY <1>1, <1>3, <1>4, <1>5, <1>6

LEMMA DieKeeps ==
    ASSUME ObjectInv, ConstantsFit, NEW h \in Handlers, Die(h) PROVE ObjectInv'
<1>1. /\ handlers[h].pc # "idle" /\ Go(h, "answered")
      /\ UNCHANGED <<stored, evidence, rows, uploads, personas, workers>>
  BY DEF Die, content
<1> QED
  BY <1>1, Begun, AnsweredSame, NoStore, GoKeeps DEF Pcs

LEMMA InsertRowKeeps ==
    ASSUME ObjectInv, ConstantsFit, NEW h \in Handlers, insertRow(h) PROVE ObjectInv'
<1>1. /\ handlers[h].pc = "insert" /\ UNCHANGED <<stored, evidence, uploads, personas, workers>>
  BY DEF insertRow, At
<1>2. handlers[h].op = "save" /\ SaveOk(h) /\ handlers[h].row = Nobody /\ handlers[h].upload = Nobody
  BY <1>1, Begun DEF ThumbOk, UploadOk, SaveOk, Saving
<1>3. CASE Go(h, "answered") /\ UNCHANGED rows
  BY <1>1, <1>2, <1>3, AnsweredSame, NoStore, GoKeeps DEF Pcs
<1>4. ASSUME NEW g \in Rows, rows[g].state = "none",
             rows' = [rows EXCEPT ![g] = [NoRow EXCEPT !.state = "pending"]],
             handlers' = [handlers EXCEPT ![h].row = g, ![h].pc = "register"]
      PROVE  ObjectInv'
  <2>1. /\ handlers' \in [Handlers -> HandlerStates]
        /\ \A k \in Handlers \ {h} : handlers'[k] = handlers[k]
        /\ handlers'[h].pc = "register" /\ handlers'[h].op = "save"
        /\ handlers'[h].row = g /\ handlers'[h].upload = Nobody
    BY <1>2, <1>4 DEF ObjectInv, RequestTypes, HandlerStates
  <2>2. /\ rows' \in [Rows -> RowStates] /\ \A f \in Rows \ {g} : rows'[f] = rows[f]
        /\ rows'[g].state = "pending" /\ rows'[g].busy = FALSE /\ rows'[g].media = FALSE
    BY <1>4 DEF ObjectInv, RowTypes, RowStates, NoRow
  <2>3. outbox'[Media(g)] = "none"
    BY <1>1, <1>4 DEF ObjectInv, RowOk, stored
  <2>4. \A k \in Handlers : handlers[k].op = "save" => handlers[k].row # g
    <3> SUFFICES ASSUME NEW k \in Handlers, handlers[k].op = "save", handlers[k].row = g PROVE FALSE
      OBVIOUS
    <3> QED
      BY <1>4 DEF ObjectInv, HandlerOk, SaveOk, Own, ConstantsFit
  <2>5. OwnersInv'
    BY <2>1, <2>4 DEF ObjectInv, OwnersInv
  <2>6. HandlerOk(h)'
    BY <2>1, <2>2, <2>3 DEF HandlerOk, SaveOk, Own, Saving, Media, ConstantsFit
  <2>7. RowOk(g)'
    BY <2>2, <2>3 DEF RowOk, Media
  <2>8. OwnStep(h)
    BY <1>1, <2>1, <2>2, <2>5, <2>6, <2>7 DEF OwnStep, ObjectInv, RequestTypes, RowTypes, SameRow
  <2> QED
    BY <1>1, <2>8, NoStore, RequestKeeps
<1> QED
  BY <1>3, <1>4 DEF insertRow

(* The object a request stores for good: nobody has queued it yet, and an  *)
(* upload's or a row's is as good as new.                                  *)
LEMMA Targets ==
    ASSUME ObjectInv, ConstantsFit, NEW h \in Handlers,
           handlers[h].pc \in {"register", "put", "record"}
    PROVE  /\ Target(h) \in Objects
           /\ Target(h)[1] = "thumb" \/ (outbox[Target(h)] = "none" /\ Target(h)[1] # "quarantine")
           /\ handlers[h].op = "save" =>
                SaveOk(h) /\ Own(h) \in Rows /\ Own(h) # Nobody /\ Target(h) = Media(Own(h))
           /\ handlers[h].op = "thumb" => ThumbOk(h) /\ Target(h)[1] = "thumb"
           /\ handlers[h].op = "upload" =>
                UploadOk(h) /\ Brought(h) \in Uploads /\ Target(h) = UploadObject(Brought(h))
           /\ handlers[h].op \in {"save", "thumb", "upload"}
<1>1. handlers[h].op \in {"save", "thumb", "upload"} /\ handlers[h] \in HandlerStates
  BY Begun DEF ObjectInv, RequestTypes
<1>2. CASE handlers[h].op = "save"
  <2>1. SaveOk(h)
    BY <1>2, Begun
  <2>2. Own(h) \in Rows /\ Own(h) # Nobody
    BY <1>1, <2>1 DEF SaveOk, Saving, Own, HandlerStates
  <2>3. Target(h) = Media(Own(h))
    BY <1>2 DEF Target
  <2> QED
    BY <1>1, <1>2, <2>1, <2>2, <2>3, Known, Kinds DEF SaveOk, Own
<1>3. CASE handlers[h].op = "thumb"
  <2>1. ThumbOk(h) /\ Target(h) = Thumb(Own(h))
    BY <1>3, Begun DEF Target
  <2> QED
    BY <1>1, <1>3, <2>1, Known, Kinds DEF ThumbOk, Own
<1>4. CASE handlers[h].op = "upload"
  <2>1. UploadOk(h) /\ Target(h) = UploadObject(Brought(h))
    BY <1>4, Begun DEF Target, UploadObject, Brought
  <2> QED
    BY <1>1, <1>4, <2>1, Known, Kinds DEF UploadOk, Brought
<1> QED
  BY <1>1, <1>2, <1>3, <1>4

(* From the registration to the record.                                    *)
LEMMA Storing ==
    ASSUME ObjectInv, ConstantsFit, NEW h \in Handlers, handlers[h].pc \in {"register", "put"},
           NEW pc \in {"put", "record"}, Go(h, pc), UNCHANGED <<outbox, rows, uploads>>,
           Target(h)[1] # "thumb" => registry'[Target(h)] \in Usables,
           pc = "record" => Target(h) \in bytes'
    PROVE  HandlerOk(h)'
<1>1. /\ handlers'[h].pc = pc /\ handlers'[h].op = handlers[h].op
      /\ handlers'[h].row = handlers[h].row /\ handlers'[h].upload = handlers[h].upload
  BY Goes DEF Pcs
<1>2. CASE handlers[h].op = "save"
  <2>1. /\ SaveOk(h) /\ Own(h) # Nobody /\ Target(h) = Media(Own(h)) /\ Media(Own(h))[1] # "thumb"
    BY <1>2, Targets, Kinds
  <2>2. SaveOk(h)'
    BY <1>1, <2>1 DEF SaveOk, Own, Saving, Media
  <2> QED
    BY <1>1, <1>2, <2>2 DEF HandlerOk
<1>3. CASE handlers[h].op = "thumb"
  BY <1>1, <1>3, Targets DEF HandlerOk, ThumbOk
<1>4. CASE handlers[h].op = "upload"
  <2>1. /\ UploadOk(h) /\ Target(h) = UploadObject(Brought(h))
        /\ UploadObject(Brought(h))[1] # "thumb"
    BY <1>4, Targets, Kinds
  <2>2. UploadOk(h)'
    BY <1>1, <2>1 DEF UploadOk, Brought, UploadObject
  <2> QED
    BY <1>1, <1>4, <2>2 DEF HandlerOk
<1> QED
  BY <1>2, <1>3, <1>4, Targets

LEMMA Refuses ==
    ASSUME ObjectInv, ConstantsFit, NEW h \in Handlers, handlers[h].pc \in {"register", "put"},
           Go(h, RefusedPc(h)), UNCHANGED <<outbox, rows>>
    PROVE  RefusedPc(h) \in Pcs /\ HandlerOk(h)'
<1>1. CASE handlers[h].op = "save"
  <2>1. RefusedPc(h) = "drop_row" /\ SaveOk(h)
    BY <1>1, Targets DEF RefusedPc
  <2>2. /\ handlers'[h].pc = "drop_row" /\ handlers'[h].op = handlers[h].op
        /\ handlers'[h].row = handlers[h].row /\ handlers'[h].upload = handlers[h].upload
    BY <2>1, Goes DEF Pcs
  <2> QED
    BY <1>1, <2>1, <2>2 DEF HandlerOk, SaveOk, Own, Saving, Pcs, Media
<1>2. CASE handlers[h].op # "save"
  <2>1. RefusedPc(h) = "answered"
    BY <1>2 DEF RefusedPc
  <2> QED
    BY <1>2, <2>1, Targets, AnsweredSame DEF Pcs
<1> QED
  BY <1>1, <1>2

LEMMA RegisterTargetKeeps ==
    ASSUME ObjectInv, ConstantsFit, NEW h \in Handlers, registerTarget(h) PROVE ObjectInv'
<1>1. /\ handlers[h].pc = "register"
      /\ UNCHANGED <<bytes, outbox, evidence, rows, uploads, personas, workers>>
  BY DEF registerTarget, At, content
<1>2. StoreStep({}, {}, {})
  <2>1. registry' = registry \/ registry' = registerObject(registry, Target(h))
    BY DEF registerTarget
  <2> QED
    BY <1>1, <2>1, Targets, RegisterStep
<1>3. CASE registry' = registerObject(registry, Target(h)) /\ Go(h, "put")
  <2>1. Target(h)[1] # "thumb" => registry'[Target(h)] \in Usables
    BY <1>1, <1>3, Targets, Registers DEF ObjectInv, QueueInv, Untouched, Usables
  <2> QED
    BY <1>1, <1>2, <1>3, <2>1, Storing, GoKeeps DEF Pcs
<1>4. CASE Go(h, RefusedPc(h))
  BY <1>1, <1>2, <1>4, Refuses, GoKeeps
<1> QED
  BY <1>3, <1>4 DEF registerTarget

LEMMA PutTargetKeeps ==
    ASSUME ObjectInv, ConstantsFit, NEW h \in Handlers, putTarget(h) PROVE ObjectInv'
<1>1. /\ handlers[h].pc = "put"
      /\ UNCHANGED <<outbox, evidence, rows, uploads, personas, workers>>
      /\ registry' = registry \/ registry' = markObjectLive(registry, Target(h))
      /\ bytes' = bytes \/ bytes' = bytes \cup {Target(h)}
  BY DEF putTarget, At, content
<1>2. StoreStep({Target(h)}, {}, {})
  <2>1. StoreTypes'
    BY <1>1, Targets DEF ObjectInv, StoreTypes, markObjectLive
  <2>2. ASSUME NEW o \in Objects PROVE Stays(o)
    BY <1>1, Targets DEF ObjectInv, StoreTypes, markObjectLive, Stays, Untouched, Usables
  <2> QED
    BY <1>1, <2>1, <2>2, Targets DEF StoreStep
<1>3. Target(h)[1] # "thumb" => registry[Target(h)] \in Usables
  BY <1>1, Targets, Kinds DEF SaveOk, UploadOk, Own, Brought
<1>4. CASE Go(h, "record") /\ bytes' = bytes \cup {Target(h)}
  <2>1. Target(h)[1] # "thumb" => registry'[Target(h)] \in Usables
    BY <1>1, <1>2, <1>3, Targets DEF StoreStep, Stays
  <2> QED
    BY <1>1, <1>2, <1>4, <2>1, Storing, GoKeeps DEF Pcs
<1>5. CASE Go(h, RefusedPc(h))
  BY <1>1, <1>2, <1>5, Refuses, GoKeeps
<1> QED
  BY <1>4, <1>5 DEF putTarget

LEMMA RecordSaveKeeps ==
    ASSUME ObjectInv, ConstantsFit, NEW h \in Handlers, recordSave(h) PROVE ObjectInv'
<1>1. /\ handlers[h].pc = "record" /\ handlers[h].op = "save"
      /\ UNCHANGED <<stored, evidence, uploads, personas, workers>>
  BY DEF recordSave, At
<1>2. SaveOk(h) /\ Own(h) \in Rows /\ Own(h) # Nobody
  BY <1>1, Targets
<1>3. CASE Go(h, "drop_object") /\ UNCHANGED rows
  <2>1. HandlerOk(h)'
    BY <1>1, <1>2, <1>3, Goes DEF HandlerOk, SaveOk, Own, Saving, Pcs, stored, Media
  <2> QED
    BY <1>1, <1>3, <2>1, NoStore, GoKeeps DEF Pcs
<1>4. ASSUME rows[Own(h)].state # "gone", Go(h, "answered"),
             rows' = [rows EXCEPT ![Own(h)].state = "done", ![Own(h)].media = TRUE]
      PROVE  ObjectInv'
  <2>1. /\ rows' \in [Rows -> RowStates] /\ \A g \in Rows \ {Own(h)} : rows'[g] = rows[g]
        /\ rows'[Own(h)].state = "done" /\ rows'[Own(h)].media = TRUE
        /\ rows'[Own(h)].busy = FALSE
    BY <1>2, <1>4 DEF ObjectInv, RowTypes, RowStates, SaveOk, Own
  <2>2. HandlerOk(h)'
    BY <1>1, <1>4, <2>1, Answered
  <2>3. /\ outbox'[Media(Own(h))] = "none" /\ Media(Own(h)) \in bytes'
        /\ registry'[Media(Own(h))] \in Usables
    BY <1>1, <1>2 DEF SaveOk, Own, stored
  <2>4. \A g \in Rows : g = Own(h) => RowOk(g)'
    BY <2>1, <2>3 DEF RowOk, Media
  <2>5. OwnStep(h)
    BY <1>1, <1>4, <2>1, <2>2, <2>4, Goes
       DEF OwnStep, ObjectInv, RequestTypes, RowTypes, SameRow, Own, Pcs
  <2> QED
    BY <1>1, <2>5, NoStore, RequestKeeps
<1> QED
  BY <1>3, <1>4 DEF recordSave

LEMMA DropObjectKeeps ==
    ASSUME ObjectInv, ConstantsFit, NEW h \in Handlers, dropStagedObject(h) PROVE ObjectInv'
<1>1. /\ handlers[h].pc = "drop_object" /\ Go(h, "drop_row")
      /\ bytes' \in {bytes, bytes \ {Target(h)}}
      /\ UNCHANGED <<registry, outbox, evidence, rows, uploads, personas, workers>>
  BY DEF dropStagedObject, At, content
<1>2. handlers[h].op = "save" /\ SaveOk(h) /\ Own(h) # Nobody
  BY <1>1, Begun DEF ThumbOk, UploadOk, SaveOk, Saving, Own
<1>3. Target(h) = Media(Own(h))
  BY <1>2 DEF Target
<1>4. StoreStep({}, {Target(h)}, {})
  BY <1>1, <1>3, RemoveStep, Kinds
<1>5. outbox'[Media(Own(h))] = "none"
  BY <1>1, <1>2 DEF SaveOk, Own
<1>6. Private(h, Target(h))
  BY <1>1, <1>2, <1>3, <1>5 DEF Private
<1>7. HandlerOk(h)'
  BY <1>1, <1>2, Goes DEF HandlerOk, SaveOk, Own, Saving, Pcs, Media
<1> QED
  BY <1>1, <1>4, <1>6, <1>7, GoKeeps DEF Pcs

LEMMA DropRowKeeps ==
    ASSUME ObjectInv, ConstantsFit, NEW h \in Handlers, dropStagedRow(h) PROVE ObjectInv'
<1>1. /\ handlers[h].pc = "drop_row" /\ Go(h, "answered")
      /\ UNCHANGED <<stored, evidence, uploads, personas, workers>>
  BY DEF dropStagedRow, At
<1>2. handlers[h].op = "save" /\ SaveOk(h) /\ Own(h) # Nobody
  BY <1>1, Begun DEF ThumbOk, UploadOk, SaveOk, Saving, Own
<1>3. CASE UNCHANGED rows
  BY <1>1, <1>2, <1>3, AnsweredSame, NoStore, GoKeeps DEF Pcs
<1>4. ASSUME rows' = [rows EXCEPT ![Own(h)] = [NoRow EXCEPT !.state = "gone"]] PROVE ObjectInv'
  <2>0. Own(h) \in Rows
    BY <1>2 DEF ObjectInv, RequestTypes, HandlerStates, Own
  <2>1. /\ rows' \in [Rows -> RowStates] /\ \A g \in Rows \ {Own(h)} : rows'[g] = rows[g]
        /\ rows'[Own(h)].state = "gone" /\ rows'[Own(h)].media = FALSE
        /\ rows'[Own(h)].busy = FALSE
    BY <1>4, <2>0 DEF ObjectInv, RowTypes, RowStates, NoRow
  <2>2. HandlerOk(h)'
    BY <1>1, <1>2, <2>1, Answered
  <2>3. \A g \in Rows : g = Own(h) => RowOk(g)'
    BY <2>1 DEF RowOk
  <2>4. OwnStep(h)
    BY <1>1, <1>2, <2>1, <2>2, <2>3, Goes
       DEF OwnStep, ObjectInv, RequestTypes, RowTypes, SameRow, Own, Pcs
  <2> QED
    BY <1>1, <2>4, NoStore, RequestKeeps
<1> QED
  BY <1>3, <1>4 DEF dropStagedRow

LEMMA RecordThumbKeeps ==
    ASSUME ObjectInv, ConstantsFit, NEW h \in Handlers, recordThumb(h) PROVE ObjectInv'
<1>1. /\ handlers[h].pc = "record" /\ handlers[h].op = "thumb" /\ Go(h, "answered")
      /\ UNCHANGED <<stored, evidence, uploads, personas, workers>>
      /\ rows' = rows \/ rows' = [rows EXCEPT ![Own(h)].thumb = TRUE]
  BY DEF recordThumb, At
<1>2. rows' \in [Rows -> RowStates] /\ \A g \in Rows : SameRow(g)
  <2>1. Own(h) \in Rows /\ rows \in [Rows -> RowStates]
    BY <1>1, Targets DEF ObjectInv, RowTypes, ThumbOk, Own
  <2>2. CASE rows' = [rows EXCEPT ![Own(h)].thumb = TRUE]
    BY <2>1, <2>2 DEF RowStates, SameRow
  <2> QED
    BY <1>1, <2>1, <2>2 DEF SameRow
<1>3. HandlerOk(h)'
  BY <1>1, Answered
<1>4. OwnStep(h)
  BY <1>1, <1>2, <1>3, Goes DEF OwnStep, ObjectInv, RequestTypes, RowTypes, Pcs
<1> QED
  BY <1>1, <1>4, NoStore, RequestKeeps

(* What the database says of an upload, its request says.                  *)
LEMMA Decides ==
    ASSUME ObjectInv, ConstantsFit, NEW h \in Handlers, handlers[h].op = "upload",
           handlers[h].pc # "answered", NEW pc \in Pcs, Go(h, pc), HandlerOk(h)',
           NEW verdict \in {"none", "pending", "allowed", "blocked"},
           uploads' = [uploads EXCEPT ![Brought(h)] = verdict],
           verdict = "allowed" => handlers[h].pc = "allow",
           UNCHANGED <<stored, evidence, rows, personas, workers>>
    PROVE  ObjectInv'
<1>1. UploadOk(h) /\ Brought(h) \in Uploads
  BY Begun DEF UploadOk, Brought, HandlerOk, ObjectInv
<1>2. /\ uploads' \in [Uploads -> {"none", "pending", "allowed", "blocked"}]
      /\ \A u \in Uploads \ {Brought(h)} : uploads'[u] = uploads[u]
      /\ uploads'[Brought(h)] = verdict
  BY <1>1 DEF ObjectInv, RequestTypes
<1>3. \A u \in Uploads : u = Brought(h) => UploadKept(u)'
  BY <1>1, <1>2 DEF UploadOk, UploadKept, Brought, UploadObject, stored
<1>4. OwnStep(h)
  BY <1>2, <1>3, Goes DEF OwnStep, ObjectInv, RequestTypes, RowTypes, SameRow
<1> QED
  BY <1>4, NoStore, RequestKeeps

LEMMA RecordUploadKeeps ==
    ASSUME ObjectInv, ConstantsFit, NEW h \in Handlers, recordUpload(h) PROVE ObjectInv'
<1>1. /\ handlers[h].pc = "record" /\ handlers[h].op = "upload"
      /\ UNCHANGED <<registry, outbox, evidence, rows, personas, workers>>
  BY DEF recordUpload, At
<1>2. UploadOk(h) /\ Brought(h) \in Uploads /\ Target(h) = UploadObject(Brought(h))
  BY <1>1, Targets
<1>3. Private(h, Target(h)) /\ Target(h)[1] # "quarantine"
  BY <1>1, <1>2, Kinds DEF Private
<1>4. CASE Go(h, "answered") /\ UNCHANGED uploads /\ bytes' \in {bytes, bytes \ {Target(h)}}
  <2>1. StoreStep({}, {Target(h)}, {})
    BY <1>1, <1>3, <1>4, RemoveStep
  <2> QED
    BY <1>1, <1>3, <1>4, <2>1, AnsweredSame, GoKeeps DEF Pcs
<1>5. CASE Go(h, "moderate") /\ UNCHANGED bytes
           /\ uploads' = [uploads EXCEPT ![Brought(h)] = "pending"]
  <2>1. uploads'[Brought(h)] = "pending"
    BY <1>2, <1>5 DEF ObjectInv, RequestTypes
  <2>2. HandlerOk(h)'
    BY <1>1, <1>2, <1>5, <2>1, Goes DEF HandlerOk, UploadOk, Brought, UploadObject, Pcs
  <2>3. UNCHANGED stored
    BY <1>1, <1>5 DEF stored
  <2> QED
    BY <1>1, <1>5, <2>2, <2>3, Decides DEF Pcs
<1> QED
  BY <1>4, <1>5 DEF recordUpload, Brought

LEMMA RecordVerdictKeeps ==
    ASSUME ObjectInv, ConstantsFit, NEW h \in Handlers, recordVerdict(h) PROVE ObjectInv'
<1> DEFINE verdict == IF At(h, "allow") THEN "allowed" ELSE "blocked"
<1>1. /\ handlers[h].pc \in {"allow", "block"} /\ Go(h, "answered")
      /\ UNCHANGED <<stored, evidence, rows, personas, workers>>
      /\ uploads' = uploads \/ uploads' = [uploads EXCEPT ![Brought(h)] = verdict]
  BY DEF recordVerdict, Brought
<1>2. handlers[h].op = "upload"
  BY <1>1, Begun DEF SaveOk, ThumbOk
<1>3. HandlerOk(h)'
  BY <1>1, <1>2, AnsweredSame
<1>4. CASE uploads' = uploads
  BY <1>1, <1>3, <1>4, NoStore, GoKeeps DEF Pcs
<1>5. CASE uploads' = [uploads EXCEPT ![Brought(h)] = verdict]
  <2>1. verdict \in {"none", "pending", "allowed", "blocked"}
        /\ (verdict = "allowed" => handlers[h].pc = "allow")
    BY DEF At
  <2> HIDE DEF verdict
  <2> QED
    BY <1>1, <1>2, <1>3, <1>5, <2>1, Decides DEF Pcs
<1> QED
  BY <1>1, <1>4, <1>5

-----------------------------------------------------------------------------
(* The cleanup worker                                                      *)

LEMMA Unqueued ==
    ASSUME ObjectInv, ConstantsFit, NEW k \in Handlers
    PROVE  /\ handlers[k].op = "save" => SaveOk(k)
           /\ handlers[k].op = "upload" =>
                UploadOk(k) /\ UploadObject(Brought(k)) \in Objects
           /\ handlers[k].op = "save" /\ Own(k) # Nobody => Media(Own(k)) \in Objects
           /\ HandlerOk(k) /\ handlers[k] \in HandlerStates
<1>1. HandlerOk(k) /\ handlers[k] \in HandlerStates
  BY DEF ObjectInv, RequestTypes
<1> QED
  BY <1>1, Known DEF HandlerOk, HandlerStates, UploadOk, Brought, Own

(* A tick takes only what is queued, and gives back nothing.               *)
LEMMA TickKeeps ==
    ASSUME ObjectInv, ConstantsFit,
           StoreTypes', WorkerTypes', QueueInv', GoneInv', bytes' \subseteq bytes,
           \A o \in Objects :
             /\ outbox'[o] = "none" <=> outbox[o] = "none"
             /\ outbox[o] = "none" =>
                  registry'[o] = registry[o] /\ (o \in bytes => o \in bytes'),
           UNCHANGED <<content, account, evidence, handlers>>
    PROVE  ObjectInv'
<1>0. UNCHANGED <<rows, uploads, personas>>
  BY DEF content
<1>1. EvidenceInv'
  BY DEF ObjectInv, EvidenceInv, QueueInv, StoreTypes
<1>2. ASSUME NEW g \in Rows PROVE RowOk(g)'
  <2>1. RowOk(g) /\ Media(g) \in Objects
    BY Known DEF ObjectInv
  <2> QED
    BY <1>0, <2>1 DEF RowOk, Media
<1>3. ASSUME NEW u \in Uploads PROVE UploadKept(u)'
  <2>1. UploadKept(u) /\ UploadObject(u) \in Objects
    BY Known DEF ObjectInv
  <2> QED
    BY <1>0, <2>1 DEF UploadKept, UploadObject
<1>4. ASSUME NEW p \in Personas PROVE PersonaOk(p)'
  <2>1. PersonaOk(p) /\ Photos(p) \subseteq Uploads
    BY DEF ObjectInv, PersonaTypes, PersonaStates, Photos
  <2>2. \A q \in Personas : Photos(q)' = Photos(q) /\ (q \in Living' <=> q \in Living)
    BY <1>0 DEF Photos, Living
  <2> QED
    BY <1>0, <2>1, <2>2, Known DEF PersonaOk, UploadObject
<1>5. ASSUME NEW k \in Handlers PROVE HandlerOk(k)'
  <2>1. handlers[k].pc \in {"idle", "stage"} => outbox'[Scratch(k)] = "none"
    BY Unqueued, Known DEF HandlerOk
  <2>2. handlers[k].pc = "strike" => Evidence(k) \in bytes'
    BY Unqueued, Known, Kinds DEF HandlerOk, ObjectInv, QueueInv
  <2>3. handlers[k].op = "save" => SaveOk(k)'
    BY <1>0, Unqueued DEF SaveOk, Own, Saving, Media
  <2>4. handlers[k].op = "upload" => UploadOk(k)'
    BY <1>0, Unqueued DEF UploadOk, Brought, UploadObject
  <2> QED
    BY <2>1, <2>2, <2>3, <2>4, Unqueued DEF HandlerOk, ThumbOk, Scratch, Evidence
<1> QED
  BY <1>0, <1>1, <1>2, <1>3, <1>4, <1>5
     DEF ObjectInv, RequestTypes, RowTypes, PersonaTypes, OwnersInv

LEMMA ClaimKeeps ==
    ASSUME ObjectInv, ConstantsFit, NEW w \in Workers, claimDeletions(w) PROVE ObjectInv'
<1>1. PICK batch \in SUBSET Due :
        /\ outbox' = [o \in Objects |-> IF o \in batch THEN w ELSE outbox[o]]
        /\ workers' = [workers EXCEPT ![w].batch = batch, ![w].pc = "delete"]
  BY DEF claimDeletions, kSubset
<1>2. /\ UNCHANGED <<registry, bytes, content, account, evidence, handlers>>
      /\ batch \subseteq Objects /\ \A o \in batch : outbox[o] = "queued"
  BY <1>1 DEF claimDeletions, Due
<1>3. \A o \in Objects : outbox'[o] = "none" <=> outbox[o] = "none"
  BY <1>1, <1>2 DEF ConstantsFit
<1>4. /\ workers' \in [Workers -> WorkerStates] /\ \A x \in Workers \ {w} : workers'[x] = workers[x]
      /\ workers'[w].batch = batch /\ workers'[w].pc = "delete"
  BY <1>1, <1>2 DEF ObjectInv, WorkerTypes, WorkerStates
<1>5. StoreTypes' /\ QueueInv'
  BY <1>1, <1>2, <1>3 DEF ObjectInv, StoreTypes, QueueInv
<1>6. ASSUME NEW x \in Workers PROVE WorkerOk(x)'
  <2>1. WorkerOk(x) /\ workers[x] \in WorkerStates
    BY DEF ObjectInv, GoneInv, WorkerTypes
  <2>2. CASE x = w
    BY <1>2, <1>3, <1>4, <2>2 DEF WorkerOk
  <2>3. CASE x # w
    BY <1>2, <1>3, <1>4, <2>1, <2>3 DEF WorkerOk, WorkerStates
  <2> QED
    BY <2>2, <2>3
<1>7. GoneInv'
  BY <1>2, <1>6 DEF ObjectInv, GoneInv
<1> QED
  BY <1>2, <1>3, <1>4, <1>5, <1>7, TickKeeps DEF WorkerTypes

LEMMA LeaseEndsKeeps ==
    ASSUME ObjectInv, ConstantsFit, NEW o \in Objects, LeaseEnds(o) PROVE ObjectInv'
<1>1. /\ outbox[o] \in Workers /\ outbox' = [outbox EXCEPT ![o] = "queued"]
      /\ UNCHANGED <<registry, bytes, content, account, evidence, handlers, workers>>
  BY DEF LeaseEnds
<1>2. \A x \in Objects : outbox'[x] = "none" <=> outbox[x] = "none"
  BY <1>1 DEF ConstantsFit, ObjectInv, StoreTypes
<1>3. StoreTypes' /\ QueueInv'
  BY <1>1, <1>2 DEF ObjectInv, StoreTypes, QueueInv
<1>4. GoneInv'
  BY <1>1, <1>2 DEF ObjectInv, GoneInv, WorkerOk, WorkerTypes, WorkerStates
<1> QED
  BY <1>1, <1>2, <1>3, <1>4, TickKeeps DEF WorkerTypes, ObjectInv

LEMMA TickSteps ==
    ASSUME ObjectInv, ConstantsFit, NEW w \in Workers, NEW r \in WorkerStates,
           workers' = [workers EXCEPT ![w] = r],
           UNCHANGED <<registry, outbox, content, account, evidence, handlers>>,
           bytes' \subseteq bytes, \A o \in bytes \ bytes' : outbox[o] # "none",
           WorkerOk(w)'
    PROVE  ObjectInv'
<1>1. /\ workers' \in [Workers -> WorkerStates]
      /\ \A x \in Workers \ {w} : workers'[x] = workers[x] /\ WorkerOk(x)
  BY DEF ObjectInv, WorkerTypes, GoneInv
<1>2. \A x \in Workers \ {w} : WorkerOk(x)'
  BY <1>1 DEF WorkerOk
<1>3. StoreTypes' /\ QueueInv'
  BY DEF ObjectInv, StoreTypes, QueueInv
<1>4. GoneInv'
  BY <1>2 DEF ObjectInv, GoneInv
<1> QED
  BY <1>1, <1>3, <1>4, TickKeeps DEF WorkerTypes

LEMMA DeleteKeeps ==
    ASSUME ObjectInv, ConstantsFit, NEW w \in Workers,
           deleteObject(w) \/ objectExists(w) \/ WorkerDies(w)
    PROVE  ObjectInv'
<1>1. WorkerOk(w) /\ workers[w] \in WorkerStates /\ workers \in [Workers -> WorkerStates]
  BY DEF ObjectInv, GoneInv, WorkerTypes
<1>2. ASSUME NEW o \in workers[w].batch, NEW thrown \in BOOLEAN, NEW landed \in BOOLEAN,
             bytes' = IF landed THEN bytes \ {o} ELSE bytes,
             workers' = [workers EXCEPT ![w].object = o, ![w].thrown = thrown,
                                        ![w].batch = @ \ {o}, ![w].pc = "look"],
             UNCHANGED <<registry, outbox, content, account, evidence, handlers>>
      PROVE  ObjectInv'
  <2> DEFINE r == [workers[w] EXCEPT !.object = o, !.thrown = thrown, !.batch = @ \ {o}, !.pc = "look"]
  <2>1. /\ r \in WorkerStates /\ r.object = o /\ r.batch \subseteq workers[w].batch /\ r.pc = "look"
        /\ workers' = [workers EXCEPT ![w] = r]
    BY <1>1, <1>2 DEF WorkerStates
  <2>2. workers'[w] = r
    BY <1>1, <2>1
  <2> HIDE DEF r
  <2>3. outbox[o] # "none" /\ o \in Objects
    BY <1>1, <1>2 DEF WorkerOk, WorkerStates
  <2>4. WorkerOk(w)'
    BY <1>1, <1>2, <2>1, <2>2, <2>3 DEF WorkerOk
  <2> QED
    BY <1>2, <2>1, <2>3, <2>4, TickSteps
<1>3. CASE objectExists(w)
  <2>1. PICK answer \in {IF workers[w].object \in bytes THEN "present" ELSE "absent", "none"} :
          workers' = [workers EXCEPT ![w].verdict = removeAndVerify(workers[w].thrown, answer),
                                     ![w].pc = "acknowledge"]
    BY <1>3 DEF objectExists
  <2>2. workers[w].pc = "look" /\ UNCHANGED <<stored, content, account, evidence, handlers>>
    BY <1>3 DEF objectExists
  <2> DEFINE r == [workers[w] EXCEPT !.verdict = removeAndVerify(workers[w].thrown, answer),
                                     !.pc = "acknowledge"]
  <2>3. /\ r \in WorkerStates /\ r.object = workers[w].object /\ r.batch = workers[w].batch
        /\ r.pc = "acknowledge" /\ workers' = [workers EXCEPT ![w] = r]
        /\ r.verdict = "gone" => workers[w].object \notin bytes
    BY <1>1, <2>1 DEF WorkerStates, removeAndVerify
  <2>4. workers'[w] = r
    BY <1>1, <2>3
  <2> HIDE DEF r
  <2>5. WorkerOk(w)'
    BY <1>1, <2>2, <2>3, <2>4 DEF WorkerOk, stored
  <2> QED
    BY <2>2, <2>3, <2>5, TickSteps DEF stored
<1>4. CASE WorkerDies(w)
  <2>1. /\ workers' = [workers EXCEPT ![w] = Resting] /\ Resting \in WorkerStates
        /\ Resting.pc = "idle" /\ Resting.batch = {}
        /\ UNCHANGED <<stored, content, account, evidence, handlers>>
    BY <1>4 DEF WorkerDies, Resting, WorkerStates
  <2>2. WorkerOk(w)'
    BY <1>1, <2>1 DEF WorkerOk
  <2> QED
    BY <2>1, <2>2, TickSteps DEF stored
<1> QED
  BY <1>2, <1>3, <1>4 DEF deleteObject

LEMMA AcknowledgeKeeps ==
    ASSUME ObjectInv, ConstantsFit, NEW w \in Workers, acknowledge(w) PROVE ObjectInv'
<1> DEFINE o == workers[w].object
           r == IF workers[w].batch = {} THEN Resting
                ELSE [Resting EXCEPT !.batch = workers[w].batch, !.pc = "delete"]
<1>1. /\ workers[w].pc = "acknowledge" /\ workers' = [workers EXCEPT ![w] = r]
      /\ UNCHANGED <<bytes, content, account, evidence, handlers>>
      /\ completeDeletion(w, o) \/ UNCHANGED <<registry, outbox>>
  BY DEF acknowledge
<1>2. /\ workers[w] \in WorkerStates /\ workers \in [Workers -> WorkerStates]
      /\ \A x \in Workers : WorkerOk(x)
  BY DEF ObjectInv, GoneInv, WorkerTypes
<1>3. /\ o \in Objects /\ outbox[o] # "none"
      /\ workers[w].verdict = "gone" => o[1] = "thumb" \/ o \notin bytes
  BY <1>1, <1>2 DEF WorkerOk
<1>4. /\ r \in WorkerStates /\ r.pc \in {"idle", "delete"} /\ r.batch \subseteq workers[w].batch
  BY <1>2 DEF WorkerStates, Resting
<1>5. workers'[w] = r /\ \A x \in Workers \ {w} : workers'[x] = workers[x]
  BY <1>1, <1>2
<1>6. workers' \in [Workers -> WorkerStates]
  BY <1>1, <1>2, <1>4
<1> HIDE DEF r
<1>7. \/ UNCHANGED <<registry, outbox>>
      \/ /\ workers[w].verdict = "gone" /\ registry' = [registry EXCEPT ![o] = "gone"]
         /\ outbox' = [outbox EXCEPT ![o] = "done"]
      \/ outbox' = [outbox EXCEPT ![o] = "queued"] /\ UNCHANGED registry
  BY <1>1 DEF completeDeletion
<1> HIDE DEF o
<1>8. /\ StoreTypes' /\ \A x \in Objects : x # o => outbox'[x] = outbox[x] /\ registry'[x] = registry[x]
      /\ outbox'[o] # "none"
      /\ registry'[o] = registry[o] \/ (registry'[o] = "gone" /\ workers[w].verdict = "gone")
  BY <1>1, <1>3, <1>7 DEF ObjectInv, StoreTypes
<1>9. QueueInv'
  BY <1>3, <1>8 DEF ObjectInv, QueueInv, Untouched
<1>10. ASSUME NEW x \in Workers PROVE WorkerOk(x)'
  <2>1. WorkerOk(x) /\ workers[x] \in WorkerStates
    BY <1>2
  <2>2. \A y \in Objects : outbox[y] # "none" => outbox'[y] # "none"
    BY <1>8
  <2>3. CASE x = w
    BY <1>4, <1>5, <2>1, <2>2, <2>3 DEF WorkerOk, WorkerStates
  <2>4. CASE x # w
    BY <1>1, <1>5, <2>1, <2>2, <2>4 DEF WorkerOk, WorkerStates
  <2> QED
    BY <2>3, <2>4
<1>11. GoneInv'
  BY <1>1, <1>3, <1>8, <1>10 DEF ObjectInv, GoneInv
<1> QED
  BY <1>1, <1>3, <1>6, <1>8, <1>9, <1>11, TickKeeps DEF WorkerTypes

-----------------------------------------------------------------------------
(* The library, the personas and the account                               *)

(* What a step that is no request's may send to the outbox: a poster, the  *)
(* result of a row that goes with it, a photo no persona holds from now.   *)
Released(o) ==
    \/ o[1] = "thumb"
    \/ \E g \in Rows : o = Media(g) /\ rows[g].state = "done" /\ rows'[g].state = "gone"
    \/ \E u \in Uploads : o = UploadObject(u) /\ uploads[u] = "allowed"

(* A row the step changes is new, a job's, or gone from now.               *)
Moved(g) ==
    /\ RowOk(g)'
    /\ \/ rows[g].state = "none"
       \/ rows[g].busy = TRUE
       \/ rows'[g].state = "gone" /\ rows'[g].busy = FALSE

LEMMA LibraryKeeps ==
    ASSUME ObjectInv, ConstantsFit, NEW W, NEW S, StoreStep(W, {}, S), \A o \in S : Released(o),
           RowTypes', RequestTypes', PersonaTypes',
           \A g \in Rows : SameRow(g) \/ Moved(g),
           \A u \in Uploads : uploads'[u] = uploads[u] \/ uploads'[u] = "none",
           \A p \in Personas : PersonaOk(p)',
           UNCHANGED <<evidence, handlers, workers>>
    PROVE  ObjectInv'
<1>1. StoreTypes' /\ QueueInv' /\ GoneInv'
  BY StoreKeeps DEF StoreStep
<1>2. EvidenceInv'
  BY DEF ObjectInv, EvidenceInv, StoreStep
<1>3. ASSUME NEW g \in Rows, Media(g) \in S PROVE rows[g].state = "done" /\ rows'[g].state = "gone"
  BY <1>3, Kinds DEF Released
<1>4. ASSUME NEW u \in Uploads, UploadObject(u) \in S PROVE uploads[u] = "allowed"
  BY <1>4, Kinds DEF Released
<1>5. ASSUME NEW g \in Rows PROVE RowOk(g)'
  <2>1. CASE SameRow(g)
    <3>1. RowOk(g) /\ Media(g) \in Objects
      BY Known DEF ObjectInv
    <3>2. Media(g) \notin S
      BY <1>3, <2>1 DEF SameRow
    <3>3. Stays(Media(g)) /\ (Media(g) \in bytes => Media(g) \in bytes')
      BY <3>1, <3>2 DEF StoreStep
    <3> QED
      BY <2>1, <3>1, <3>3 DEF RowOk, SameRow, Stays, Media
  <2> QED
    BY <2>1 DEF Moved
<1>6. ASSUME NEW u \in Uploads PROVE UploadKept(u)'
  <2>1. UploadKept(u) /\ UploadObject(u) \in Objects
    BY Known DEF ObjectInv
  <2>2. UploadObject(u) \in bytes => UploadObject(u) \in bytes'
    BY DEF StoreStep
  <2>3. Stays(UploadObject(u)) \/ Sent(UploadObject(u))
    BY <2>1 DEF StoreStep
  <2> QED
    BY <2>1, <2>2, <2>3 DEF UploadKept, Stays, Sent, UploadObject
<1>7. ASSUME NEW k \in Handlers PROVE HandlerOk(k)'
  <2>1. handlers[k].pc \in {"idle", "stage"} => outbox'[Scratch(k)] = "none"
    <3>1. Scratch(k) \notin S
      BY Kinds DEF Released
    <3> QED
      BY <3>1, Unqueued, Known DEF HandlerOk, StoreStep, Stays
  <2>2. handlers[k].pc = "strike" => Evidence(k) \in bytes'
    BY Unqueued DEF HandlerOk, StoreStep
  <2>3. ASSUME handlers[k].op = "save" PROVE SaveOk(k)'
    <3>1. SaveOk(k) /\ handlers[k].row \in Rows \cup {Nobody}
      BY <2>3, Unqueued DEF HandlerStates
    <3>2. ASSUME handlers[k].row # Nobody PROVE SaveOk(k)'
      <4>1. Own(k) \in Rows /\ Media(Own(k)) \in Objects /\ RowOk(Own(k))
        BY <3>1, <3>2, Known DEF Own, ObjectInv
      <4>2. /\ rows'[Own(k)].busy = FALSE /\ rows'[Own(k)].state # "none"
            /\ rows[Own(k)].state \in {"pending", "gone"} => rows'[Own(k)].state \in {"pending", "gone"}
        BY <3>1, <3>2, <4>1 DEF SaveOk, Own, SameRow, Moved
      <4>3. ASSUME handlers[k].pc # "answered" PROVE Stays(Media(Own(k)))
        <5>1. Media(Own(k)) \notin S
          BY <1>3, <3>1, <3>2, <4>1, <4>3 DEF SaveOk
        <5> QED
          BY <4>1, <5>1 DEF StoreStep
      <4> QED
        BY <3>1, <3>2, <4>1, <4>2, <4>3 DEF SaveOk, Own, Saving, Media, Stays, StoreStep
    <3> QED
      BY <3>1, <3>2 DEF SaveOk
  <2>4. ASSUME handlers[k].op = "upload" PROVE UploadOk(k)'
    <3>1. UploadOk(k) /\ UploadObject(Brought(k)) \in Objects /\ Brought(k) \in Uploads
      BY <2>4, Unqueued DEF UploadOk, Brought
    <3>2. ASSUME handlers[k].pc # "answered" PROVE Stays(UploadObject(Brought(k)))
      <4>1. UploadObject(Brought(k)) \notin S
        BY <1>4, <3>1, <3>2 DEF UploadOk, Brought
      <4> QED
        BY <3>1, <4>1 DEF StoreStep
    <3>3. uploads'[Brought(k)] = uploads[Brought(k)] \/ uploads'[Brought(k)] = "none"
      BY <3>1
    <3> QED
      BY <3>1, <3>2, <3>3 DEF UploadOk, Brought, UploadObject, Stays, StoreStep
  <2> QED
    BY <2>1, <2>2, <2>3, <2>4, Unqueued DEF HandlerOk, ThumbOk, Scratch, Evidence
<1> QED
  BY <1>1, <1>2, <1>5, <1>6, <1>7 DEF ObjectInv, WorkerTypes, OwnersInv

(* Whoever holds no photo that goes keeps what it holds.                   *)
LEMMA HoldersKeep ==
    ASSUME ObjectInv, NEW S, NEW W, StoreStep(W, {}, S), NEW p \in Personas,
           Photos(p)' \subseteq Photos(p), p \in Living' \/ Photos(p)' = {},
           \A q \in Personas : Photos(q)' \subseteq Photos(q),
           \A u \in Photos(p)' : UploadObject(u) \notin S /\ uploads'[u] = uploads[u]
    PROVE  PersonaOk(p)'
<1>1. PersonaOk(p) /\ Photos(p) \subseteq Uploads
  BY DEF ObjectInv, PersonaTypes, PersonaStates, Photos
<1>2. ASSUME NEW u \in Photos(p)' PROVE uploads'[u] = "allowed" /\ outbox'[UploadObject(u)] = "none"
  <2>1. u \in Uploads /\ uploads[u] = "allowed" /\ outbox[UploadObject(u)] = "none"
    BY <1>1 DEF PersonaOk
  <2>2. Stays(UploadObject(u))
    BY <2>1, Known DEF StoreStep
  <2> QED
    BY <2>1, <2>2 DEF Stays
<1> QED
  BY <1>1, <1>2 DEF PersonaOk, UploadObject

LEMMA SamePersonas ==
    ASSUME ObjectInv, NEW S, NEW W, StoreStep(W, {}, S), UNCHANGED <<personas, uploads>>,
           \A o \in S : o[1] \in {"media", "thumb"}
    PROVE  PersonaTypes' /\ \A p \in Personas : PersonaOk(p)'
<1>1. \A q \in Personas : Photos(q)' = Photos(q) /\ (q \in Living' <=> q \in Living)
  BY DEF Photos, Living
<1>2. \A u : UploadObject(u) \notin S
  BY Kinds
<1>3. ASSUME NEW p \in Personas PROVE PersonaOk(p)'
  <2>1. p \in Living' \/ Photos(p)' = {}
    BY <1>1 DEF ObjectInv, PersonaOk
  <2> QED
    BY <1>1, <1>2, <2>1, HoldersKeep
<1> QED
  BY <1>3 DEF ObjectInv, PersonaTypes

LEMMA SubmitKeeps ==
    ASSUME ObjectInv, ConstantsFit, NEW g \in Rows, NEW video \in BOOLEAN, Submit(g, video)
    PROVE  ObjectInv'
<1>1. /\ UNCHANGED <<stored, uploads, personas, evidence, handlers, workers>>
      /\ rows[g].state = "none"
      /\ rows' = [rows EXCEPT ![g] = [NoRow EXCEPT !.state = "pending", !.video = video,
                                                   !.busy = TRUE]]
  BY DEF Submit
<1>2. /\ rows' \in [Rows -> RowStates] /\ \A f \in Rows \ {g} : rows'[f] = rows[f]
      /\ rows'[g].state = "pending" /\ rows'[g].media = FALSE
  BY <1>1 DEF ObjectInv, RowTypes, RowStates, NoRow
<1>3. outbox'[Media(g)] = "none"
  BY <1>1 DEF ObjectInv, RowOk, stored
<1>4. RowOk(g)'
  BY <1>2, <1>3 DEF RowOk, Media
<1>5. \A f \in Rows : SameRow(f) \/ Moved(f)
  BY <1>1, <1>2, <1>4 DEF SameRow, Moved
<1>6. StoreStep({}, {}, {})
  BY <1>1, NoStore
<1>7. PersonaTypes' /\ \A p \in Personas : PersonaOk(p)'
  BY <1>1, <1>6, SamePersonas
<1> QED
  BY <1>1, <1>2, <1>5, <1>6, <1>7, LibraryKeeps DEF RowTypes, RequestTypes, ObjectInv

LEMMA SettleKeeps ==
    ASSUME ObjectInv, ConstantsFit, NEW g \in Rows, NEW delivered \in BOOLEAN,
           SettleJob(g, delivered)
    PROVE  ObjectInv'
<1>1. /\ UNCHANGED <<outbox, uploads, personas, evidence, handlers, workers>>
      /\ rows[g].busy = TRUE
      /\ rows' = [rows EXCEPT ![g].busy = FALSE, ![g].media = delivered,
                              ![g].state = IF delivered THEN "done" ELSE "failed"]
  <2>1. rows[g].busy \in BOOLEAN
    BY DEF ObjectInv, RowTypes, RowStates
  <2> QED
    BY <2>1 DEF SettleJob
<1>2. /\ rows' \in [Rows -> RowStates] /\ \A f \in Rows \ {g} : rows'[f] = rows[f]
      /\ rows'[g].state = (IF delivered THEN "done" ELSE "failed")
      /\ rows'[g].media = delivered /\ rows'[g].busy = FALSE
  <2> DEFINE state == IF delivered THEN "done" ELSE "failed"
             r == [rows[g] EXCEPT !.busy = FALSE, !.media = delivered, !.state = state]
  <2>1. rows \in [Rows -> RowStates] /\ state \in {"done", "failed"}
    BY DEF ObjectInv, RowTypes
  <2>2. rows' = [rows EXCEPT ![g] = r]
    BY <1>1
  <2> HIDE DEF state
  <2>3. r \in RowStates /\ r.state = state /\ r.media = delivered /\ r.busy = FALSE
    BY <2>1 DEF RowStates
  <2> HIDE DEF r
  <2>4. /\ rows' \in [Rows -> RowStates] /\ \A f \in Rows \ {g} : rows'[f] = rows[f]
        /\ rows'[g] = r
    BY <2>1, <2>2, <2>3
  <2> QED
    BY <2>3, <2>4 DEF state
<1>3. /\ outbox[Media(g)] = "none" /\ Media(g) \in Objects
      /\ registry[Media(g)] \in {"none", "staged", "live"}
  BY <1>1, Known, Kinds DEF ObjectInv, RowOk, QueueInv, Untouched
<1>4. CASE delivered = FALSE
  <2>1. UNCHANGED stored
    BY <1>1, <1>4 DEF SettleJob, stored
  <2>2. RowOk(g)'
    BY <1>1, <1>2, <1>3, <1>4 DEF RowOk, Media
  <2>3. \A f \in Rows : SameRow(f) \/ Moved(f)
    BY <1>1, <1>2, <2>2 DEF SameRow, Moved
  <2>4. StoreStep({}, {}, {})
    BY <2>1, NoStore
  <2>5. PersonaTypes' /\ \A p \in Personas : PersonaOk(p)'
    BY <1>1, <2>4, SamePersonas
  <2> QED
    BY <1>1, <1>2, <2>3, <2>4, <2>5, LibraryKeeps DEF RowTypes, RequestTypes, ObjectInv
<1>5. CASE delivered = TRUE
  <2>1. /\ registry' = markObjectLive(registerObject(registry, Media(g)), Media(g))
        /\ bytes' = bytes \cup {Media(g)}
    BY <1>5 DEF SettleJob
  <2>2. /\ registry' \in [Objects -> {"none", "staged", "live", "delete_pending", "held", "gone"}]
        /\ registry'[Media(g)] = "live" /\ \A o \in Objects \ {Media(g)} : registry'[o] = registry[o]
    BY <1>3, <2>1, Registers DEF markObjectLive, ObjectInv, StoreTypes
  <2>3. RowOk(g)'
    BY <1>1, <1>2, <1>3, <1>5, <2>1, <2>2 DEF RowOk, Media, Usables
  <2>4. \A f \in Rows : SameRow(f) \/ Moved(f)
    BY <1>1, <1>2, <2>3 DEF SameRow, Moved
  <2>5. StoreStep({Media(g)}, {}, {})
    BY <1>1, <1>3, <2>1, <2>2
       DEF StoreStep, Stays, StoreTypes, ObjectInv, Untouched, Usables
  <2>6. PersonaTypes' /\ \A p \in Personas : PersonaOk(p)'
    BY <1>1, <2>5, SamePersonas
  <2> QED
    BY <1>1, <1>2, <2>4, <2>5, <2>6, LibraryKeeps DEF RowTypes, RequestTypes, ObjectInv
<1> QED
  BY <1>4, <1>5

(* The rows of G go, and what they name goes to the outbox.                *)
LEMMA ReapKeeps ==
    ASSUME ObjectInv, ConstantsFit, NEW G, G \subseteq Rows, \A g \in G : Reapable(g),
           enqueueDeletions(UNION {trackGenerationObjects(g) : g \in G}),
           rows' \in [Rows -> RowStates],
           \A g \in G : rows'[g] = [NoRow EXCEPT !.state = "gone"],
           \A g \in Rows \ G : rows'[g] = rows[g],
           UNCHANGED <<bytes, uploads, personas, account, evidence, handlers, workers>>
    PROVE  ObjectInv'
<1> DEFINE S == UNION {trackGenerationObjects(g) : g \in G}
<1>1. \A o \in S : \/ \E g \in G : o = Thumb(g)
                   \/ \E g \in G : o = Media(g) /\ rows[g].media
  BY DEF trackGenerationObjects
<1>2. ASSUME NEW g \in G
      PROVE  /\ rows'[g].state = "gone" /\ rows'[g].media = FALSE /\ rows'[g].busy = FALSE
             /\ (rows[g].media => rows[g].state = "done")
  <2>1. rows[g].media \in BOOLEAN /\ RowOk(g)
    BY DEF ObjectInv, RowTypes, RowStates
  <2> QED
    BY <2>1 DEF NoRow, RowOk
<1>3. ASSUME NEW o \in S
      PROVE  o \in Objects /\ o[1] \in {"media", "thumb"} /\ Released(o)
  <2>1. CASE \E g \in G : o = Thumb(g)
    BY <2>1, Known, Kinds DEF Released
  <2>2. ASSUME NEW g \in G, o = Media(g), rows[g].media
        PROVE  o \in Objects /\ o[1] \in {"media", "thumb"} /\ Released(o)
    BY <1>2, <2>2, Known, Kinds DEF Released
  <2> QED
    BY <1>1, <2>1, <2>2
<1> HIDE DEF S
<1>4. StoreStep({}, {}, S)
  BY <1>3, Enqueues DEF StoreStep, StoreTypes, ObjectInv, S
<1>5. \A g \in G : Moved(g)
  BY <1>2 DEF Moved, RowOk
<1>6. \A g \in Rows : SameRow(g) \/ Moved(g)
  BY <1>5 DEF SameRow
<1>7. PersonaTypes' /\ \A p \in Personas : PersonaOk(p)'
  BY <1>3, <1>4, SamePersonas
<1> QED
  BY <1>3, <1>4, <1>6, <1>7, LibraryKeeps DEF RowTypes, RequestTypes, ObjectInv

LEMMA DeleteGenerationKeeps ==
    ASSUME ObjectInv, ConstantsFit, fn_reap_deleted \/ \E g \in Rows : fn_delete_generation(g)
    PROVE  ObjectInv'
<1>0. rows \in [Rows -> RowStates] /\ [NoRow EXCEPT !.state = "gone"] \in RowStates
  BY DEF ObjectInv, RowTypes, RowStates, NoRow
<1>1. ASSUME NEW g \in Rows, fn_delete_generation(g), Reapable(g) PROVE ObjectInv'
  <2> DEFINE G == {g}
  <2>1. /\ UNION {trackGenerationObjects(f) : f \in G} = trackGenerationObjects(g)
        /\ rows' = [rows EXCEPT ![g] = [NoRow EXCEPT !.state = "gone"]]
        /\ enqueueDeletions(trackGenerationObjects(g))
        /\ UNCHANGED <<bytes, uploads, personas, account, evidence, handlers, workers>>
    BY <1>1 DEF fn_delete_generation
  <2>2. /\ rows' \in [Rows -> RowStates] /\ G \subseteq Rows
        /\ \A f \in G : Reapable(f) /\ rows'[f] = [NoRow EXCEPT !.state = "gone"]
        /\ \A f \in Rows \ G : rows'[f] = rows[f]
    BY <1>0, <1>1, <2>1
  <2>3. enqueueDeletions(UNION {trackGenerationObjects(f) : f \in G})
    BY <2>1
  <2> HIDE DEF G
  <2> QED
    BY <2>1, <2>2, <2>3, ReapKeeps
<1>2. ASSUME NEW g \in Rows, fn_delete_generation(g), ~Reapable(g) PROVE ObjectInv'
  <2>1. /\ rows' = [rows EXCEPT ![g].hidden = TRUE]
        /\ UNCHANGED <<stored, uploads, personas, account, evidence, handlers, workers>>
    BY <1>2 DEF fn_delete_generation, stored
  <2>2. rows' \in [Rows -> RowStates] /\ \A f \in Rows : SameRow(f)
    BY <1>0, <2>1 DEF RowStates, SameRow
  <2>3. StoreStep({}, {}, {})
    BY <2>1, NoStore
  <2>4. PersonaTypes' /\ \A p \in Personas : PersonaOk(p)'
    BY <2>1, <2>3, SamePersonas
  <2> QED
    BY <2>1, <2>2, <2>3, <2>4, LibraryKeeps DEF RowTypes, RequestTypes, ObjectInv
<1>3. CASE fn_reap_deleted
  <2>1. /\ rows' = [g \in Rows |-> IF g \in Hidden THEN [NoRow EXCEPT !.state = "gone"] ELSE rows[g]]
        /\ enqueueDeletions(UNION {trackGenerationObjects(g) : g \in Hidden})
        /\ UNCHANGED <<bytes, uploads, personas, account, evidence, handlers, workers>>
    BY <1>3 DEF fn_reap_deleted
  <2>2. Hidden \subseteq Rows /\ \A g \in Hidden : Reapable(g)
    BY DEF Hidden
  <2>3. /\ rows' \in [Rows -> RowStates]
        /\ \A g \in Hidden : rows'[g] = [NoRow EXCEPT !.state = "gone"]
        /\ \A g \in Rows \ Hidden : rows'[g] = rows[g]
    BY <1>0, <2>1, <2>2
  <2> QED
    BY <2>1, <2>2, <2>3, ReapKeeps
<1> QED
  BY <1>1, <1>2, <1>3

LEMMA PhotosTyped ==
    ASSUME ObjectInv, NEW p \in Personas
    PROVE  /\ PersonaOk(p) /\ Photos(p) \subseteq Uploads /\ personas[p] \in PersonaStates
           /\ \A u \in Photos(p) : uploads[u] = "allowed" /\ UploadObject(u) \in Objects
<1>1. PersonaOk(p) /\ personas[p] \in PersonaStates
  BY DEF ObjectInv, PersonaTypes
<1>2. Photos(p) \subseteq Uploads
  BY <1>1 DEF PersonaStates, Photos
<1> QED
  BY <1>1, <1>2, Known DEF PersonaOk

LEMMA ReserveKeeps ==
    ASSUME ObjectInv, ConstantsFit, NEW p \in Personas, fn_reserve_persona(p) PROVE ObjectInv'
<1>1. /\ personas[p].state = "none" /\ personas' = [personas EXCEPT ![p].state = "draft"]
      /\ UNCHANGED <<stored, rows, uploads, account, evidence, handlers, workers>>
  BY DEF fn_reserve_persona
<1>2. /\ personas' \in [Personas -> PersonaStates]
      /\ \A q \in Personas : personas'[q].photos = personas[q].photos
      /\ \A q \in Personas : q # p => personas'[q] = personas[q]
      /\ personas'[p].state = "draft"
  BY <1>1 DEF ObjectInv, PersonaTypes, PersonaStates
<1>3. \A q \in Personas : Photos(q)' = Photos(q) /\ (q \in Living => q \in Living') /\ p \in Living'
  BY <1>2 DEF Photos, Living
<1>4. StoreStep({}, {}, {})
  BY <1>1, NoStore
<1>5. ASSUME NEW q \in Personas PROVE PersonaOk(q)'
  <2>1. q \in Living' \/ Photos(q)' = {}
    BY <1>3, PhotosTyped DEF PersonaOk
  <2> QED
    BY <1>1, <1>3, <1>4, <2>1, HoldersKeep
<1> QED
  BY <1>1, <1>2, <1>4, <1>5, LibraryKeeps
     DEF RowTypes, RequestTypes, PersonaTypes, ObjectInv, SameRow

LEMMA DeletePersonaKeeps ==
    ASSUME ObjectInv, ConstantsFit, NEW p \in Personas, fn_delete_persona(p) PROVE ObjectInv'
<1> DEFINE S == trackPersonaObjects(p)
<1>1. /\ enqueueDeletions(S) /\ personas' = [personas EXCEPT ![p] = [NoPersona EXCEPT !.state = "gone"]]
      /\ UNCHANGED <<bytes, rows, uploads, account, evidence, handlers, workers>>
  BY DEF fn_delete_persona
<1>2. \A o \in S : \E u \in Photos(p) : o = UploadObject(u)
  BY DEF trackPersonaObjects, UploadObject
<1>3. S \subseteq Objects /\ \A o \in S : o[1] = "upload" /\ Released(o)
  BY <1>2, PhotosTyped, Kinds DEF Released
<1> HIDE DEF S
<1>4. StoreStep({}, {}, S)
  BY <1>1, <1>3, Enqueues DEF StoreStep, StoreTypes, ObjectInv
<1>5. /\ personas' \in [Personas -> PersonaStates] /\ \A q \in Personas \ {p} : personas'[q] = personas[q]
      /\ personas'[p] = [NoPersona EXCEPT !.state = "gone"]
  BY <1>1 DEF ObjectInv, PersonaTypes, PersonaStates, NoPersona
<1>6. Photos(p)' = {}
  BY <1>5 DEF Photos, NoPersona
<1>7. \A q \in Personas \ {p} : Photos(q)' = Photos(q) /\ (q \in Living => q \in Living')
  BY <1>5 DEF Photos, Living
<1>8. ASSUME NEW q \in Personas PROVE PersonaOk(q)'
  <2>1. q \in Living' \/ Photos(q)' = {}
    BY <1>6, <1>7, PhotosTyped DEF PersonaOk
  <2>2. \A u \in Photos(q)' : UploadObject(u) \notin S
    <3> SUFFICES ASSUME NEW u \in Photos(q)', UploadObject(u) \in S PROVE FALSE
      OBVIOUS
    <3>1. u \in Photos(p) /\ q # p /\ u \in Photos(q)
      BY <1>2, <1>6, <1>7, Kinds
    <3> QED
      BY <3>1, PhotosTyped DEF PersonaOk
  <2> QED
    BY <1>1, <1>4, <1>6, <1>7, <2>1, <2>2, HoldersKeep
<1> QED
  BY <1>1, <1>3, <1>4, <1>5, <1>8, LibraryKeeps
     DEF RowTypes, RequestTypes, PersonaTypes, ObjectInv, SameRow

LEMMA SetPhotoKeeps ==
    ASSUME ObjectInv, ConstantsFit, NEW p \in Personas, NEW s \in Slots, NEW u \in Uploads,
           fn_set_persona_photo(p, s, u)
    PROVE  ObjectInv'
<1> DEFINE photos == [personas[p].photos EXCEPT ![s] = u]
           state == IF \E t \in Slots : photos[t] = Nobody THEN "draft" ELSE "ready"
           S == {"upload"} \X Replaced(p, s, u)
<1>1. /\ enqueueDeletions(S) /\ personas' = [personas EXCEPT ![p] = [state |-> state, photos |-> photos]]
      /\ UNCHANGED <<bytes, rows, uploads, account, evidence, handlers, workers>>
      /\ Usable(p, u)
  BY DEF fn_set_persona_photo
<1>2. /\ photos \in [Slots -> Uploads \cup {Nobody}] /\ state \in {"draft", "ready"}
      /\ \A t \in Slots : photos[t] = IF t = s THEN u ELSE personas[p].photos[t]
  BY PhotosTyped DEF PersonaStates
<1>3. \A x \in Replaced(p, s, u) : x \in Photos(p) /\ \A t \in Slots : photos[t] # x
  BY DEF Replaced, Photos
<1>4. \A o \in S : \E x \in Replaced(p, s, u) : o = UploadObject(x)
  BY DEF UploadObject
<1> HIDE DEF photos, state, S
<1>5. S \subseteq Objects /\ \A o \in S : o[1] = "upload" /\ Released(o)
  BY <1>3, <1>4, PhotosTyped, Kinds DEF Released
<1>6. StoreStep({}, {}, S)
  BY <1>1, <1>5, Enqueues DEF StoreStep, StoreTypes, ObjectInv
<1>7. /\ personas' \in [Personas -> PersonaStates] /\ \A q \in Personas \ {p} : personas'[q] = personas[q]
      /\ personas'[p].state = state /\ personas'[p].photos = photos
  BY <1>1, <1>2 DEF ObjectInv, PersonaTypes, PersonaStates
<1>8. p \in Living' /\ \A q \in Personas \ {p} : Photos(q)' = Photos(q) /\ (q \in Living => q \in Living')
  BY <1>2, <1>7 DEF Photos, Living
<1>9. \A x \in Photos(p)' : /\ x = u \/ x \in Photos(p)
                            /\ x \notin Replaced(p, s, u)
  BY <1>2, <1>3, <1>7 DEF Photos
<1>10. uploads[u] = "allowed" /\ registry[UploadObject(u)] \in Usables
       /\ \A q \in Personas \ {p} : u \notin Photos(q)
  BY <1>1 DEF Usable, Usables, UploadObject
<1>11. outbox[UploadObject(u)] = "none"
  BY <1>10, Known DEF ObjectInv, QueueInv, Usables, Untouched
<1>12. ASSUME NEW q \in Personas, NEW x \in Photos(q)'
       PROVE  UploadObject(x) \notin S
  <2> SUFFICES ASSUME UploadObject(x) \in S PROVE FALSE
    OBVIOUS
  <2>1. x \in Replaced(p, s, u) /\ x \in Photos(p)
    BY <1>3, <1>4, Kinds
  <2>2. q # p /\ x \in Photos(q)
    BY <1>8, <1>9, <1>12, <2>1
  <2> QED
    BY <2>1, <2>2, PhotosTyped DEF PersonaOk
<1>13. ASSUME NEW q \in Personas, NEW x \in Photos(q)'
       PROVE  uploads'[x] = "allowed" /\ outbox'[UploadObject(x)] = "none"
  <2>1. x \in Uploads /\ uploads[x] = "allowed" /\ outbox[UploadObject(x)] = "none"
    BY <1>8, <1>9, <1>10, <1>11, <1>13, PhotosTyped DEF PersonaOk
  <2>2. Stays(UploadObject(x))
    BY <1>6, <1>12, <1>13, <2>1, Known DEF StoreStep
  <2> QED
    BY <1>1, <2>1, <2>2 DEF Stays
<1>14. ASSUME NEW q \in Personas, NEW r \in Personas \ {q} PROVE Photos(q)' \cap Photos(r)' = {}
  <2>1. Photos(q) \cap Photos(r) = {}
    BY PhotosTyped DEF PersonaOk
  <2> QED
    BY <1>8, <1>9, <1>10, <2>1
<1>15. ASSUME NEW q \in Personas PROVE q \in Living' \/ Photos(q)' = {}
  BY <1>8, PhotosTyped DEF PersonaOk
<1>16. \A q \in Personas : PersonaOk(q)'
  BY <1>13, <1>14, <1>15 DEF PersonaOk, UploadObject
<1> QED
  BY <1>1, <1>5, <1>6, <1>7, <1>16, LibraryKeeps
     DEF RowTypes, RequestTypes, PersonaTypes, ObjectInv, SameRow

LEMMA AdvanceKeeps ==
    ASSUME ObjectInv, ConstantsFit, advance PROVE ObjectInv'
<1> DEFINE S == ClosureObjects
           due == Deletable(registry, S)
           marked == [o \in Objects |-> IF o \in due THEN "delete_pending" ELSE registry[o]]
           final == Kept = {}
<1>1. /\ outbox' = [o \in Objects |->
                      IF o \in due /\ outbox[o] = "none" THEN "queued" ELSE outbox[o]]
      /\ registry' = [o \in Objects |->
                        IF final /\ o \in evidence /\ marked[o] # "gone" THEN "held" ELSE marked[o]]
      /\ rows' = [g \in Rows |-> IF g \in Reaped THEN [NoRow EXCEPT !.state = "gone"]
                                 ELSE IF g \in Kept THEN [rows[g] EXCEPT !.hidden = TRUE]
                                 ELSE rows[g]]
      /\ personas' = [p \in Personas |->
                        IF p \in Living THEN [NoPersona EXCEPT !.state = "gone"] ELSE personas[p]]
      /\ uploads' = uploads \/ uploads' = [u \in Uploads |-> "none"]
      /\ UNCHANGED <<bytes, evidence, handlers, workers>>
  BY DEF advance
<1>2. ASSUME NEW g \in Rows
      PROVE  /\ rows'[g] \in RowStates
             /\ g \in Reaped => rows'[g].state = "gone" /\ Moved(g)
             /\ g \notin Reaped => SameRow(g)
  <2>1. rows[g] \in RowStates
    BY DEF ObjectInv, RowTypes
  <2>2. CASE g \in Reaped
    <3>1. rows'[g] = [NoRow EXCEPT !.state = "gone"]
      BY <1>1, <2>2
    <3>2. rows'[g] \in RowStates /\ rows'[g].state = "gone" /\ rows'[g].media = FALSE
          /\ rows'[g].busy = FALSE
      BY <3>1 DEF NoRow, RowStates
    <3> QED
      BY <2>2, <3>2 DEF Moved, RowOk
  <2>3. CASE g \notin Reaped
    BY <1>1, <2>1, <2>3 DEF RowStates, SameRow
  <2> QED
    BY <2>2, <2>3
<1>3. \A o \in S : \/ \E g \in Reaped : o = Thumb(g)
                   \/ \E g \in Reaped : o = Media(g) /\ rows[g].media
                   \/ \E p \in Living : \E u \in Photos(p) : o = UploadObject(u)
  <2>1. ASSUME NEW o \in S
        PROVE  \/ \E g \in Reaped : o \in trackGenerationObjects(g)
               \/ \E p \in Living : o \in trackPersonaObjects(p)
    <3>1. \/ o \in UNION {trackGenerationObjects(g) : g \in Reaped}
          \/ o \in UNION {trackPersonaObjects(p) : p \in Living}
      BY DEF ClosureObjects
    <3> QED
      BY <3>1
  <2>2. ASSUME NEW g, NEW o \in trackGenerationObjects(g)
        PROVE  o = Thumb(g) \/ (o = Media(g) /\ rows[g].media)
    BY DEF trackGenerationObjects
  <2>3. ASSUME NEW p, NEW o \in trackPersonaObjects(p)
        PROVE  \E u \in Photos(p) : o = UploadObject(u)
    BY DEF trackPersonaObjects, UploadObject
  <2> HIDE DEF S
  <2> QED
    BY <2>1, <2>2, <2>3
<1>4. ASSUME NEW o \in S PROVE o \in Objects /\ o[1] # "quarantine" /\ Released(o)
  <2>1. CASE \E g \in Reaped : o = Thumb(g)
    BY <2>1, Known, Kinds DEF Released, Reaped
  <2>2. ASSUME NEW g \in Reaped, o = Media(g), rows[g].media
        PROVE  o \in Objects /\ o[1] # "quarantine" /\ Released(o)
    <3>1. g \in Rows /\ rows[g].media \in BOOLEAN /\ RowOk(g)
      BY DEF ObjectInv, RowTypes, RowStates, Reaped
    <3>2. rows[g].state = "done"
      BY <2>2, <3>1 DEF RowOk
    <3> QED
      BY <1>2, <2>2, <3>1, <3>2, Known, Kinds DEF Released
  <2>3. CASE \E p \in Living : \E u \in Photos(p) : o = UploadObject(u)
    BY <2>3, PhotosTyped, Kinds DEF Released, Living
  <2> QED
    BY <1>3, <2>1, <2>2, <2>3
<1>5. \A o \in Objects : o \in due <=> o \in S /\ registry[o] \notin {"gone", "held"} /\ outbox[o] # "done"
  BY DEF Deletable
<1>6. \A o \in Objects : marked[o] = IF o \in due THEN "delete_pending" ELSE registry[o]
  OBVIOUS
<1>7. \A o \in evidence : o[1] = "quarantine"
  BY DEF ObjectInv, EvidenceInv
<1> HIDE DEF S, due, marked, final
<1>8. StoreTypes'
  BY <1>1, <1>6 DEF ObjectInv, StoreTypes
<1>9. ASSUME NEW o \in Objects PROVE Stays(o) \/ (o \in S /\ Sent(o))
  <2>1. /\ outbox[o] = "none" <=> registry[o] \in Untouched
        /\ o[1] = "quarantine" => outbox[o] = "none"
    BY DEF ObjectInv, QueueInv
  <2>2. CASE o \in due
    <3>1. o \in S /\ o \notin evidence /\ registry[o] # "gone"
      BY <1>4, <1>5, <1>7, <2>2
    <3> QED
      BY <1>1, <1>6, <2>2, <3>1 DEF Sent, Untouched
  <2>3. CASE o \notin due
    BY <1>1, <1>6, <1>7, <2>1, <2>3 DEF Stays, Untouched, Usables
  <2> QED
    BY <2>2, <2>3
<1>10. StoreStep({}, {}, S)
  BY <1>1, <1>4, <1>8, <1>9 DEF StoreStep
<1>11. ASSUME NEW p \in Personas PROVE Photos(p)' = {} /\ personas'[p] \in PersonaStates
  <2>1. PersonaOk(p) /\ personas[p] \in PersonaStates
    BY PhotosTyped
  <2>2. CASE p \in Living
    <3>1. personas'[p] = [NoPersona EXCEPT !.state = "gone"]
      BY <1>1, <2>2
    <3> QED
      BY <3>1 DEF NoPersona, Photos, PersonaStates
  <2>3. CASE p \notin Living
    BY <1>1, <2>1, <2>3 DEF PersonaOk, Photos
  <2> QED
    BY <2>2, <2>3
<1>12. \A p \in Personas : PersonaOk(p)'
  BY <1>11 DEF PersonaOk
<1>13. /\ RowTypes' /\ PersonaTypes' /\ RequestTypes'
       /\ \A u \in Uploads : uploads'[u] = uploads[u] \/ uploads'[u] = "none"
  BY <1>1, <1>2, <1>11 DEF RowTypes, PersonaTypes, RequestTypes, ObjectInv
<1> QED
  BY <1>1, <1>2, <1>4, <1>10, <1>12, <1>13, LibraryKeeps

-----------------------------------------------------------------------------
(* The theorems                                                            *)

LEMMA InitObjects == ASSUME ConstantsFit PROVE Init => ObjectInv
<1> SUFFICES ASSUME Init PROVE ObjectInv
  OBVIOUS
<1>1. /\ \A o \in Objects : outbox[o] = "none"
      /\ \A o \in Objects : registry[o] = IF o \in {"upload"} \X Earlier THEN "live" ELSE "none"
      /\ bytes = {"upload"} \X Earlier /\ evidence = {}
      /\ \A h \in Handlers : handlers[h] = Ready
      /\ \A w \in Workers : workers[w] = Resting
      /\ \A g \in Rows : rows[g] = NoRow
      /\ \A u \in Uploads : uploads[u] = IF u \in Earlier THEN "allowed" ELSE "none"
      /\ \A p \in Personas : personas[p] = NoPersona
  BY DEF Init
<1>2. StoreTypes /\ RequestTypes /\ RowTypes /\ WorkerTypes /\ PersonaTypes
  <2>1. StoreTypes
    BY DEF Init, StoreTypes, Objects, ConstantsFit
  <2>2. RequestTypes
    BY DEF Init, RequestTypes, HandlerStates, Ready
  <2>3. RowTypes
    BY DEF Init, RowTypes, RowStates, NoRow
  <2>4. WorkerTypes
    BY DEF Init, WorkerTypes, WorkerStates, Resting
  <2>5. PersonaTypes
    BY DEF Init, PersonaTypes, PersonaStates, NoPersona
  <2> QED
    BY <2>1, <2>2, <2>3, <2>4, <2>5
<1>3. QueueInv /\ EvidenceInv
  BY <1>1 DEF QueueInv, EvidenceInv, Untouched
<1>4. GoneInv
  BY <1>1 DEF GoneInv, WorkerOk, Resting
<1>5. \A g \in Rows : RowOk(g)
  BY <1>1, Known DEF RowOk, NoRow
<1>6. (\A h \in Handlers : HandlerOk(h)) /\ OwnersInv
  BY <1>1, Known DEF HandlerOk, OwnersInv, Ready
<1>7. ASSUME NEW u \in Uploads PROVE UploadKept(u)
  BY <1>1, Known DEF UploadKept, UploadObject, Usables
<1>8. \A p \in Personas : Photos(p) = {}
  BY <1>1 DEF Photos, NoPersona
<1>9. \A p \in Personas : PersonaOk(p)
  BY <1>8 DEF PersonaOk
<1> QED
  BY <1>2, <1>3, <1>4, <1>5, <1>6, <1>7, <1>9 DEF ObjectInv

LEMMA ObjectsSame ==
    ASSUME ObjectInv, ConstantsFit, UNCHANGED <<stored, content, evidence, handlers, workers>>
    PROVE  ObjectInv'
<1>1. UNCHANGED <<registry, bytes, outbox, rows, uploads, personas, evidence, handlers, workers>>
  BY DEF stored, content
<1>2. StoreStep({}, {}, {})
  BY <1>1, NoStore DEF stored
<1>3. PersonaTypes' /\ \A p \in Personas : PersonaOk(p)'
  BY <1>1, <1>2, SamePersonas
<1> QED
  BY <1>1, <1>2, <1>3, LibraryKeeps DEF RowTypes, RequestTypes, ObjectInv, SameRow

LEMMA NextObjects == ASSUME ObjectInv, ConstantsFit, Next PROVE ObjectInv'
<1>1. ASSUME NEW h \in Handlers,
             \/ SaveEdit(h) \/ Import(h) \/ writeScratch(h) \/ moderateStoredImage(h)
             \/ quarantine(h) \/ quarantineFails(h) \/ recordEvidence(h)
             \/ refuseBlockedImage(h) \/ sweepScratch(h) \/ Die(h)
             \/ insertRow(h) \/ registerTarget(h) \/ putTarget(h)
             \/ recordSave(h) \/ dropStagedObject(h) \/ dropStagedRow(h)
             \/ recordThumb(h) \/ recordUpload(h) \/ recordVerdict(h)
             \/ \E u \in Uploads : Upload(h, u)
             \/ \E g \in Rows : Poster(h, g)
      PROVE  ObjectInv'
  BY <1>1, BeginKeeps, WriteScratchKeeps, ModerateKeeps, QuarantineKeeps, QuarantineFailsKeeps,
     RecordEvidenceKeeps, RefuseKeeps, SweepKeeps, DieKeeps, InsertRowKeeps, RegisterTargetKeeps,
     PutTargetKeeps, RecordSaveKeeps, DropObjectKeeps, DropRowKeeps, RecordThumbKeeps,
     RecordUploadKeeps, RecordVerdictKeeps
<1>2. ASSUME NEW w \in Workers,
             claimDeletions(w) \/ deleteObject(w) \/ objectExists(w) \/ acknowledge(w)
             \/ WorkerDies(w)
      PROVE  ObjectInv'
  BY <1>2, ClaimKeeps, DeleteKeeps, AcknowledgeKeeps
<1>3. ASSUME NEW g \in Rows, NEW yes \in BOOLEAN, Submit(g, yes) \/ SettleJob(g, yes)
      PROVE  ObjectInv'
  BY <1>3, SubmitKeeps, SettleKeeps
<1>4. ASSUME NEW p \in Personas, fn_reserve_persona(p) \/ fn_delete_persona(p) PROVE ObjectInv'
  BY <1>4, ReserveKeeps, DeletePersonaKeeps
<1>5. ASSUME NEW p \in Personas, NEW s \in Slots, NEW u \in Uploads, fn_set_persona_photo(p, s, u)
      PROVE  ObjectInv'
  BY <1>5, SetPhotoKeeps
<1>6. CASE deleteAccount \/ advanceClosure
  BY <1>6, AdvanceKeeps DEF deleteAccount, advanceClosure
<1>7. CASE deleteAuthUser \/ finishOne
  <2>1. UNCHANGED <<stored, content, evidence, handlers, workers>>
    BY <1>7 DEF deleteAuthUser, finishOne
  <2> QED
    BY <2>1, ObjectsSame
<1> QED
  BY <1>1, <1>2, <1>3, <1>4, <1>5, <1>6, <1>7, DeleteGenerationKeeps, LeaseEndsKeeps DEF Next

LEMMA ObjectInvariant == ASSUME ConstantsFit PROVE Spec => []ObjectInv
<1>1. Init => ObjectInv
  BY InitObjects
<1>2. ObjectInv /\ [Next]_objectVars => ObjectInv'
  <2>1. ASSUME ObjectInv, UNCHANGED objectVars PROVE ObjectInv'
    BY <2>1, ObjectsSame DEF objectVars, stored, content
  <2> QED
    BY <2>1, NextObjects
<1> QED
  BY <1>1, <1>2, PTL DEF Spec

(* Whatever the library shows, a persona holds or the evidence names keeps *)
(* its bytes, for any numbers of requests, rows, photos and overlapping    *)
(* cleanup ticks: what goes to the outbox is what nobody refers to.        *)
THEOREM ReferredIsKept == ASSUME ConstantsFit PROVE Spec => []ReferredHasBytes
<1>1. ObjectInv => ReferredHasBytes
  <2> SUFFICES ASSUME ObjectInv PROVE ReferredHasBytes
    OBVIOUS
  <2>1. EvidenceKept
    BY DEF ObjectInv, EvidenceInv, EvidenceKept
  <2>2. VisibleHasBytes
    BY DEF ObjectInv, RowOk, VisibleHasBytes, Usables
  <2>3. PhotosKept
    <3> SUFFICES ASSUME NEW p \in Living, NEW u \in Photos(p)
                 PROVE  <<"upload", u>> \in bytes /\ registry[<<"upload", u>>] \in {"staged", "live"}
      BY DEF PhotosKept
    <3>1. p \in Personas
      BY DEF Living
    <3>2. u \in Uploads /\ uploads[u] = "allowed" /\ outbox[UploadObject(u)] = "none"
      BY <3>1, PhotosTyped DEF PersonaOk
    <3> QED
      BY <3>2 DEF ObjectInv, UploadKept, UploadObject, Usables
  <2> QED
    BY <2>1, <2>2, <2>3 DEF ReferredHasBytes, UsedHasBytes
<1> QED
  BY <1>1, ObjectInvariant, PTL

(* What is recorded as gone is gone, however ticks overlap, die or lose    *)
(* their lease: whoever could have written it again was done with it when  *)
(* it was queued.                                                          *)
THEOREM GoneIsGone == ASSUME ConstantsFit PROVE Spec => []GoneMeansGone
<1>1. ObjectInv => GoneMeansGone
  BY DEF ObjectInv, GoneInv, GoneMeansGone
<1> QED
  BY <1>1, ObjectInvariant, PTL
=============================================================================
