--------------------------- MODULE PhonebookProofs ---------------------------
(***************************************************************************)
(* Theorems about Phonebook for every number of entries, every set of      *)
(* numbers and every phone_normalize; and about PhonebookPreempt: a task   *)
(* that no web request interrupts implements Book, and so keeps the book   *)
(* sound.  Both rest on what the changes make of one image of the book.    *)
(***************************************************************************)
EXTENDS Phonebook, PhonebookPreempt, TLAPS

(* One image of the phonebook *)

(* A book without a torn save has no phantom and, when in use, an            *)
(* administrator; a torn one has a phantom.                                  *)
GoodBook(pb) ==
    /\ \A i \in Slots : pb[i].number # Phantom
    /\ Used(pb) # {} => Admins(pb) # {}

HasPhantom(pb) == \E i \in Slots : pb[i].number = Phantom

Unique(pb) ==
    \A i, j \in Slots :
        pb[i].number = pb[j].number /\ pb[i].number \in Numbers => i = j

(* What a command saves: the images keep the number of every other entry.    *)
Keeps(pb, saved) ==
    /\ saved \in Image
    /\ Unique(pb) => Unique(saved)
    /\ GoodBook(pb) => GoodBook(saved)
    /\ HasPhantom(pb) => HasPhantom(saved)

(* A new number, in the first free entry: an administrator if it is the first. *)
LEMMA AddedKeeps ==
    ASSUME NEW pb \in Image, NEW n \in Numbers, ~phonebook_exists(pb, n),
           NEW saved \in Added(pb, n)
    PROVE  Keeps(pb, saved) /\ Used(saved) # {}
  <1>1. PICK i \in FirstOf(Free(pb)) :
            saved = [pb EXCEPT ![i] = [number |-> n, isAdmin |-> (Used(pb) = {})]]
    BY DEF Added
  <1>2. i \in Slots /\ pb[i].number = NoNumber
    BY DEF FirstOf, Free
  <1>3. /\ \A j \in Slots : j # i => saved[j] = pb[j]
        /\ saved[i] = [number |-> n, isAdmin |-> (Used(pb) = {})]
    BY <1>1, <1>2 DEF Image
  <1>4. n # NoNumber /\ n # Phantom
    BY ImageAssumption
  <1>5. saved \in Image
    <2>1. [number |-> n, isAdmin |-> (Used(pb) = {})] \in Entry
      BY DEF Entry
    <2> QED  BY <1>1, <1>2, <2>1 DEF Image
  <1>6. Unique(pb) => Unique(saved)
    BY <1>2, <1>3 DEF Unique, phonebook_exists, SlotsOf
  <1>7. GoodBook(pb) => GoodBook(saved)
    <2> SUFFICES ASSUME GoodBook(pb) PROVE GoodBook(saved)
      OBVIOUS
    <2>1. \A j \in Slots : saved[j].number # Phantom
      BY <1>3, <1>4 DEF GoodBook
    <2>2. CASE Used(pb) = {}
      <3>1. (Used(pb) = {}) = TRUE
        BY <2>2
      <3>2. saved[i] = [number |-> n, isAdmin |-> TRUE]
        BY <1>3, <3>1, Zenon
      <3>3. i \in Admins(saved)
        BY <1>2, <1>4, <3>2 DEF Used, Admins
      <3> QED  BY <2>1, <3>3 DEF GoodBook
    <2>3. CASE Used(pb) # {}
      <3>1. PICK a \in Admins(pb) : TRUE
        BY <2>3 DEF GoodBook
      <3>2. a # i /\ saved[a] = pb[a]
        BY <1>2, <1>3, <3>1 DEF Admins, Used
      <3> QED  BY <2>1, <3>1, <3>2 DEF GoodBook, Admins, Used
    <2> QED  BY <2>2, <2>3
  <1>8. HasPhantom(pb) => HasPhantom(saved)
    BY <1>2, <1>3, ImageAssumption DEF HasPhantom
  <1>9. Used(saved) # {}
    BY <1>2, <1>3, <1>4 DEF Used
  <1> QED
    BY <1>5, <1>6, <1>7, <1>8, <1>9 DEF Keeps

(* Any number but that of the last administrator may be removed.             *)
LEMMA RemovedKeeps ==
    ASSUME NEW pb \in Image, NEW n \in Numbers,
           ~(phonebook_is_admin(pb, n) /\ AtMostOneAdmin(pb)),
           NEW saved \in Removed(pb, n)
    PROVE  /\ Keeps(pb, saved)
           /\ GoodBook(pb) \/ HasPhantom(pb) => Used(saved) # {} \/ Used(pb) = {}
  <1>1. PICK i \in FirstOf(SlotsOf(pb, n)) : saved = [pb EXCEPT ![i] = FreeEntry]
    BY DEF Removed
  <1>2. i \in Slots /\ pb[i].number = n
    BY DEF FirstOf, SlotsOf
  <1>3. /\ \A j \in Slots : j # i => saved[j] = pb[j]
        /\ saved[i] = FreeEntry
    BY <1>1, <1>2 DEF Image
  <1>4. n # NoNumber /\ n # Phantom /\ NoNumber \notin Numbers
    BY ImageAssumption
  <1>5. saved \in Image
    <2>1. FreeEntry \in Entry
      BY DEF Entry, FreeEntry
    <2> QED  BY <1>1, <1>2, <2>1 DEF Image
  <1>6. Unique(pb) => Unique(saved)
    BY <1>3, <1>4 DEF Unique, FreeEntry
  <1>7. ASSUME GoodBook(pb), Used(saved) # {} \/ Used(pb) # {}
        PROVE  Admins(saved) # {}
    <2>1. PICK a \in Admins(pb) : TRUE
      BY <1>2, <1>3, <1>4, <1>7 DEF GoodBook, Used, FreeEntry
    <2>2. CASE pb[i].isAdmin
      <3>1. ~AtMostOneAdmin(pb)
        BY <1>1, <2>2 DEF phonebook_is_admin
      <3>2. PICK b \in Admins(pb) : b # i
        BY <3>1 DEF AtMostOneAdmin
      <3> QED  BY <1>3, <3>2 DEF Admins, Used
    <2>3. CASE ~pb[i].isAdmin
      <3>1. a # i
        BY <2>1, <2>3 DEF Admins
      <3> QED  BY <1>3, <2>1, <3>1 DEF Admins, Used
    <2> QED  BY <2>2, <2>3
  <1>8. GoodBook(pb) => GoodBook(saved)
    BY <1>3, <1>7, ImageAssumption DEF GoodBook, FreeEntry
  <1>9. ASSUME HasPhantom(pb) PROVE HasPhantom(saved) /\ Used(saved) # {}
    <2>1. PICK j \in Slots : pb[j].number = Phantom
      BY <1>9 DEF HasPhantom
    <2>2. saved[j] = pb[j]
      BY <1>2, <1>3, <1>4, <2>1
    <2> QED  BY <2>1, <2>2, ImageAssumption DEF HasPhantom, Used
  <1>10. Admins(saved) \subseteq Used(saved)
    BY DEF Admins
  <1> QED
    BY <1>5, <1>6, <1>7, <1>8, <1>9, <1>10 DEF Keeps

(* Any number but that of the last administrator may be demoted.             *)
LEMMA AdminSetKeeps ==
    ASSUME NEW pb \in Image, NEW n \in Numbers, NEW isAdmin \in BOOLEAN,
           isAdmin \/ ~(phonebook_is_admin(pb, n) /\ AtMostOneAdmin(pb)),
           NEW saved \in AdminSet(pb, n, isAdmin)
    PROVE  Keeps(pb, saved) /\ Used(saved) = Used(pb)
  <1>1. PICK i \in FirstOf(SlotsOf(pb, n)) : saved = [pb EXCEPT ![i].isAdmin = isAdmin]
    BY DEF AdminSet
  <1>2. i \in Slots /\ pb[i].number = n
    BY DEF FirstOf, SlotsOf
  <1>3. /\ \A j \in Slots : j # i => saved[j] = pb[j]
        /\ saved[i] = [pb[i] EXCEPT !.isAdmin = isAdmin]
        /\ saved \in Image
    BY <1>1, <1>2 DEF Image, Entry
  <1>4. saved[i].number = n /\ saved[i].isAdmin = isAdmin
    BY <1>2, <1>3 DEF Image, Entry
  <1>5. \A j \in Slots : saved[j].number = pb[j].number
    BY <1>2, <1>3, <1>4
  <1>6. Used(saved) = Used(pb)
    BY <1>5 DEF Used
  <1>7. Unique(pb) => Unique(saved)
    BY <1>5 DEF Unique
  <1>8. HasPhantom(pb) => HasPhantom(saved)
    BY <1>5 DEF HasPhantom
  <1>9. ASSUME Admins(pb) # {} PROVE Admins(saved) # {}
    <2>1. i \in Used(saved)
      BY <1>2, <1>4, ImageAssumption DEF Used
    <2>2. CASE isAdmin
      BY <1>4, <2>1, <2>2 DEF Admins
    <2>3. CASE ~isAdmin
      <3>1. CASE pb[i].isAdmin
        <4>1. ~AtMostOneAdmin(pb)
          BY <1>1, <2>3, <3>1 DEF phonebook_is_admin
        <4>2. PICK b \in Admins(pb) : b # i
          BY <4>1 DEF AtMostOneAdmin
        <4> QED  BY <1>3, <1>6, <4>2 DEF Admins, Used
      <3>2. CASE ~pb[i].isAdmin
        <4>1. PICK a \in Admins(pb) : a # i
          BY <1>9, <3>2 DEF Admins
        <4> QED  BY <1>3, <1>6, <4>1 DEF Admins, Used
      <3> QED  BY <3>1, <3>2
    <2> QED  BY <2>2, <2>3
  <1>10. GoodBook(pb) => GoodBook(saved)
    BY <1>5, <1>6, <1>9 DEF GoodBook
  <1> QED
    BY <1>3, <1>6, <1>7, <1>8, <1>10 DEF Keeps

(* The book of a new device.                                                *)
LEMMA EmptyGood == EmptyImage \in Image /\ Unique(EmptyImage) /\ GoodBook(EmptyImage)
  <1>1. EmptyImage \in Image
    BY DEF EmptyImage, FreeEntry, Image, Entry
  <1>2. \A i \in Slots : EmptyImage[i].number = NoNumber
    BY DEF EmptyImage, FreeEntry
  <1>3. Used(EmptyImage) = {}
    BY <1>2 DEF Used
  <1> QED
    BY <1>1, <1>2, <1>3, ImageAssumption DEF Unique, GoodBook

-----------------------------------------------------------------------------
(* Phonebook *)

(* The sector is erased or holds a book, also while the power is off; a book *)
(* without a torn save has no phantom and, when in use, an administrator; a  *)
(* torn one has a phantom, which no command removes.                         *)
Inv ==
    /\ TypeOK
    /\ flash = Erased => intact
    /\ flash # Erased => Unique(flash)
    /\ flash # Erased /\ intact => GoodBook(flash)
    /\ flash # Erased /\ ~intact => HasPhantom(flash)

-----------------------------------------------------------------------------
(* How a command ends, seen by the invariant. *)

(* Nothing but the record of the command changes. *)
BookKept == UNCHANGED <<flash, power, intact>> /\ done' \in [cmd : Command, err : Errors, log : SUBSET LogEntry]

(* A save that keeps the book good is completed or cut off by a power loss.  *)
BookSaved ==
    \E pb :
        /\ Keeps(flash, pb)
        /\ GoodBook(flash) \/ HasPhantom(flash) => Used(pb) # {} \/ Used(flash) = {}
        /\ done' \in [cmd : Command, err : Errors, log : SUBSET LogEntry]
        /\ \/ flash' = pb /\ UNCHANGED <<power, intact>>
           \/ flash' = Erased /\ intact' = TRUE /\ power' = "off"
           \/ flash' = Torn(pb) /\ intact' = FALSE /\ power' = "off"

LEMMA NothingDoneType == NothingDone \in [cmd : Command, err : Errors, log : SUBSET LogEntry]
  BY PhonebookAssumption DEF NothingDone, Command, Errors, Sources

LEMMA LoggedType ==
    ASSUME NEW event \in {"INIT", "ADD", "DEL", "PROMOTE", "DEMOTE"},
           NEW text \in Texts, NEW status \in BOOLEAN
    PROVE  {Logged(event, text, status)} \in SUBSET LogEntry
  BY DEF Logged, LogEntry

LEMMA RefuseKeeps ==
    ASSUME NEW cmd \in Command, NEW err \in Errors, NEW log \in SUBSET LogEntry,
           Refuse(cmd, err, log)
    PROVE  BookKept
  BY DEF Refuse, BookKept

LEMMA SaveKeeps ==
    ASSUME NEW cmd \in Command, NEW log \in SUBSET LogEntry, NEW images,
           \A pb \in images :
               /\ Keeps(flash, pb)
               /\ GoodBook(flash) \/ HasPhantom(flash) => Used(pb) # {} \/ Used(flash) = {},
           Save(cmd, images, log)
    PROVE  BookSaved
  <1>1. "OK" \in Errors
    BY DEF Errors
  <1> QED
    BY <1>1, NothingDoneType DEF Save, BookSaved

(* Every command keeps the book or saves one that is as good. *)
BookDone == BookKept \/ BookSaved

LEMMA AddDone ==
    ASSUME Inv, power = "on", NEW cmd \in Command, NEW text \in Texts,
           task_add_user(cmd, text)
    PROVE  BookDone
  <1>1. Norm[text] \in Numbers \cup {Invalid} /\ Numbers \subseteq Texts
    BY PhonebookAssumption
  <1>2. flash \in Image
    BY DEF Inv, TypeOK
  <1>3. ASSUME NEW err \in {"INVALID_NUMBER", "NUMBER_ALREADY_EXISTS", "FULL"},
               Refuse(cmd, err, {Logged("ADD", text, FALSE)})
        PROVE  BookDone
    <2>1. {Logged("ADD", text, FALSE)} \in SUBSET LogEntry
      BY LoggedType
    <2> QED  BY <1>3, <2>1, RefuseKeeps DEF Errors, BookDone
  <1>4. ASSUME Norm[text] # Invalid, ~phonebook_exists(flash, Norm[text]),
               Save(cmd, Added(flash, Norm[text]), {Logged("ADD", Norm[text], TRUE)})
        PROVE  BookDone
    <2>1. \A pb \in Added(flash, Norm[text]) : Keeps(flash, pb) /\ Used(pb) # {}
      BY <1>1, <1>2, <1>4, AddedKeeps
    <2>2. {Logged("ADD", Norm[text], TRUE)} \in SUBSET LogEntry
      BY <1>1, <1>4, LoggedType
    <2> QED  BY <1>4, <2>1, <2>2, SaveKeeps DEF BookDone
  <1> QED
    BY <1>3, <1>4 DEF task_add_user

LEMMA DeleteDone ==
    ASSUME Inv, power = "on", NEW cmd \in Command, NEW text \in Texts,
           NEW failed \in SUBSET LogEntry, task_delete_user(cmd, text, failed)
    PROVE  BookDone
  <1>1. Norm[text] \in Numbers \cup {Invalid} /\ Numbers \subseteq Texts
    BY PhonebookAssumption
  <1>2. flash \in Image
    BY DEF Inv, TypeOK
  <1>3. ASSUME NEW err \in {"INVALID_NUMBER", "LAST_ADMIN"}, Refuse(cmd, err, failed)
        PROVE  BookDone
    BY <1>3, RefuseKeeps DEF Errors, BookDone
  <1>4. ASSUME Norm[text] # Invalid,
               Refuse(cmd, "NUMBER_NOT_FOUND", {Logged("DEL", Norm[text], FALSE)})
        PROVE  BookDone
    BY <1>1, <1>4, RefuseKeeps, LoggedType DEF Errors, BookDone
  <1>5. ASSUME Norm[text] # Invalid, ~LastAdmin(Norm[text]),
               Save(cmd, Removed(flash, Norm[text]), {Logged("DEL", Norm[text], TRUE)})
        PROVE  BookDone
    <2>1. \A pb \in Removed(flash, Norm[text]) :
              /\ Keeps(flash, pb)
              /\ GoodBook(flash) \/ HasPhantom(flash) => Used(pb) # {} \/ Used(flash) = {}
      BY <1>1, <1>2, <1>5, RemovedKeeps DEF LastAdmin
    <2>2. {Logged("DEL", Norm[text], TRUE)} \in SUBSET LogEntry
      BY <1>1, <1>5, LoggedType
    <2> QED  BY <1>5, <2>1, <2>2, SaveKeeps DEF BookDone
  <1> QED
    BY <1>3, <1>4, <1>5 DEF task_delete_user

LEMMA PromoteDone ==
    ASSUME Inv, power = "on", NEW cmd \in Command, NEW text \in Texts,
           task_promote_user(cmd, text)
    PROVE  BookDone
  <1>1. Norm[text] \in Numbers \cup {Invalid} /\ Numbers \subseteq Texts
    BY PhonebookAssumption
  <1>2. flash \in Image
    BY DEF Inv, TypeOK
  <1>3. ASSUME NEW err \in {"INVALID_NUMBER", "ALREADY_ADMIN"}, Refuse(cmd, err, {})
        PROVE  BookDone
    BY <1>3, RefuseKeeps DEF Errors, BookDone
  <1>4. ASSUME Norm[text] # Invalid,
               Refuse(cmd, "NUMBER_NOT_FOUND", {Logged("PROMOTE", Norm[text], FALSE)})
        PROVE  BookDone
    BY <1>1, <1>4, RefuseKeeps, LoggedType DEF Errors, BookDone
  <1>5. ASSUME Norm[text] # Invalid,
               Save(cmd, AdminSet(flash, Norm[text], TRUE), {Logged("PROMOTE", Norm[text], TRUE)})
        PROVE  BookDone
    <2>1. \A pb \in AdminSet(flash, Norm[text], TRUE) :
              Keeps(flash, pb) /\ Used(pb) = Used(flash)
      BY <1>1, <1>2, <1>5, AdminSetKeeps
    <2>2. {Logged("PROMOTE", Norm[text], TRUE)} \in SUBSET LogEntry
      BY <1>1, <1>5, LoggedType
    <2> QED  BY <1>5, <2>1, <2>2, SaveKeeps DEF BookDone
  <1> QED
    BY <1>3, <1>4, <1>5 DEF task_promote_user

LEMMA DemoteDone ==
    ASSUME Inv, power = "on", NEW cmd \in Command, NEW text \in Texts,
           task_demote_user(cmd, text)
    PROVE  BookDone
  <1>1. Norm[text] \in Numbers \cup {Invalid} /\ Numbers \subseteq Texts
    BY PhonebookAssumption
  <1>2. flash \in Image
    BY DEF Inv, TypeOK
  <1>3. ASSUME NEW err \in {"INVALID_NUMBER", "NOT_YOURSELF", "NOT_ADMIN", "LAST_ADMIN"},
               Refuse(cmd, err, {})
        PROVE  BookDone
    BY <1>3, RefuseKeeps DEF Errors, BookDone
  <1>5. ASSUME Norm[text] # Invalid, ~LastAdmin(Norm[text]),
               Save(cmd, AdminSet(flash, Norm[text], FALSE), {Logged("DEMOTE", Norm[text], TRUE)})
        PROVE  BookDone
    <2>1. \A pb \in AdminSet(flash, Norm[text], FALSE) :
              Keeps(flash, pb) /\ Used(pb) = Used(flash)
      BY <1>1, <1>2, <1>5, AdminSetKeeps DEF LastAdmin
    <2>2. {Logged("DEMOTE", Norm[text], TRUE)} \in SUBSET LogEntry
      BY <1>1, <1>5, LoggedType
    <2> QED  BY <1>5, <2>1, <2>2, SaveKeeps DEF BookDone
  <1> QED
    BY <1>3, <1>5 DEF task_demote_user

LEMMA SwapDone ==
    ASSUME Inv, power = "on", NEW cmd \in Command, NEW text \in Texts,
           task_swap_admin(cmd, text)
    PROVE  BookDone
  <1>1. Norm[text] # Invalid => Norm[text] \in Texts
    BY PhonebookAssumption
  <1>2. CASE Refuse(cmd, "INVALID_NUMBER", {})
    BY <1>2, RefuseKeeps DEF Errors, BookDone
  <1> QED
    BY <1>1, <1>2, DemoteDone, PromoteDone DEF task_swap_admin

LEMMA InitDone ==
    ASSUME Inv, power = "on", NEW cmd \in Command, cmd_init(cmd)
    PROVE  BookDone
  <1>1. /\ cmd.sender \in Texts /\ Numbers \subseteq Texts
        /\ Norm[cmd.sender] \in Numbers \cup {Invalid}
    BY PhonebookAssumption DEF Command
  <1>2. flash \in Image
    BY DEF Inv, TypeOK
  <1>3. ASSUME NEW err \in {"ONLY_VIA_SMS", "ALREADY_INITIALIZED"}, Refuse(cmd, err, {})
        PROVE  BookDone
    BY <1>3, RefuseKeeps DEF Errors, BookDone
  <1>4. CASE Refuse(cmd, "INVALID_NUMBER", {Logged("INIT", cmd.sender, FALSE)})
    BY <1>1, <1>4, RefuseKeeps, LoggedType DEF Errors, BookDone
  <1>5. ASSUME Used(flash) = {}, Norm[cmd.sender] # Invalid,
               Save(cmd, Added(flash, Norm[cmd.sender]), {Logged("INIT", Norm[cmd.sender], TRUE)})
        PROVE  BookDone
    <2>1. ~phonebook_exists(flash, Norm[cmd.sender])
      BY <1>1, <1>5, ImageAssumption DEF phonebook_exists, SlotsOf, Used
    <2>2. \A pb \in Added(flash, Norm[cmd.sender]) : Keeps(flash, pb) /\ Used(pb) # {}
      BY <1>1, <1>2, <1>5, <2>1, AddedKeeps
    <2>3. {Logged("INIT", Norm[cmd.sender], TRUE)} \in SUBSET LogEntry
      BY <1>1, <1>5, LoggedType
    <2> QED  BY <1>5, <2>2, <2>3, SaveKeeps DEF BookDone
  <1> QED
    BY <1>3, <1>4, <1>5 DEF cmd_init

LEMMA DelDone ==
    ASSUME Inv, power = "on", NEW cmd \in Command, cmd_del(cmd)
    PROVE  BookDone
  <1>1. Normalized(cmd.arg) \subseteq Texts
    BY PhonebookAssumption DEF Normalized, Command
  <1>2. CASE Refuse(cmd, "OWN_NUMBER", {})
    BY <1>2, RefuseKeeps DEF Errors, BookDone
  <1>3. ASSUME NEW text \in Texts,
               task_delete_user(cmd, text, {Logged("DEL", text, FALSE)})
        PROVE  BookDone
    BY <1>3, LoggedType, DeleteDone
  <1> QED
    BY <1>1, <1>2, <1>3 DEF cmd_del

LEMMA CommandDone ==
    ASSUME Inv, power = "on", NEW cmd \in Command, process_command(cmd)
    PROVE  BookDone
  <1>1. cmd.arg \in Texts
    BY DEF Command
  <1>2. CASE Refuse(cmd, "DENIED", {})
    BY <1>2, RefuseKeeps DEF Errors, BookDone
  <1> QED
    BY <1>1, <1>2, InitDone, AddDone, DelDone, PromoteDone, DemoteDone
       DEF process_command

-----------------------------------------------------------------------------
(* The invariant *)

LEMMA TornPhantom ==
    ASSUME NEW pb \in Image
    PROVE  Torn(pb) \in Image /\ HasPhantom(Torn(pb)) /\ (Unique(pb) => Unique(Torn(pb)))
  <1>1. Torn(pb) \in Image
    <2>1. /\ [number |-> NoNumber, isAdmin |-> TRUE] \in Entry
          /\ [number |-> Phantom, isAdmin |-> TRUE] \in Entry
      BY DEF Entry
    <2>2. \A i \in Slots : pb[i] \in Entry
      BY DEF Image
    <2> QED  BY <2>1, <2>2 DEF Torn, Image
  <1>2. HasPhantom(Torn(pb))
    <2>1. /\ MAX_PHONES \in Slots
          /\ ~(MAX_PHONES <= PageSlots) /\ MAX_PHONES # PageSlots + 1
      BY ImageAssumption, PhonebookAssumption DEF Slots
    <2>2. Torn(pb)[MAX_PHONES] = [number |-> Phantom, isAdmin |-> TRUE]
      BY <2>1 DEF Torn
    <2> QED  BY <2>1, <2>2 DEF HasPhantom
  <1>3. \A i \in Slots : Torn(pb)[i] = pb[i] \/ Torn(pb)[i].number \notin Numbers
    BY ImageAssumption DEF Torn
  <1>4. Unique(pb) => Unique(Torn(pb))
    BY <1>3 DEF Unique
  <1> QED
    BY <1>1, <1>2, <1>4

LEMMA BookDoneInv == ASSUME Inv, power = "on", BookDone PROVE Inv'
  <1>1. flash \in Image /\ flash # Erased
    BY PhonebookAssumption DEF Inv, TypeOK
  <1>2. CASE BookKept
    BY <1>1, <1>2 DEF Inv, TypeOK, BookKept
  <1>3. CASE BookSaved
    <2>1. PICK pb :
            /\ Keeps(flash, pb)
            /\ done' \in [cmd : Command, err : Errors, log : SUBSET LogEntry]
            /\ \/ flash' = pb /\ UNCHANGED <<power, intact>>
               \/ flash' = Erased /\ intact' = TRUE /\ power' = "off"
               \/ flash' = Torn(pb) /\ intact' = FALSE /\ power' = "off"
      BY <1>3 DEF BookSaved
    <2>0. Unique(flash) /\ (intact => GoodBook(flash)) /\ (~intact => HasPhantom(flash))
      BY <1>1 DEF Inv
    <2>2. pb \in Image /\ Unique(pb) /\ pb # Erased
      BY <1>1, <2>1, PhonebookAssumption DEF Keeps, Inv
    <2>3. CASE flash' = pb /\ UNCHANGED <<power, intact>>
      <3>1. TypeOK'
        BY <1>1, <2>1, <2>2, <2>3 DEF Inv, TypeOK
      <3>2. (intact => GoodBook(pb)) /\ (~intact => HasPhantom(pb))
        BY <2>0, <2>1 DEF Keeps
      <3> QED  BY <2>2, <2>3, <3>1, <3>2, Zenon DEF Inv
    <2>4. CASE flash' = Erased /\ intact' = TRUE /\ power' = "off"
      BY <2>1, <2>4 DEF Inv, TypeOK
    <2>5. CASE flash' = Torn(pb) /\ intact' = FALSE /\ power' = "off"
      BY <2>1, <2>2, <2>5, TornPhantom, PhonebookAssumption DEF Inv, TypeOK
    <2> QED
      BY <2>1, <2>3, <2>4, <2>5
  <1> QED
    BY <1>2, <1>3 DEF BookDone

LEMMA NextDone == ASSUME Inv, CommandGiven \/ WebRequest PROVE power = "on" /\ BookDone
  <1>1. power = "on"
    BY DEF CommandGiven, WebRequest
  <1>2. \A word \in {"INIT", "ADD", "DEL", "PROMOTE", "DEMOTE", "SWAP"},
           source \in Sources, sender \in Texts, arg \in Texts :
            Typed(word, source, sender, arg) \in Command
    BY DEF Typed, Command
  <1>3. NoDigits \in Texts /\ Senders \subseteq Texts
    BY PhonebookAssumption
  <1>4. CASE CommandGiven
    <2>1. PICK word \in {"INIT", "ADD", "DEL", "PROMOTE", "DEMOTE"}, arg \in Texts,
               source \in Sources, sender \in Texts :
                   process_command(Typed(word, source, sender, arg))
      BY <1>3, <1>4 DEF CommandGiven, Sources
    <2> QED  BY <1>1, <1>2, <2>1, CommandDone
  <1>5. CASE WebRequest
    <2>1. PICK nr \in Texts :
            \/ task_add_user(Typed("ADD", "wifi", NoDigits, nr), nr)
            \/ task_delete_user(Typed("DEL", "wifi", NoDigits, nr), nr, {})
            \/ task_swap_admin(Typed("SWAP", "wifi", NoDigits, nr), nr)
      BY <1>5 DEF WebRequest
    <2>2. \A word \in {"ADD", "DEL", "SWAP"} : Typed(word, "wifi", NoDigits, nr) \in Command
      BY <1>2, <1>3 DEF Sources
    <2> QED  BY <1>1, <2>1, <2>2, AddDone, DeleteDone, SwapDone
  <1> QED
    BY <1>1, <1>4, <1>5

LEMMA InvStep == Inv /\ [Next]_vars => Inv'
  <1> SUFFICES ASSUME Inv, [Next]_vars PROVE Inv'
    OBVIOUS
  <1>1. CASE CommandGiven \/ WebRequest
    BY <1>1, NextDone, BookDoneInv
  <1>2. CASE PowerLoss
    BY <1>2, NothingDoneType DEF PowerLoss, Inv, TypeOK
  <1>3. CASE Boot
    <2>1. CASE flash # Erased /\ power' = "on" /\ UNCHANGED <<flash, intact, done>>
      BY <2>1 DEF Inv, TypeOK
    <2>2. CASE flash = Erased /\ flash' = EmptyImage /\ power' = "on" /\ UNCHANGED <<intact, done>>
      <3>1. flash' \in Image /\ flash' # Erased /\ Unique(flash') /\ GoodBook(flash')
        BY <2>2, EmptyGood, PhonebookAssumption
      <3>2. intact /\ intact'
        BY <2>2 DEF Inv
      <3>3. TypeOK'
        BY <2>2, <3>1 DEF Inv, TypeOK
      <3> QED  BY <3>1, <3>2, <3>3 DEF Inv
    <2>3. CASE flash' = Torn(EmptyImage) /\ intact' = FALSE /\ UNCHANGED <<power, done>>
      <3>1. flash' \in Image /\ HasPhantom(flash') /\ Unique(flash')
        BY <2>3, EmptyGood, TornPhantom
      <3> QED  BY <1>3, <2>3, <3>1, PhonebookAssumption DEF Boot, Inv, TypeOK
    <2> QED
      BY <1>3, <2>1, <2>2, <2>3 DEF Boot
  <1>4. CASE UNCHANGED vars
    BY <1>4 DEF vars, Inv, TypeOK
  <1> QED
    BY <1>1, <1>2, <1>3, <1>4 DEF Next

LEMMA InvInit == Init => Inv
  BY NothingDoneType DEF Init, Inv, TypeOK

LEMMA InvHolds == Spec => []Inv
  BY InvInit, InvStep, PTL DEF Spec

(* The sector holds a book whenever the firmware runs.                       *)
THEOREM TypeCorrect == Spec => []TypeOK
  <1>1. Inv => TypeOK
    BY DEF Inv
  <1> QED
    BY <1>1, InvHolds, PTL

(* No number is in the book twice, power losses included.                    *)
THEOREM NumbersUnique == Spec => []UniqueNumbers
  <1>1. Inv => UniqueNumbers
    BY PhonebookAssumption DEF Inv, TypeOK, Unique, UniqueNumbers
  <1> QED
    BY <1>1, InvHolds, PTL

(* A book in use has an administrator, unless a save was torn.               *)
THEOREM AdminKept == Spec => []AdminExists
  <1>1. Inv => AdminExists
    <2> SUFFICES ASSUME Inv, power = "on", intact, Used(flash) # {}
                 PROVE  \E i \in Admins(flash) : flash[i].number \in Numbers
      BY DEF AdminExists
    <2>1. flash \in Image /\ GoodBook(flash)
      BY PhonebookAssumption DEF Inv, TypeOK
    <2>2. PICK i \in Admins(flash) : TRUE
      BY <2>1 DEF GoodBook
    <2>3. i \in Slots /\ flash[i].number # NoNumber /\ flash[i].number # Phantom
      BY <2>1, <2>2 DEF Admins, Used, GoodBook
    <2> QED
      BY <2>1, <2>2, <2>3 DEF Image, Entry
  <1> QED
    BY <1>1, InvHolds, PTL

(* No completed command empties a book that is in use, and so reopens INIT.  *)
THEOREM BookNeverEmptied == Spec => NeverEmptied
  <1>1. ASSUME Inv, [Next]_vars
        PROVE  [Completed /\ Used(flash) # {} => Used(flash)' # {}]_vars
    <2> SUFFICES ASSUME Next, Completed, Used(flash) # {} PROVE Used(flash)' # {}
      BY <1>1
    <2>0. power' # "off" /\ power = "on"
      BY DEF Completed
    <2>1. CASE CommandGiven \/ WebRequest
      <3>1. BookDone
        BY <1>1, <2>1, NextDone
      <3>2. flash \in Image /\ (GoodBook(flash) \/ HasPhantom(flash))
        BY <1>1, PhonebookAssumption DEF Inv, TypeOK, Completed
      <3>3. CASE BookKept
        BY <2>1, <3>3 DEF BookKept
      <3>4. CASE BookSaved
        <4>1. PICK pb : flash' = pb /\ Used(pb) # {}
          BY <2>0, <3>2, <3>4 DEF BookSaved
        <4> QED  BY <4>1 DEF Used
      <3> QED
        BY <3>1, <3>3, <3>4 DEF BookDone
    <2>2. CASE PowerLoss \/ Boot
      BY <2>2 DEF PowerLoss, Boot, Completed
    <2> QED
      BY <2>1, <2>2 DEF Next
  <1> QED
    BY <1>1, InvHolds, PTL DEF Spec, NeverEmptied

-----------------------------------------------------------------------------
(* What a command changes, and how it is recorded: nothing, or the entry of  *)
(* one number, which its log names.                                         *)
Touches(n) ==
    /\ \A m \in Numbers \ {n} : EntryOf(flash', m) = EntryOf(flash, m)
    /\ \E e \in done'.log : e.number = n /\ e.status

Did(cmd, numbers) ==
    \/ power' = "off"
    \/ done'.cmd = cmd /\ flash' = flash
    \/ done'.cmd = cmd /\ \E n \in numbers : Touches(n)

LEMMA OthersStay ==
    ASSUME NEW pb \in Image, NEW n \in Numbers,
           NEW saved \in Added(pb, n) \cup Removed(pb, n) \cup AdminSet(pb, n, TRUE)
                           \cup AdminSet(pb, n, FALSE),
           NEW m \in Numbers \ {n}
    PROVE  EntryOf(saved, m) = EntryOf(pb, m)
  <1>1. n # NoNumber /\ m # NoNumber /\ m # n
    BY ImageAssumption
  <1>2. PICK i \in Slots :
            /\ \A j \in Slots : j # i => saved[j] = pb[j]
            /\ pb[i].number # m /\ saved[i].number # m
    <2>1. CASE saved \in Added(pb, n)
      BY <1>1, <2>1 DEF Added, FirstOf, Free, Image
    <2>2. CASE saved \in Removed(pb, n)
      BY <1>1, <2>2 DEF Removed, FirstOf, SlotsOf, FreeEntry, Image
    <2>3. CASE saved \in AdminSet(pb, n, TRUE) \cup AdminSet(pb, n, FALSE)
      <3>1. PICK i \in FirstOf(SlotsOf(pb, n)), isAdmin \in BOOLEAN :
                saved = [pb EXCEPT ![i].isAdmin = isAdmin]
        BY <2>3 DEF AdminSet
      <3>2. i \in Slots /\ pb[i].number = n /\ pb[i] \in Entry
        BY DEF FirstOf, SlotsOf, Image
      <3>3. saved[i].number = n /\ \A j \in Slots : j # i => saved[j] = pb[j]
        BY <3>1, <3>2 DEF Image, Entry
      <3> QED
        BY <1>1, <3>2, <3>3
    <2> QED
      BY <2>1, <2>2, <2>3
  <1>3. SlotsOf(saved, m) = SlotsOf(pb, m) /\ \A j \in SlotsOf(pb, m) : saved[j] = pb[j]
    BY <1>2 DEF SlotsOf
  <1> QED
    BY <1>3 DEF EntryOf

LEMMA RefuseDid ==
    ASSUME NEW cmd, NEW err, NEW log, NEW numbers, Refuse(cmd, err, log)
    PROVE  Did(cmd, numbers)
  BY DEF Refuse, Did

LEMMA SaveDid ==
    ASSUME flash \in Image, NEW cmd, NEW n \in Numbers, NEW event, NEW numbers, n \in numbers,
           NEW images \in SUBSET (Added(flash, n) \cup Removed(flash, n)
                                   \cup AdminSet(flash, n, TRUE) \cup AdminSet(flash, n, FALSE)),
           Save(cmd, images, {Logged(event, n, TRUE)})
    PROVE  Did(cmd, numbers)
  <1>1. CASE power' = "off"
    BY <1>1 DEF Did
  <1>2. CASE \E pb \in images :
                flash' = pb /\ done' = [cmd |-> cmd, err |-> "OK", log |-> {Logged(event, n, TRUE)}]
    <2>0. PICK pb \in images :
              flash' = pb /\ done' = [cmd |-> cmd, err |-> "OK", log |-> {Logged(event, n, TRUE)}]
      BY <1>2
    <2>1. \A m \in Numbers \ {n} : EntryOf(flash', m) = EntryOf(flash, m)
      BY <2>0, OthersStay
    <2>2. done'.cmd = cmd /\ \E e \in done'.log : e.number = n /\ e.status
      <3>1. /\ done'.cmd = cmd /\ done'.log = {Logged(event, n, TRUE)}
            /\ Logged(event, n, TRUE).number = n /\ Logged(event, n, TRUE).status = TRUE
        BY <2>0 DEF Logged
      <3> QED
        BY <3>1
    <2> QED
      BY <2>1, <2>2 DEF Did, Touches
  <1> QED
    BY <1>1, <1>2 DEF Save

LEMMA AddDid ==
    ASSUME flash \in Image, NEW cmd, NEW text \in Texts, task_add_user(cmd, text)
    PROVE  Did(cmd, {n \in Numbers : ~phonebook_exists(flash, n)})
  <1>1. Norm[text] \in Numbers \cup {Invalid}
    BY PhonebookAssumption
  <1>2. ASSUME Norm[text] # Invalid, ~phonebook_exists(flash, Norm[text]),
               Save(cmd, Added(flash, Norm[text]), {Logged("ADD", Norm[text], TRUE)})
        PROVE  Did(cmd, {n \in Numbers : ~phonebook_exists(flash, n)})
    BY <1>1, <1>2, SaveDid
  <1> QED
    BY <1>2, RefuseDid DEF task_add_user

LEMMA DeleteDid ==
    ASSUME flash \in Image, NEW cmd, NEW text \in Texts, NEW failed,
           task_delete_user(cmd, text, failed)
    PROVE  Did(cmd, Numbers \cap {Norm[text]})
  <1>1. Norm[text] \in Numbers \cup {Invalid}
    BY PhonebookAssumption
  <1>2. ASSUME Norm[text] # Invalid,
               Save(cmd, Removed(flash, Norm[text]), {Logged("DEL", Norm[text], TRUE)})
        PROVE  Did(cmd, Numbers \cap {Norm[text]})
    BY <1>1, <1>2, SaveDid
  <1> QED
    BY <1>2, RefuseDid DEF task_delete_user

LEMMA PromoteDid ==
    ASSUME flash \in Image, NEW cmd, NEW text \in Texts, task_promote_user(cmd, text)
    PROVE  Did(cmd, {n \in Numbers : ~phonebook_is_admin(flash, n)})
  <1>1. Norm[text] \in Numbers \cup {Invalid}
    BY PhonebookAssumption
  <1>2. ASSUME Norm[text] # Invalid, ~phonebook_is_admin(flash, Norm[text]),
               Save(cmd, AdminSet(flash, Norm[text], TRUE), {Logged("PROMOTE", Norm[text], TRUE)})
        PROVE  Did(cmd, {n \in Numbers : ~phonebook_is_admin(flash, n)})
    BY <1>1, <1>2, SaveDid
  <1> QED
    BY <1>2, RefuseDid DEF task_promote_user

LEMMA DemoteDid ==
    ASSUME flash \in Image, NEW cmd, NEW text \in Texts, task_demote_user(cmd, text)
    PROVE  Did(cmd, {n \in Numbers : {n} # Normalized(cmd.sender)})
  <1>1. Norm[text] \in Numbers \cup {Invalid}
    BY PhonebookAssumption
  <1>2. ASSUME NEW sender \in Normalized(cmd.sender), Norm[text] # Invalid, Norm[text] # sender,
               Save(cmd, AdminSet(flash, Norm[text], FALSE), {Logged("DEMOTE", Norm[text], TRUE)})
        PROVE  Did(cmd, {n \in Numbers : {n} # Normalized(cmd.sender)})
    BY <1>1, <1>2, SaveDid
  <1> QED
    BY <1>2, RefuseDid DEF task_demote_user

(* commands.c: what a command may touch.  By SMS, a sender in the book is an *)
(* admin, and another than the number that is touched.                      *)
Sender(n, cmd) ==
    cmd.source = "sms" =>
        \/ Used(flash) = {} /\ cmd.op = "INIT"
        \/ /\ \E i \in Admins(flash) : flash[i].number = cmd.sender
           /\ n # cmd.sender

LEMMA CommandDid ==
    ASSUME flash \in Image, NEW cmd \in Command, process_command(cmd)
    PROVE  Did(cmd, {n \in Numbers : Sender(n, cmd)})
  <1> DEFINE mine == {n \in Numbers : Sender(n, cmd)}
  <1>1. /\ cmd.arg \in Texts /\ cmd.sender \in Texts /\ Numbers \subseteq Texts
        /\ NoNumber \notin Texts /\ Phantom \notin Texts
        /\ Norm[NoDigits] = Invalid /\ NoDigits \in Texts
        /\ \A n \in Numbers : Norm[n] = n /\ n # Invalid
    BY PhonebookAssumption DEF Command
  <1>2. CASE ~command_allowed(cmd) /\ Refuse(cmd, "DENIED", {})
    BY <1>2, RefuseDid
  <1>3. CASE cmd.op = "INIT" /\ cmd_init(cmd)
    <2>1. ASSUME Used(flash) = {}, Norm[cmd.sender] # Invalid,
                 Save(cmd, Added(flash, Norm[cmd.sender]), {Logged("INIT", Norm[cmd.sender], TRUE)})
          PROVE  Did(cmd, mine)
      <3>1. Norm[cmd.sender] \in mine
        BY <1>1, <1>3, <2>1, PhonebookAssumption DEF Sender
      <3> QED
        BY <2>1, <3>1, SaveDid
    <2> QED
      BY <1>3, <2>1, RefuseDid DEF cmd_init
  <1>4. ASSUME command_allowed(cmd), cmd.op # "INIT" PROVE
            /\ cmd.source = "sms" =>
                  /\ \E i \in Admins(flash) : flash[i].number = cmd.sender
                  /\ cmd.sender \in Numbers /\ Normalized(cmd.sender) = {cmd.sender}
                  /\ phonebook_exists(flash, cmd.sender) /\ phonebook_is_admin(flash, cmd.sender)
    <2> SUFFICES ASSUME cmd.source = "sms"
                 PROVE  /\ \E i \in Admins(flash) : flash[i].number = cmd.sender
                        /\ cmd.sender \in Numbers /\ Normalized(cmd.sender) = {cmd.sender}
                        /\ phonebook_exists(flash, cmd.sender)
                        /\ phonebook_is_admin(flash, cmd.sender)
      OBVIOUS
    <2>1. phonebook_exists(flash, cmd.sender) /\ phonebook_is_admin(flash, cmd.sender)
      BY <1>4 DEF command_allowed
    <2>2. PICK i \in Slots : flash[i].number = cmd.sender /\ flash[i].isAdmin
      BY <2>1 DEF phonebook_is_admin, FirstOf, SlotsOf
    <2>3. flash[i].number \in Numbers \cup {NoNumber, Phantom}
      BY DEF Image, Entry
    <2> QED
      BY <1>1, <2>1, <2>2, <2>3 DEF Admins, Used, Normalized
  <1>5. ASSUME NEW numbers \in SUBSET Numbers, Did(cmd, numbers),
               command_allowed(cmd), cmd.op # "INIT",
               cmd.source = "sms" => cmd.sender \notin numbers
        PROVE  Did(cmd, mine)
    <2>1. numbers \subseteq mine
      BY <1>4, <1>5 DEF Sender
    <2> QED
      BY <1>5, <2>1 DEF Did
  <1>6. CASE command_allowed(cmd) /\ cmd.op = "ADD" /\ task_add_user(cmd, cmd.arg)
    <2> DEFINE ns == {n \in Numbers : ~phonebook_exists(flash, n)}
    <2>1. Did(cmd, ns)
      BY <1>1, <1>6, AddDid
    <2>2. ns \in SUBSET Numbers /\ (cmd.source = "sms" => cmd.sender \notin ns)
      BY <1>4, <1>6
    <2> QED
      BY <1>5, <1>6, <2>1, <2>2
  <1>7. CASE command_allowed(cmd) /\ cmd.op = "DEL" /\ cmd_del(cmd)
    <2>1. ASSUME NEW text \in Normalized(cmd.arg), NEW sender \in Normalized(cmd.sender),
                 ~(cmd.source = "sms" /\ text = sender),
                 task_delete_user(cmd, text, {Logged("DEL", text, FALSE)})
          PROVE  Did(cmd, mine)
      <3>1. text \in Texts /\ (Norm[text] \in Numbers => text = Norm[text])
        BY <1>1, PhonebookAssumption DEF Normalized
      <3>2. Did(cmd, Numbers \cap {Norm[text]})
        BY <2>1, <3>1, DeleteDid
      <3>3. cmd.source = "sms" => cmd.sender \notin Numbers \cap {Norm[text]}
        BY <1>4, <1>7, <2>1, <3>1
      <3> QED
        BY <1>5, <1>7, <3>2, <3>3
    <2> QED
      BY <1>7, <2>1, RefuseDid DEF cmd_del
  <1>8. CASE command_allowed(cmd) /\ cmd.op = "PROMOTE" /\ task_promote_user(cmd, cmd.arg)
    <2> DEFINE ns == {n \in Numbers : ~phonebook_is_admin(flash, n)}
    <2>1. Did(cmd, ns)
      BY <1>1, <1>8, PromoteDid
    <2>2. ns \in SUBSET Numbers /\ (cmd.source = "sms" => cmd.sender \notin ns)
      BY <1>4, <1>8
    <2> QED
      BY <1>5, <1>8, <2>1, <2>2
  <1>9. CASE command_allowed(cmd) /\ cmd.op = "DEMOTE" /\ task_demote_user(cmd, cmd.arg)
    <2> DEFINE ns == {n \in Numbers : {n} # Normalized(cmd.sender)}
    <2>1. Did(cmd, ns)
      BY <1>1, <1>9, DemoteDid
    <2>2. ns \in SUBSET Numbers /\ (cmd.source = "sms" => cmd.sender \notin ns)
      BY <1>4, <1>9
    <2> QED
      BY <1>5, <1>9, <2>1, <2>2
  <1> QED
    BY <1>2, <1>3, <1>6, <1>7, <1>8, <1>9 DEF process_command

(* The web page's requests are not signed by a sender.                       *)
LEMMA RequestDid ==
    ASSUME flash \in Image, WebRequest
    PROVE  \E cmd \in Command : cmd.source = "wifi" /\ Did(cmd, Numbers)
  <1>1. PICK nr \in Texts :
            \/ task_add_user(Typed("ADD", "wifi", NoDigits, nr), nr)
            \/ task_delete_user(Typed("DEL", "wifi", NoDigits, nr), nr, {})
            \/ task_swap_admin(Typed("SWAP", "wifi", NoDigits, nr), nr)
    BY DEF WebRequest
  <1>2. \A word \in {"ADD", "DEL", "SWAP"} :
            /\ Typed(word, "wifi", NoDigits, nr) \in Command
            /\ Typed(word, "wifi", NoDigits, nr).source = "wifi"
    BY PhonebookAssumption DEF Typed, Command, Sources
  <1>3. ASSUME NEW cmd, NEW numbers \in SUBSET Numbers, Did(cmd, numbers) PROVE Did(cmd, Numbers)
    BY <1>3 DEF Did
  <1>4. ASSUME NEW cmd, task_swap_admin(cmd, nr) PROVE Did(cmd, Numbers)
    <2>1. Norm[nr] # Invalid => Norm[nr] \in Texts
      BY PhonebookAssumption
    <2> QED
      BY <1>3, <1>4, <2>1, DemoteDid, PromoteDid, RefuseDid DEF task_swap_admin
  <1> QED
    BY <1>1, <1>2, <1>3, <1>4, AddDid, DeleteDid

(* Every step that completes does so on behalf of a command.                 *)
LEMMA StepDid ==
    ASSUME Inv, Next, Completed
    PROVE  \E cmd \in Command : Did(cmd, {n \in Numbers : Sender(n, cmd)})
  <1>1. flash \in Image /\ power = "on"
    BY DEF Inv, TypeOK, Completed
  <1>2. CASE CommandGiven
    <2>1. NoDigits \in Texts /\ Senders \subseteq Texts
      BY PhonebookAssumption
    <2>2. PICK word \in {"INIT", "ADD", "DEL", "PROMOTE", "DEMOTE"}, arg \in Texts,
               source \in Sources, sender \in Texts :
                   process_command(Typed(word, source, sender, arg))
      BY <1>2, <2>1 DEF CommandGiven, Sources
    <2>3. Typed(word, source, sender, arg) \in Command
      BY DEF Typed, Command
    <2> QED
      BY <1>1, <2>2, <2>3, CommandDid
  <1>3. CASE WebRequest
    <2>1. PICK cmd \in Command : cmd.source = "wifi" /\ Did(cmd, Numbers)
      BY <1>1, <1>3, RequestDid
    <2>2. {n \in Numbers : Sender(n, cmd)} = Numbers
      BY <2>1 DEF Sender
    <2> QED
      BY <2>1, <2>2
  <1>4. CASE PowerLoss \/ Boot
    BY <1>4 DEF PowerLoss, Boot, Completed
  <1> QED
    BY <1>2, <1>3, <1>4 DEF Next

(* command_allowed: by SMS, only an admin changes a book in use.             *)
THEOREM AuthorisedOnly == Spec => OnlyAuthorised
  <1>1. ASSUME Inv, [Next]_vars
        PROVE  [ Completed /\ flash' # flash /\ done'.cmd.source = "sms" =>
                    \/ Used(flash) = {} /\ done'.cmd.op = "INIT"
                    \/ \E i \in Admins(flash) : flash[i].number = done'.cmd.sender ]_vars
    <2> SUFFICES ASSUME Next, Completed, flash' # flash, done'.cmd.source = "sms"
                 PROVE  \/ Used(flash) = {} /\ done'.cmd.op = "INIT"
                        \/ \E i \in Admins(flash) : flash[i].number = done'.cmd.sender
      BY <1>1
    <2>1. PICK cmd \in Command : Did(cmd, {n \in Numbers : Sender(n, cmd)})
      BY <1>1, StepDid
    <2>2. PICK n \in Numbers : done'.cmd = cmd /\ Sender(n, cmd)
      BY <2>1 DEF Did, Completed
    <2> QED
      BY <2>2 DEF Sender
  <1> QED
    BY <1>1, InvHolds, PTL DEF Spec, OnlyAuthorised

(* cmd_del and task_demote_user: nobody in the book changes their own entry  *)
(* by SMS, whatever the uninitialised buffers hold.                         *)
THEOREM OneselfKept == Spec => NotOneself
  <1>1. ASSUME Inv, [Next]_vars
        PROVE  [ Completed /\ done'.cmd.source = "sms" /\ done'.cmd.op # "INIT"
                    /\ phonebook_exists(flash, done'.cmd.sender)
                    => EntryOf(flash', done'.cmd.sender) = EntryOf(flash, done'.cmd.sender) ]_vars
    <2> SUFFICES ASSUME Next, Completed, done'.cmd.source = "sms", done'.cmd.op # "INIT",
                        phonebook_exists(flash, done'.cmd.sender)
                 PROVE  EntryOf(flash', done'.cmd.sender) = EntryOf(flash, done'.cmd.sender)
      BY <1>1
    <2>1. PICK cmd \in Command : Did(cmd, {n \in Numbers : Sender(n, cmd)})
      BY <1>1, StepDid
    <2>2. done'.cmd = cmd /\ (flash' = flash \/ \E n \in Numbers : Sender(n, cmd) /\ Touches(n))
      BY <2>1 DEF Did, Completed
    <2>3. CASE flash' = flash
      BY <2>3 DEF EntryOf, SlotsOf
    <2>4. CASE \E n \in Numbers : Sender(n, cmd) /\ Touches(n)
      <3>1. PICK n \in Numbers : Sender(n, cmd) /\ Touches(n)
        BY <2>4
      <3>2. n # cmd.sender
        BY <2>2, <3>1 DEF Sender
      <3>3. cmd.sender \in Numbers
        <4>1. PICK i \in Slots : flash[i].number = cmd.sender
          BY <2>2 DEF phonebook_exists, SlotsOf
        <4>2. cmd.sender \in Texts /\ flash[i].number \in Numbers \cup {NoNumber, Phantom}
          BY <1>1 DEF Inv, TypeOK, Completed, Image, Entry, Command
        <4> QED
          BY <4>1, <4>2, PhonebookAssumption
      <3> QED
        BY <2>2, <3>1, <3>2, <3>3 DEF Touches
    <2> QED
      BY <2>2, <2>3, <2>4
  <1> QED
    BY <1>1, InvHolds, PTL DEF Spec, NotOneself

(* log_add in every handler: what changes is in the log, under its number.   *)
THEOREM ChangesLogged == Spec => AuditTrail
  <1>1. ASSUME Inv, [Next]_vars
        PROVE  [ Completed => \A n \in Numbers :
                    EntryOf(flash, n) # EntryOf(flash', n)
                        => \E e \in done'.log : e.number = n /\ e.status ]_vars
    <2> SUFFICES ASSUME Next, Completed, NEW n \in Numbers,
                        EntryOf(flash, n) # EntryOf(flash', n)
                 PROVE  \E e \in done'.log : e.number = n /\ e.status
      BY <1>1
    <2>1. PICK cmd \in Command : Did(cmd, {m \in Numbers : Sender(m, cmd)})
      BY <1>1, StepDid
    <2>2. flash' # flash
      BY DEF EntryOf, SlotsOf
    <2>3. PICK m \in Numbers : Touches(m)
      BY <2>1, <2>2 DEF Did, Completed
    <2> QED
      BY <2>3 DEF Touches
  <1> QED
    BY <1>1, InvHolds, PTL DEF Spec, AuditTrail

-----------------------------------------------------------------------------
(* Tasks that are not interrupted: PhonebookPreempt *)

(* The changes of Book, of the book in the flash, in this module's terms.    *)
Changes(n) ==
    IF ~phonebook_exists(contents, n) THEN Added(contents, n)
    ELSE IF ~phonebook_is_admin(contents, n)
         THEN Removed(contents, n) \cup AdminSet(contents, n, TRUE)
    ELSE IF AtMostOneAdmin(contents) THEN {}
    ELSE Removed(contents, n) \cup AdminSet(contents, n, FALSE)

LEMMA BookChanges == ASSUME NEW n PROVE Atomically!Changes(n) = Changes(n)
  <1>1. /\ Atomically!phonebook_exists(contents, n) = phonebook_exists(contents, n)
        /\ Atomically!phonebook_is_admin(contents, n) = phonebook_is_admin(contents, n)
        /\ Atomically!AtMostOneAdmin(contents) = AtMostOneAdmin(contents)
    BY DEF Atomically!phonebook_exists, phonebook_exists, Atomically!SlotsOf, SlotsOf,
           Atomically!phonebook_is_admin, phonebook_is_admin, Atomically!FirstOf, FirstOf,
           Atomically!AtMostOneAdmin, AtMostOneAdmin, Atomically!Admins, Admins,
           Atomically!Used, Used, Atomically!Slots, Slots
  <1>2. /\ Atomically!Added(contents, n) = Added(contents, n)
        /\ Atomically!Removed(contents, n) = Removed(contents, n)
    BY DEF Atomically!Added, Added, Atomically!Removed, Removed, Atomically!FirstOf, FirstOf,
           Atomically!Free, Free, Atomically!Used, Used, Atomically!SlotsOf, SlotsOf,
           Atomically!FreeEntry, FreeEntry, Atomically!Slots, Slots
  <1>3. ASSUME NEW a PROVE Atomically!AdminSet(contents, n, a) = AdminSet(contents, n, a)
    BY DEF Atomically!AdminSet, AdminSet, Atomically!FirstOf, FirstOf,
           Atomically!SlotsOf, SlotsOf, Atomically!Slots, Slots
  <1>4. /\ Atomically!AdminSet(contents, n, TRUE) = AdminSet(contents, n, TRUE)
        /\ Atomically!AdminSet(contents, n, FALSE) = AdminSet(contents, n, FALSE)
    BY <1>3
  <1>5. CASE ~phonebook_exists(contents, n)
    BY <1>1, <1>2, <1>5 DEF Atomically!Changes, Changes
  <1>6. CASE phonebook_exists(contents, n) /\ ~phonebook_is_admin(contents, n)
    BY <1>1, <1>2, <1>4, <1>6 DEF Atomically!Changes, Changes
  <1>7. CASE phonebook_exists(contents, n) /\ phonebook_is_admin(contents, n)
    BY <1>1, <1>2, <1>4, <1>7 DEF Atomically!Changes, Atomically!LastAdmin, Changes
  <1> QED
    BY <1>5, <1>6, <1>7

(* What the queries of a task have found out when it comes to its change:   *)
(* the flash is still the book they were asked of.                          *)
Admin == phonebook_is_admin(contents, number)
Asked ==
    /\ op = "delete" => ~(Admin /\ AtMostOneAdmin(contents))
    /\ op = "promote" => ~Admin
    /\ op = "demote" => Admin /\ ~AtMostOneAdmin(contents)

(* Where the copies are: the entries loaded are those of the flash, those in *)
(* the buffer are those of the changed copy, which is one change away.       *)
TaskInv ==
    /\ TaskTypeOK
    /\ pc = "idle" => entry = 1
    /\ pc # "idle" => number \in Numbers /\ op \in Tasks
    /\ pc \in Loading => \A i \in Slots : i < entry => copy[i] = contents[i]
    /\ pc = "isAdmin" => op # "add"
    /\ pc = "countAdmins" => op \in {"delete", "demote"} /\ (op = "demote" => Admin)
    /\ pc = "change" => Asked
    /\ pc = "fill" => /\ entry \in Slots /\ copy \in Changes(number)
                      /\ \A i \in Slots : i < entry => sector[i] = copy[i]
    /\ pc = "program" => sector \in Changes(number)

(* A copy that is loaded to its end is the flash.                            *)
LEMMA CopyLoaded ==
    ASSUME TaskInv, pc \in Loading, entry \notin Slots PROVE copy = contents
  BY ImageAssumption DEF TaskInv, TaskTypeOK, Slots, Image

(* The changes of a book are books.                                         *)
LEMMA ChangesKeep ==
    ASSUME NEW n \in Numbers, NEW b, contents \in Image, b \in Changes(n)
    PROVE  Keeps(contents, b)
  <1> USE DEF Changes
  <1>1. CASE ~phonebook_exists(contents, n)
    BY <1>1, AddedKeeps
  <1>2. CASE phonebook_exists(contents, n) /\ ~phonebook_is_admin(contents, n)
    BY <1>2, RemovedKeeps, AdminSetKeeps
  <1>3. CASE phonebook_exists(contents, n) /\ phonebook_is_admin(contents, n)
    BY <1>3, RemovedKeeps, AdminSetKeeps
  <1> QED
    BY <1>1, <1>2, <1>3

(* A task changes its copy as Book allows: what the queries rule out is what *)
(* Book refuses.                                                            *)
LEMMA ChangedAllowed ==
    ASSUME TaskInv, pc = "change", entry \notin Slots, NEW b \in Changed
    PROVE  b \in Changes(number)
  <1> USE DEF Changes
  <1>1. copy = contents /\ Asked /\ number \in Numbers /\ op \in Tasks
    BY CopyLoaded DEF TaskInv, Loading
  <1>2. CASE op = "add"
    <2>1. b \in {[copy EXCEPT ![s] = [number |-> number, isAdmin |-> (Used(contents) = {})]] :
                    s \in IF phonebook_exists(copy, number) THEN {} ELSE FirstOf(Free(copy))}
      BY <1>2 DEF Changed
    <2>2. ~phonebook_exists(contents, number) /\ b \in Added(contents, number)
      BY <1>1, <2>1 DEF Added
    <2> QED
      BY <2>2
  <1>3. ASSUME ~phonebook_exists(contents, number)
        PROVE  Removed(contents, number) = {} /\ \A a : AdminSet(contents, number, a) = {}
    BY <1>3 DEF phonebook_exists, Removed, AdminSet, FirstOf
  <1>4. CASE op = "delete"
    BY <1>1, <1>3, <1>4 DEF Changed, Asked, Admin
  <1>5. CASE op = "promote"
    BY <1>1, <1>3, <1>5 DEF Changed, Asked, Admin
  <1>6. CASE op = "demote"
    BY <1>1, <1>3, <1>6 DEF Changed, Asked, Admin
  <1> QED
    BY <1>1, <1>2, <1>4, <1>5, <1>6 DEF Tasks

LEMMA TaskInvInit == TaskInit => TaskInv /\ Atomically!Init
  <1> SUFFICES ASSUME TaskInit PROVE TaskInv /\ Atomically!Init
    OBVIOUS
  <1>1. EmptyImage = Atomically!EmptyImage
    BY DEF EmptyImage, FreeEntry, Slots, Atomically!EmptyImage, Atomically!FreeEntry, Atomically!Slots
  <1>2. TaskInv
    BY EmptyGood, ImageAssumption DEF TaskInit, TaskInv, TaskTypeOK, Loading
  <1> QED
    BY <1>1, <1>2 DEF TaskInit, Atomically!Init

(* Every step keeps the invariant and is a step of Book, or stutters there.  *)
LEMMA TaskInvStep ==
    ASSUME TaskInv, [NextUndisturbed]_taskVars
    PROVE  TaskInv' /\ [Atomically!Next]_contents
  <1> USE ImageAssumption
  <1>0. /\ TaskTypeOK /\ EmptyImage \in Image /\ 1 \in 1 .. MAX_PHONES + 1
        /\ \A i \in Slots : ~(i < 1)
    BY EmptyGood DEF TaskInv, Slots
  <1>a. ASSUME Return PROVE TaskInv' /\ [Atomically!Next]_contents
    BY <1>a, <1>0 DEF Return, TaskInv, TaskTypeOK, Loading
  <1>b. ASSUME pc # "idle", NEW f \in Loading, Call(f),
               f = "isAdmin" => op # "add",
               f = "countAdmins" => op \in {"delete", "demote"} /\ (op = "demote" => Admin),
               f = "change" => Asked
        PROVE  TaskInv' /\ [Atomically!Next]_contents
    BY <1>b, <1>0 DEF Call, TaskInv, TaskTypeOK, Loading, Asked, Admin
  <1>1. CASE Begin
    <2>0. /\ pc = "idle" /\ op' \in Tasks /\ number' \in Numbers /\ pc' \in {"change", "isAdmin"}
          /\ pc' = "change" => op' = "add"
          /\ pc' = "isAdmin" => op' # "add"
          /\ UNCHANGED <<contents, sector, copy, entry>>
      BY <1>1 DEF Begin
    <2>1. Asked' \/ pc' # "change"
      BY <2>0 DEF Asked
    <2>2. TaskTypeOK'
      BY <1>0, <2>0 DEF TaskTypeOK, Loading
    <2>3. \A i \in Slots : ~(i < entry')
      BY <1>0, <2>0 DEF TaskInv
    <2>4. TaskInv'
      BY <2>0, <2>1, <2>2, <2>3 DEF TaskInv, Loading
    <2> QED
      BY <2>0, <2>4
  <1>2. CASE phonebook_load
    <2>1. copy' \in Image /\ \A i \in Slots : i < entry' => copy'[i] = contents[i]
      BY <1>2, <1>0 DEF phonebook_load, Copied, TaskInv, TaskTypeOK, Image, Slots
    <2>2. entry' \in 1 .. MAX_PHONES + 1
      BY <1>2 DEF phonebook_load, Slots
    <2> QED
      BY <1>2, <2>1, <2>2 DEF phonebook_load, TaskInv, TaskTypeOK, Loading, Asked, Admin
  <1>3. CASE IsAdmin
    <2>1. pc = "isAdmin" /\ copy = contents /\ op \in {"delete", "promote", "demote"}
      BY <1>3, CopyLoaded DEF IsAdmin, Loaded, Loading, TaskInv, Tasks
    <2> QED
      BY <1>3, <1>a, <1>b, <2>1 DEF IsAdmin, Loading, Asked, Admin
  <1>4. CASE CountAdmins
    <2>1. /\ pc = "countAdmins" /\ copy = contents
          /\ op \in {"delete", "demote"} /\ (op = "demote" => Admin)
      BY <1>4, CopyLoaded DEF CountAdmins, Loaded, Loading, TaskInv
    <2> QED
      BY <1>4, <1>a, <1>b, <2>1 DEF CountAdmins, Loading, Asked
  <1>5. CASE Change
    <2>1. pc = "change" /\ entry \notin Slots
      BY <1>5 DEF Change, Loaded
    <2>2. CASE Changed = {} /\ Return
      BY <1>a, <2>2
    <2>3. CASE copy' \in Changed /\ pc' = "fill" /\ entry' = 1 /\ sector' = EmptyImage
               /\ UNCHANGED <<contents, op, number>>
      <3>1. copy' \in Changes(number)
        BY <2>1, <2>3, ChangedAllowed
      <3>2. number \in Numbers /\ op \in Tasks /\ contents \in Image
        BY <1>0, <2>1 DEF TaskInv, TaskTypeOK
      <3>3. copy' \in Image
        BY <3>1, <3>2, ChangesKeep DEF Keeps
      <3>4. Changes(number)' = Changes(number)
        BY <2>3 DEF Changes
      <3>5. TaskInv'
        BY <1>0, <2>3, <3>1, <3>2, <3>3, <3>4 DEF TaskInv, TaskTypeOK, Loading, Slots
      <3> QED
        BY <2>3, <3>5
    <2> QED
      BY <1>5, <2>2, <2>3 DEF Change
  <1>6. CASE Fill
    <2>1. pc = "fill" /\ entry \in Slots /\ copy \in Image /\ sector \in Image
          /\ \A i \in Slots : i < entry => sector[i] = copy[i]
      BY <1>6 DEF Fill, TaskInv, TaskTypeOK
    <2>2. sector' \in Image /\ \A i \in Slots : i < entry + 1 => sector'[i] = copy[i]
      BY <1>6, <2>1 DEF Fill, Copied, Image, Slots
    <2>3. Changes(number)' = Changes(number)
      BY <1>6 DEF Fill, Changes
    <2>4. CASE entry = MAX_PHONES
      <3>1. sector' = copy
        BY <2>1, <2>2, <2>4 DEF Image, Slots
      <3>2. TaskInv'
        BY <1>6, <1>0, <2>1, <2>2, <2>3, <2>4, <3>1 DEF Fill, TaskInv, TaskTypeOK, Loading
      <3> QED
        BY <1>6, <3>2 DEF Fill
    <2>5. CASE entry # MAX_PHONES
      <3>1. entry' = entry + 1 /\ entry' \in Slots /\ pc' = pc
        BY <1>6, <2>1, <2>5 DEF Fill, Slots
      <3>2. TaskInv'
        BY <1>6, <1>0, <2>1, <2>2, <2>3, <3>1 DEF Fill, TaskInv, TaskTypeOK, Loading, Slots
      <3> QED
        BY <1>6, <3>2 DEF Fill
    <2> QED
      BY <2>4, <2>5
  <1>7. CASE Program
    <2>1. contents' \in Changes(number) /\ number \in Numbers
      BY <1>7 DEF Program, TaskInv
    <2>2. TaskInv'
      BY <1>7, <1>0 DEF Program, TaskInv, TaskTypeOK, Loading
    <2> QED
      BY <2>1, <2>2, BookChanges DEF Atomically!Next
  <1>8. CASE pc = "idle" /\ WebTask
    <2>1. PICK n \in Numbers : contents' \in Changes(n)
      BY <1>8, BookChanges DEF WebTask
    <2>2. contents' \in Image
      BY <1>0, <2>1, ChangesKeep DEF Keeps, TaskTypeOK
    <2>3. TaskInv'
      BY <1>8, <1>0, <2>2 DEF WebTask, TaskInv, TaskTypeOK, Loading
    <2> QED
      BY <2>1, <2>3, BookChanges DEF Atomically!Next
  <1>10. CASE UNCHANGED taskVars
    BY <1>10 DEF taskVars, TaskInv, TaskTypeOK, Asked, Admin, Changes
  <1> QED
    BY <1>1, <1>2, <1>3, <1>4, <1>5, <1>6, <1>7, <1>8, <1>10
       DEF NextUndisturbed, MainNext

(* As long as no web request arrives inside a task, its queries, copies and   *)
(* save amount to one atomic change of the book.                             *)
THEOREM TasksRefineBook == SpecUndisturbed => ImplementsBook
  <1> QED
    BY TaskInvInit, TaskInvStep, PTL DEF SpecUndisturbed, ImplementsBook, Atomically!Spec

(* And so no number is ever stored twice and a book in use has an admin.     *)
THEOREM BookSound == SpecUndisturbed => []Atomically!Sound
  <1> DEFINE Good == contents \in Image /\ Unique(contents) /\ GoodBook(contents)
  <1>1. TaskInit => TaskInv /\ Good
    BY TaskInvInit, EmptyGood DEF TaskInit
  <1>2. TaskInv /\ Good /\ [NextUndisturbed]_taskVars => TaskInv' /\ Good'
    <2> SUFFICES ASSUME TaskInv, Good, [NextUndisturbed]_taskVars PROVE TaskInv' /\ Good'
      OBVIOUS
    <2>1. TaskInv' /\ [Atomically!Next]_contents
      BY TaskInvStep
    <2>2. CASE contents' = contents
      BY <2>1, <2>2
    <2>3. CASE Atomically!Next
      <3>1. PICK n \in Numbers : contents' \in Changes(n)
        BY <2>3, BookChanges DEF Atomically!Next
      <3> QED
        BY <2>1, <3>1, ChangesKeep DEF Keeps
    <2> QED
      BY <2>1, <2>2, <2>3
  <1>3. Good => Atomically!Sound
    BY DEF GoodBook, Unique, Used, Admins, Image, Entry, Atomically!Sound, Atomically!Used,
           Atomically!Admins, Atomically!Slots, Slots
  <1> QED
    BY <1>1, <1>2, <1>3, PTL DEF SpecUndisturbed
=============================================================================
