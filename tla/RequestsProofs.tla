---------------------------- MODULE RequestsProofs ---------------------------
(***************************************************************************)
(* What others ask of the device, the scripts that run for them, and what  *)
(* the device asks of others.                                              *)
(*                                                                         *)
(* ScriptRun: a script that has failed is not entered again, and the       *)
(* reason that is shown is the first one; and what a form has accepted is  *)
(* what the script reads: for any scripts, values, budgets and edits.      *)
(*                                                                         *)
(* Http: callers fill no more than the places there are, nobody is dropped *)
(* unread, and success is for those who named the password.                *)
(*                                                                         *)
(* Feeds: a body is of the address it was asked of, and no address is      *)
(* asked too often.  ScriptTopics: a watch has what the standard gives its *)
(* filter, and what is said stays inside.  Mqtt: a connection that is      *)
(* settled is served.  For any addresses, filters, topics, limits and      *)
(* intervals, and any number of edits, messages and faults.                *)
(***************************************************************************)
EXTENDS Requests, Remote, TLAPS,
        SequenceTheorems, FiniteSetTheorems, WellFoundedInduction

(* A script and what is known of it: it is ready as long as nothing is     *)
(* held against it.                                                        *)
IsScript(script) ==
  /\ DOMAIN script = {"source", "ready", "store", "problem"}
  /\ script.source \in Sources
  /\ script.ready \in BOOLEAN
  /\ script.ready <=> script.problem = NoProblem

(* The store, and what a call may be of.                                   *)
AllAreScripts ==
  /\ scripts = [id \in DOMAIN scripts |-> scripts[id]]
  /\ DOMAIN scripts \subseteq Ids
  /\ \A id \in DOMAIN scripts : IsScript(scripts[id])

SavedAreScripts ==
  /\ DOMAIN blob \subseteq Ids
  /\ \A id \in DOMAIN blob : blob[id].source \in Sources

CalledIsReady == call = NoCall \/ (call.id \in DOMAIN scripts /\ scripts[call.id].ready)

IInv == AllAreScripts /\ SavedAreScripts /\ CalledIsReady /\ edits \in Nat

-----------------------------------------------------------------------------
(* What the operations make of a script.                                   *)
LEMMA LoadedIsScript ==
  ASSUME NEW source \in Sources, NEW store
  PROVE  IsScript(Loaded(source, store))
  BY ScriptRunAssumption DEF Loaded, IsScript, NoProblem

LEMMA FailedIsScript ==
  ASSUME AllAreScripts, NEW id \in DOMAIN scripts, NEW problem, problem # NoProblem
  PROVE  /\ DOMAIN Failing(id, problem) = DOMAIN scripts
         /\ IsScript(Failing(id, problem)[id])
         /\ Failing(id, problem)[id].store = scripts[id].store
         /\ \A other \in DOMAIN scripts \ {id} : Failing(id, problem)[other] = scripts[other]
<1> DEFINE script == scripts[id]
           failed == [script EXCEPT !.ready = FALSE, !.problem = problem]
<1>1. IsScript(script)
  BY DEF AllAreScripts
<1>2. /\ DOMAIN failed = DOMAIN script
      /\ failed.source = script.source /\ failed.store = script.store
      /\ failed.ready = FALSE /\ failed.problem = problem
  BY <1>1 DEF IsScript
<1>3. IsScript(failed)
  BY <1>1, <1>2 DEF IsScript
<1>4. Failing(id, problem) = [scripts EXCEPT ![id] = failed]
  BY DEF Failing
<1> HIDE DEF failed
<1> QED
  BY <1>2, <1>3, <1>4 DEF AllAreScripts

LEMMA KeptIsScript ==
  ASSUME AllAreScripts, NEW id \in DOMAIN scripts, NEW store
  PROVE  LET set == [scripts EXCEPT ![id].store = store]
         IN  /\ DOMAIN set = DOMAIN scripts
             /\ IsScript(set[id])
             /\ set[id].ready = scripts[id].ready /\ set[id].problem = scripts[id].problem
             /\ \A other \in DOMAIN scripts \ {id} : set[other] = scripts[other]
  BY DEF AllAreScripts, IsScript

-----------------------------------------------------------------------------
LEMMA Initially == Init => IInv
  BY DEF Init, IInv, AllAreScripts, SavedAreScripts, CalledIsReady, NoScripts

(* Requests come between calls. *)
LEMMA EditsKeep ==
  ASSUME IInv, Edit, AllAreScripts'
  PROVE  IInv'
  BY DEF Edit, IInv, SavedAreScripts, CalledIsReady, NoCall

LEMMA PutsKeep ==
  ASSUME IInv, NEW id \in Ids, NEW source \in Sources, Put(id, source)
  PROVE  IInv'
<1>1. IsScript(Loaded(source, <<>>))
  BY LoadedIsScript
<1> HIDE DEF Loaded
<1>2. AllAreScripts'
  BY <1>1 DEF Put, With, IInv, AllAreScripts
<1> QED
  BY <1>2, EditsKeep DEF Put

LEMMA RemovesKeep ==
  ASSUME IInv, NEW id \in Ids, Remove(id)
  PROVE  IInv'
<1>1. AllAreScripts'
  BY DEF Remove, IInv, AllAreScripts
<1> QED
  BY <1>1, EditsKeep DEF Remove

LEMMA SetsKeep ==
  ASSUME IInv, NEW id \in Ids, NEW field, NEW value, Set(id, field, value)
  PROVE  IInv'
<1>1. PICK v \in Accept(field, value) :
        scripts' = [scripts EXCEPT ![id].store = Stored(scripts[id].store, field.key, v)]
  BY DEF Set
<1>2. AllAreScripts /\ id \in DOMAIN scripts
  BY DEF IInv, Set
<1>3. AllAreScripts'
  BY <1>1, <1>2, KeptIsScript DEF AllAreScripts
<1> QED
  BY <1>3, EditsKeep DEF Set

-----------------------------------------------------------------------------
(* A call goes on, writes, or ends. *)
LEMMA WritesKeep ==
  ASSUME IInv, NEW key, NEW value, Write(key, value)
  PROVE  IInv'
<1>1. AllAreScripts /\ call.id \in DOMAIN scripts /\ scripts[call.id].ready
  BY DEF IInv, Write, Running, CalledIsReady
<1> DEFINE store == Stored(scripts[call.id].store, key, value)
<1>2. scripts' = [scripts EXCEPT ![call.id].store = store]
  BY DEF Write
<1> HIDE DEF store
<1>3. /\ DOMAIN scripts' = DOMAIN scripts
      /\ IsScript(scripts'[call.id]) /\ scripts'[call.id].ready = scripts[call.id].ready
      /\ \A other \in DOMAIN scripts \ {call.id} : scripts'[other] = scripts[other]
  BY <1>1, <1>2, KeptIsScript
<1>4. AllAreScripts'
  BY <1>1, <1>2, <1>3 DEF AllAreScripts
<1> QED
  BY <1>1, <1>3, <1>4 DEF IInv, SavedAreScripts, CalledIsReady, Write

LEMMA LeavesKeep ==
  ASSUME IInv, Running, NEW result, Leave(result)
  PROVE  IInv'
<1>1. AllAreScripts /\ call.id \in DOMAIN scripts
  BY DEF IInv, Running, CalledIsReady
<1>2. \/ scripts' = scripts
      \/ \E problem : problem # NoProblem /\ scripts' = Failing(call.id, problem)
  BY DEF Leave, Drawn, Pressed, NoProblem
<1>3. AllAreScripts'
  <2>1. CASE scripts' = scripts
    BY <1>1, <2>1 DEF AllAreScripts
  <2>2. ASSUME NEW problem, problem # NoProblem, scripts' = Failing(call.id, problem)
        PROVE  AllAreScripts'
    <3>1. /\ DOMAIN scripts' = DOMAIN scripts
          /\ IsScript(scripts'[call.id])
          /\ \A other \in DOMAIN scripts \ {call.id} : scripts'[other] = scripts[other]
      BY <1>1, <2>2, FailedIsScript
    <3>2. scripts' = [id \in DOMAIN scripts' |-> scripts'[id]]
      BY <2>2 DEF Failing
    <3> QED
      BY <1>1, <3>1, <3>2 DEF AllAreScripts
  <2> QED
    BY <1>2, <2>1, <2>2
<1> QED
  BY <1>3 DEF Leave, IInv, SavedAreScripts, CalledIsReady

LEMMA EntersKeep ==
  ASSUME IInv, NEW id \in DOMAIN scripts, NEW method, NEW control,
         scripts[id].ready, Enter(id, method, control), UNCHANGED <<library, edits>>
  PROVE  IInv'
  BY DEF Enter, library, IInv, AllAreScripts, SavedAreScripts, CalledIsReady

(* What is saved are the sources, and a start loads them anew. *)
LEMMA BootsKeep ==
  ASSUME IInv, NEW readable \in BOOLEAN, Boot(readable)
  PROVE  IInv'
<1>1. SavedAreScripts'
  BY DEF Boot, IInv, SavedAreScripts, NoScripts
<1>2. AllAreScripts'
  <2>1. CASE readable
    <3>1. scripts' = [id \in DOMAIN blob |-> Loaded(blob[id].source, blob[id].store)]
      BY <2>1 DEF Boot, Restored
    <3>2. \A id \in DOMAIN blob : IsScript(Loaded(blob[id].source, blob[id].store))
      BY LoadedIsScript DEF IInv, SavedAreScripts
    <3> HIDE DEF Loaded
    <3> QED
      BY <3>1, <3>2 DEF IInv, SavedAreScripts, AllAreScripts
  <2>2. CASE ~readable
    BY <2>2 DEF Boot, NoScripts, AllAreScripts
  <2> QED
    BY <2>1, <2>2
<1> QED
  BY <1>1, <1>2 DEF Boot, IInv, CalledIsReady

-----------------------------------------------------------------------------
LEMMA Inductive == IInv /\ [Next]_vars => IInv'
<1> SUFFICES ASSUME IInv, [Next]_vars PROVE IInv'
  OBVIOUS
<1>1. ASSUME NEW id \in Ids, AskDuration(id) PROVE IInv'
  BY <1>1, EntersKeep DEF AskDuration
<1>2. ASSUME NEW control \in Controls, Press(control) PROVE IInv'
  <2>1. CASE Offered(app, control)
    BY <1>2, <2>1, EntersKeep DEF Press, Offered
  <2>2. CASE ~Offered(app, control)
    BY <1>2, <2>2 DEF Press, library, IInv, AllAreScripts, SavedAreScripts, CalledIsReady
  <2> QED
    BY <2>1, <2>2
<1>3. CASE Frame
  <2>1. CASE app \in DOMAIN scripts /\ scripts[app].ready
    BY <1>3, <2>1, EntersKeep DEF Frame
  <2>2. CASE ~(app \in DOMAIN scripts /\ scripts[app].ready)
    BY <1>3, <2>2 DEF Frame, library, IInv, AllAreScripts, SavedAreScripts, CalledIsReady
  <2> QED
    BY <2>1, <2>2
<1>4. CASE Return
  BY <1>4, LeavesKeep DEF Return
<1>5. CASE Beat
  <2>1. CASE Leave("failed")
    BY <1>5, <2>1, LeavesKeep DEF Beat
  <2>2. CASE call' = [call EXCEPT !.beats = Counted(@)] /\ UNCHANGED <<library, edits>>
    <3>1. AllAreScripts' /\ SavedAreScripts'
      BY <2>2 DEF IInv, library, AllAreScripts, SavedAreScripts
    <3>2. call.id \in DOMAIN scripts /\ scripts[call.id].ready
      BY <1>5 DEF Beat, Running, IInv, CalledIsReady
    <3>3. call'.id = call.id
      BY <2>2
    <3> QED
      BY <2>2, <3>1, <3>2, <3>3 DEF IInv, CalledIsReady, library
  <2> QED
    BY <1>5, <2>1, <2>2 DEF Beat
<1>6. CASE Back
  BY <1>6 DEF Back, library, IInv, AllAreScripts, SavedAreScripts, CalledIsReady
<1>7. CASE Save
  BY <1>7 DEF Save, IInv, AllAreScripts, SavedAreScripts, CalledIsReady, IsScript
<1>8. CASE UNCHANGED vars
  BY <1>8 DEF vars, library, front, IInv, AllAreScripts, SavedAreScripts, CalledIsReady
<1> QED
  BY <1>1, <1>2, <1>3, <1>4, <1>5, <1>6, <1>7, <1>8, PutsKeep, RemovesKeep, SetsKeep,
     WritesKeep, BootsKeep DEF Next

-----------------------------------------------------------------------------
(* A script that has failed: it is not entered, and its reason stays.      *)
SameReason(id) == id \in DOMAIN scripts' => scripts'[id].problem = scripts[id].problem

LEMMA FailedIsNotCalled ==
  ASSUME IInv, [Next]_vars, NEW id \in DOMAIN scripts, ~scripts[id].ready
  PROVE  call'.id # id
<1>1. id # "nobody"
  BY ScriptRunAssumption DEF IInv, AllAreScripts
<1>2. NoCall.id # id
  BY <1>1 DEF NoCall
<1>3. call.id # id
  BY <1>2 DEF IInv, CalledIsReady
<1>4. \/ call' = call \/ call' = NoCall \/ call' = [call EXCEPT !.beats = Counted(@)]
      \/ \E other \in DOMAIN scripts : \E method, control :
           scripts[other].ready /\ Enter(other, method, control)
  BY DEF Next, Put, Remove, Set, Edit, AskDuration, Press, Offered, Write, Frame, Return, Beat,
         Leave, Back, Save, Boot, vars
<1>5. ASSUME NEW other \in DOMAIN scripts, NEW method, NEW control,
             scripts[other].ready, Enter(other, method, control)
      PROVE  call'.id # id
  BY <1>5 DEF Enter
<1>6. CASE call' = [call EXCEPT !.beats = Counted(@)]
  BY <1>3, <1>6
<1> QED
  BY <1>2, <1>3, <1>4, <1>5, <1>6

LEMMA FirstReasonStays ==
  ASSUME IInv, [Next]_vars, edits' = edits, ~Boot(TRUE), ~Boot(FALSE),
         NEW id \in DOMAIN scripts, ~scripts[id].ready
  PROVE  SameReason(id)
<1>0. AllAreScripts /\ (call = NoCall \/ call.id # id)
  BY DEF IInv, CalledIsReady
<1>1. CASE UNCHANGED scripts
  BY <1>1 DEF SameReason
<1>2. ASSUME NEW key, NEW value, Write(key, value) PROVE SameReason(id)
  <2> DEFINE store == Stored(scripts[call.id].store, key, value)
  <2>1. scripts' = [scripts EXCEPT ![call.id].store = store]
    BY <1>2 DEF Write
  <2>2. call.id \in DOMAIN scripts /\ call.id # id
    BY <1>0, <1>2 DEF Write, Running, IInv, CalledIsReady
  <2> HIDE DEF store
  <2> QED
    BY <1>0, <2>1, <2>2, KeptIsScript DEF SameReason
<1>3. ASSUME NEW result, Running, Leave(result) PROVE SameReason(id)
  <2>1. call.id \in DOMAIN scripts /\ call.id # id
    BY <1>0, <1>3 DEF Running, IInv, CalledIsReady
  <2>2. \/ scripts' = scripts
        \/ \E problem : problem # NoProblem /\ scripts' = Failing(call.id, problem)
    BY <1>3 DEF Leave, Drawn, Pressed, NoProblem
  <2> QED
    BY <1>0, <2>1, <2>2, FailedIsScript DEF SameReason
<1>4. ~Edit
  BY DEF Edit, IInv
<1> QED
  BY <1>1, <1>2, <1>3, <1>4
     DEF Next, Put, Remove, Set, AskDuration, Press, Frame, Return, Beat, Back, Save, vars, library

(* Whatever is pressed, drawn, asked and written afterwards: a script that *)
(* has failed is not entered again, and what it failed of stays to be read *)
(* until it is put anew or the device starts.                              *)
THEOREM FirstErrorStays == Spec => FirstErrorIsKept
<1>1. IInv /\ [Next]_vars =>
        [\A id \in DOMAIN scripts :
           /\ scripts[id].ready <=> scripts[id].problem = NoProblem
           /\ ~scripts[id].ready =>
                /\ call'.id # id
                /\ edits' = edits /\ id \in DOMAIN scripts' /\ ~Boot(TRUE) /\ ~Boot(FALSE)
                   => scripts'[id].problem = scripts[id].problem]_vars
  BY FailedIsNotCalled, FirstReasonStays DEF IInv, AllAreScripts, IsScript, SameReason
<1>2. Spec => []IInv
  BY Initially, Inductive, PTL DEF Spec
<1> QED
  BY <1>1, <1>2, PTL DEF Spec, FirstErrorIsKept
-----------------------------------------------------------------------------
(* What is kept: entries under keys that are all different.                *)
AllKeys == Keys \cup {field.key : field \in Fields}
Kinds == [kind : STRING, n : Int]
Entries == [key : AllKeys, value : Kinds]

IsStore(store) ==
  /\ store \in Seq(Entries)
  /\ \A i, j \in 1..Len(store) : store[i].key = store[j].key => i = j

LEMMA NoStore == IsStore(<<>>)
  BY DEF IsStore

LEMMA KeyTellsPlace ==
  ASSUME NEW store, IsStore(store), NEW i \in 1..Len(store)
  PROVE  At(store, store[i].key) = store[i].value
<1> DEFINE j == CHOOSE k \in 1..Len(store) : store[k].key = store[i].key
<1>1. j \in 1..Len(store) /\ store[j].key = store[i].key
  OBVIOUS
<1>2. j = i
  BY <1>1 DEF IsStore
<1> QED
  BY <1>2 DEF At

LEMMA TrimmedIsAValue ==
  ASSUME NEW value \in Kinds
  PROVE  Trimmed(value) \in Kinds
  BY ScriptRunAssumption DEF Trimmed, Kinds

(* A value that is put under a key is found there, and the others stay.    *)
LEMMA StoredIsFound ==
  ASSUME NEW store, IsStore(store), NEW key \in AllKeys, NEW value \in Kinds
  PROVE  /\ IsStore(Stored(store, key, value))
         /\ Fits(store, key) =>
              /\ key \in KeysOf(Stored(store, key, value))
              /\ At(Stored(store, key, value), key) = Trimmed(value)
         /\ \A other \in KeysOf(store) :
              /\ other \in KeysOf(Stored(store, key, value))
              /\ other # key => At(Stored(store, key, value), other) = At(store, other)
<1> DEFINE entry == [key |-> key, value |-> Trimmed(value)]
           after == Stored(store, key, value)
<1>0. entry \in Entries /\ entry.key = key /\ entry.value = Trimmed(value)
  BY TrimmedIsAValue DEF Entries
<1>1. store \in Seq(Entries) /\ Len(store) \in Nat
  BY DEF IsStore
<1>2. CASE ~Fits(store, key)
  BY <1>2 DEF Stored, Fits, KeysOf
<1>3. CASE Fits(store, key) /\ key \in KeysOf(store)
  <2>1. after = [i \in 1..Len(store) |-> IF store[i].key = key THEN entry ELSE store[i]]
    BY <1>3 DEF Stored
  <2> HIDE DEF entry, after
  <2>2. after \in Seq(Entries) /\ Len(after) = Len(store)
    BY <1>0, <1>1, <2>1
  <2>3. \A i \in 1..Len(store) :
          /\ after[i].key = store[i].key
          /\ store[i].key = key => after[i].value = Trimmed(value)
          /\ store[i].key # key => after[i].value = store[i].value
    BY <1>0, <2>1
  <2>4. IsStore(after)
    BY <2>2, <2>3 DEF IsStore
  <2>5. KeysOf(after) = KeysOf(store)
    BY <2>2, <2>3 DEF KeysOf
  <2>6. At(after, key) = Trimmed(value)
    <3>1. PICK i \in 1..Len(store) : store[i].key = key
      BY <1>3 DEF KeysOf
    <3> QED
      BY <2>2, <2>3, <2>4, <3>1, KeyTellsPlace
  <2>7. ASSUME NEW other \in KeysOf(store), other # key
        PROVE  At(after, other) = At(store, other)
    <3>1. PICK i \in 1..Len(store) : store[i].key = other
      BY DEF KeysOf
    <3>2. At(store, other) = store[i].value
      BY <3>1, KeyTellsPlace
    <3>3. At(after, after[i].key) = after[i].value
      BY <2>2, <2>4, KeyTellsPlace
    <3> QED
      BY <2>3, <2>7, <3>1, <3>2, <3>3
  <2> QED
    BY <1>3, <2>4, <2>5, <2>6, <2>7 DEF after
<1>4. CASE Fits(store, key) /\ key \notin KeysOf(store)
  <2>1. after = Append(store, entry)
    BY <1>4 DEF Stored
  <2> HIDE DEF entry, after
  <2>2. /\ after \in Seq(Entries) /\ Len(after) = Len(store) + 1
        /\ after[Len(store) + 1] = entry
        /\ \A i \in 1..Len(store) : after[i] = store[i]
    BY <1>0, <1>1, <2>1
  <2>3. \A i \in 1..Len(store) : store[i].key # key
    BY <1>4 DEF KeysOf
  <2>4. IsStore(after)
    BY <1>0, <1>1, <2>2, <2>3 DEF IsStore
  <2>5. key \in KeysOf(after) /\ At(after, key) = Trimmed(value)
    <3>1. Len(store) + 1 \in 1..Len(after)
      BY <1>1, <2>2
    <3> QED
      BY <1>0, <2>2, <2>4, <3>1, KeyTellsPlace DEF KeysOf
  <2>6. ASSUME NEW other \in KeysOf(store)
        PROVE  other \in KeysOf(after) /\ At(after, other) = At(store, other)
    <3>1. PICK i \in 1..Len(store) : store[i].key = other
      BY DEF KeysOf
    <3>2. i \in 1..Len(after) /\ after[i] = store[i]
      BY <1>1, <2>2
    <3>3. At(store, other) = store[i].value
      BY <3>1, KeyTellsPlace
    <3>4. At(after, after[i].key) = after[i].value
      BY <2>4, <3>2, KeyTellsPlace
    <3> QED
      BY <3>1, <3>2, <3>3, <3>4 DEF KeysOf
  <2> QED
    BY <2>4, <2>5, <2>6 DEF after
<1> QED
  BY <1>2, <1>3, <1>4

(* A number that fits its type comes out of it as it went in.              *)
LEMMA SizedStays ==
  ASSUME NEW n \in Int, Sized(n)
  PROVE  Narrow(n) = n
<1> DEFINE half == Width \div 2
<1>1. half \in Nat /\ Width = 2 * half /\ Width > 0
  BY ScriptRunAssumption
<1>2. n + half \in 0..Width - 1
  BY <1>1 DEF Sized
<1>3. (n + half) % Width = n + half
  BY <1>1, <1>2
<1> QED
  BY <1>1, <1>3 DEF Narrow

LEMMA NarrowIsInt ==
  ASSUME NEW n \in Int
  PROVE  Narrow(n) \in Int
<1> DEFINE half == Width \div 2
<1>1. half \in Nat /\ Width \in Nat /\ Width > 0
  BY ScriptRunAssumption
<1>2. (n + half) % Width \in Int
  BY <1>1
<1> QED
  BY <1>1, <1>2 DEF Narrow

(* What a field makes of a value that lasts is the value.                  *)
LEMMA LastingIsAccepted ==
  ASSUME NEW field, NEW value \in Values, NEW v \in Accept(field, value)
  PROVE  /\ v \in Kinds
         /\ Lasts([field |-> field, value |-> value]) => Trimmed(v) = value
<1> DEFINE sent == [field |-> field, value |-> value]
<1>1. value \in Kinds /\ TextLimit \in Nat
  BY ScriptRunAssumption DEF Kinds
<1>2. /\ field.type = value.kind
      /\ field.bounded => ~(value.n < field.min \/ value.n > field.max)
      /\ v = [value EXCEPT !.n = IF field.type = "number" THEN Narrow(value.n) ELSE value.n]
  BY DEF Accept
<1>3. v \in Kinds
  BY <1>1, <1>2, NarrowIsInt DEF Kinds
<1>4. ASSUME Lasts(sent) PROVE Trimmed(v) = value
  <2>1. CASE field.type = "number"
    <3>1. Sized(value.n) \/ (field.bounded /\ Sized(field.min) /\ Sized(field.max))
      BY <1>2, <1>4, <2>1 DEF Lasts
    <3>2. Sized(value.n)
      <4>1. CASE field.bounded /\ Sized(field.min) /\ Sized(field.max)
        <5>1. value.n >= field.min /\ value.n <= field.max
          BY <1>1, <1>2, <4>1, ScriptRunAssumption DEF Kinds, Sized
        <5> QED
          BY <1>1, <4>1, <5>1, ScriptRunAssumption DEF Kinds, Sized
      <4> QED
        BY <3>1, <4>1
    <3>3. Narrow(value.n) = value.n
      BY <1>1, <3>2, SizedStays DEF Kinds
    <3>4. v = value
      BY <1>1, <1>2, <2>1, <3>3 DEF Kinds
    <3> QED
      BY <1>2, <2>1, <3>4 DEF Trimmed
  <2>2. CASE field.type # "number"
    <3>1. v = value
      BY <1>1, <1>2, <2>2 DEF Kinds
    <3>2. value.kind = "text" => value.n <= TextLimit
      BY <1>4 DEF Lasts
    <3> QED
      BY <1>1, <3>1, <3>2 DEF Trimmed, Kinds
  <2> QED
    BY <2>1, <2>2
<1> QED
  BY <1>3, <1>4
-----------------------------------------------------------------------------
(* What a form has accepted is there to be read: in the store of the       *)
(* script, and, as long as nothing has moved since, in flash.              *)
LiveIsRead ==
  \A id \in DOMAIN scripts :
    IsStore(scripts[id].store) /\ Reads(scripts[id].store, form[id])

SavedIsRead ==
  \A id \in DOMAIN blob :
    IsStore(blob[id].store) /\ (~moved => Reads(blob[id].store, form[id]))

FormInv == form = [id \in Ids |-> form[id]] /\ LiveIsRead /\ SavedIsRead

LEMMA NothingIsRead == \A store : Reads(store, Nothing)
  BY DEF Reads, Lasts

LEMMA InitiallyRead == Init => FormInv
  BY DEF Init, FormInv, LiveIsRead, SavedIsRead, NoScripts

(* Requests. *)
LEMMA PutsAreRead ==
  ASSUME IInv, FormInv, NEW id \in Ids, NEW source \in Sources, Put(id, source)
  PROVE  FormInv'
<1>1. /\ form' = [form EXCEPT ![id] = Nothing] /\ moved' = TRUE /\ blob' = blob
      /\ scripts' = With(id, Loaded(source, <<>>))
  BY DEF Put, Edit
<1>2. /\ DOMAIN scripts' = DOMAIN scripts \cup {id}
      /\ scripts'[id].store = <<>> /\ form'[id] = Nothing
      /\ \A other \in DOMAIN scripts' \ {id} :
           scripts'[other] = scripts[other] /\ form'[other] = form[other]
  BY <1>1 DEF With, Loaded, FormInv, IInv, AllAreScripts
<1>3. LiveIsRead'
  BY <1>2, NoStore, NothingIsRead DEF FormInv, LiveIsRead
<1> QED
  BY <1>1, <1>3 DEF FormInv, SavedIsRead

LEMMA RemovesAreRead ==
  ASSUME IInv, FormInv, NEW id \in Ids, Remove(id)
  PROVE  FormInv'
<1>1. /\ form' = [form EXCEPT ![id] = Nothing] /\ moved' = TRUE /\ blob' = blob
      /\ scripts' = [other \in DOMAIN scripts \ {id} |-> scripts[other]]
  BY DEF Remove, Edit
<1>2. LiveIsRead'
  BY <1>1 DEF FormInv, LiveIsRead
<1> QED
  BY <1>1, <1>2 DEF FormInv, SavedIsRead

LEMMA SetsAreRead ==
  ASSUME IInv, FormInv, NEW id \in Ids, NEW field \in Fields, NEW value \in Values,
         Set(id, field, value)
  PROVE  FormInv'
<1> DEFINE sent == [field |-> field, value |-> value]
           store == scripts[id].store
<1>1. PICK v \in Accept(field, value) :
        /\ scripts' = [scripts EXCEPT ![id].store = Stored(store, field.key, v)]
        /\ form' = [form EXCEPT ![id] = sent]
  BY DEF Set
<1>2. id \in DOMAIN scripts /\ Fits(store, field.key) /\ moved' = TRUE /\ blob' = blob
  BY DEF Set, Edit
<1> DEFINE after == Stored(store, field.key, v)
<1>3. v \in Kinds /\ (Lasts(sent) => Trimmed(v) = value)
  BY LastingIsAccepted
<1>4. field.key \in AllKeys /\ IsStore(store)
  BY <1>2 DEF AllKeys, FormInv, LiveIsRead
<1>5. /\ IsStore(after) /\ field.key \in KeysOf(after)
      /\ At(after, field.key) = Trimmed(v)
  BY <1>2, <1>3, <1>4, StoredIsFound
<1>6. Reads(after, sent)
  BY <1>3, <1>5 DEF Reads
<1>7. /\ DOMAIN scripts' = DOMAIN scripts
      /\ scripts'[id].store = after /\ form'[id] = sent
      /\ \A other \in DOMAIN scripts' \ {id} :
           scripts'[other] = scripts[other] /\ form'[other] = form[other]
  <2> HIDE DEF after
  <2>1. scripts' = [scripts EXCEPT ![id].store = after]
    BY <1>1 DEF after
  <2> QED
    BY <1>1, <1>2, <2>1 DEF IInv, AllAreScripts, IsScript, FormInv
<1> HIDE DEF after, sent
<1>8. LiveIsRead'
  BY <1>5, <1>6, <1>7 DEF FormInv, LiveIsRead
<1> QED
  BY <1>1, <1>2, <1>8 DEF FormInv, SavedIsRead

(* A script writes: a key that a form has set is not the form's any more.  *)
LEMMA WritesAreRead ==
  ASSUME IInv, FormInv, NEW key \in Keys, NEW value \in Values, Write(key, value)
  PROVE  FormInv'
<1> DEFINE id == call.id
           store == scripts[id].store
           after == Stored(store, key, value)
<1>1. /\ scripts' = [scripts EXCEPT ![id].store = after]
      /\ form' = [form EXCEPT ![id] = IF form[id].field.key = key THEN Nothing ELSE form[id]]
      /\ moved' = moved /\ blob' = blob
  BY DEF Write
<1>2. id \in DOMAIN scripts /\ id \in Ids
  BY DEF IInv, AllAreScripts, Write, Running, CalledIsReady
<1>3. value \in Kinds /\ key \in AllKeys /\ IsStore(store)
  BY <1>2, ScriptRunAssumption DEF Kinds, AllKeys, FormInv, LiveIsRead
<1>4. /\ IsStore(after)
      /\ \A other \in KeysOf(store) : /\ other \in KeysOf(after)
                                      /\ other # key => At(after, other) = At(store, other)
  BY <1>3, StoredIsFound
<1>5. form'[id] = Nothing \/ (form'[id] = form[id] /\ form[id].field.key # key)
  BY <1>1, <1>2 DEF FormInv
<1>6. Reads(after, form'[id])
  <2>1. CASE form'[id] = Nothing
    BY <2>1, NothingIsRead
  <2>2. CASE form'[id] = form[id] /\ form[id].field.key # key
    <3>1. Reads(store, form[id])
      BY <1>2 DEF FormInv, LiveIsRead
    <3> HIDE DEF store, after
    <3> QED
      BY <1>4, <2>2, <3>1 DEF Reads
  <2> QED
    BY <1>5, <2>1, <2>2
<1>7. /\ DOMAIN scripts' = DOMAIN scripts
      /\ scripts'[id].store = after
      /\ \A other \in DOMAIN scripts' \ {id} : scripts'[other] = scripts[other]
  <2> HIDE DEF after
  <2> QED
    BY <1>1, <1>2 DEF IInv, AllAreScripts, IsScript
<1>8. \A other \in Ids : form'[other] = Nothing \/ form'[other] = form[other]
  BY <1>1, <1>2 DEF FormInv
<1>9. \A other \in Ids \ {id} : form'[other] = form[other]
  BY <1>1, <1>2 DEF FormInv
<1>10. LiveIsRead'
  <2> HIDE DEF after, store, id
  <2> QED
    BY <1>4, <1>6, <1>7, <1>9 DEF FormInv, LiveIsRead, IInv, AllAreScripts
<1>11. SavedIsRead'
  BY <1>1, <1>8, NothingIsRead DEF FormInv, SavedIsRead, IInv, SavedAreScripts
<1> QED
  BY <1>1, <1>10, <1>11 DEF FormInv

(* A call that ends leaves the stores alone, whatever comes of it. *)
LEMMA LeavesAreRead ==
  ASSUME IInv, FormInv, Running, NEW result, Leave(result)
  PROVE  FormInv'
<1>1. AllAreScripts /\ call.id \in DOMAIN scripts
  BY DEF IInv, Running, CalledIsReady
<1>2. \/ scripts' = scripts
      \/ \E problem : problem # NoProblem /\ scripts' = Failing(call.id, problem)
  BY DEF Leave, Drawn, Pressed, NoProblem
<1>3. /\ DOMAIN scripts' = DOMAIN scripts
      /\ \A id \in DOMAIN scripts : scripts'[id].store = scripts[id].store
  BY <1>1, <1>2, FailedIsScript
<1>4. moved' = moved /\ blob' = blob /\ form' = form
  BY DEF Leave
<1> QED
  BY <1>3, <1>4 DEF FormInv, LiveIsRead, SavedIsRead

(* A save writes what is in the stores, and a start takes it from there.   *)
LEMMA SavesAreRead == ASSUME IInv, FormInv, Save PROVE FormInv'
<1>1. /\ UNCHANGED <<scripts, form>> /\ DOMAIN blob' = DOMAIN scripts
      /\ \A id \in DOMAIN scripts : blob'[id].store = scripts[id].store
  BY DEF Save
<1> QED
  BY <1>1 DEF FormInv, LiveIsRead, SavedIsRead

LEMMA BootsAreRead ==
  ASSUME IInv, FormInv, NEW readable \in BOOLEAN, Boot(readable)
  PROVE  FormInv'
<1>1. \A id \in Ids : form'[id] = Nothing \/ (readable /\ ~moved /\ form'[id] = form[id])
  BY DEF Boot
<1>2. form' = [id \in Ids |-> form'[id]]
  BY DEF Boot, FormInv
<1>3. CASE readable
  <2>1. /\ blob' = blob /\ DOMAIN scripts' = DOMAIN blob
        /\ \A id \in DOMAIN blob : scripts'[id].store = blob[id].store
    BY <1>3 DEF Boot, Restored, Loaded
  <2>2. \A id \in DOMAIN blob : IsStore(blob[id].store) /\ Reads(blob[id].store, form'[id])
    BY <1>1, NothingIsRead DEF FormInv, SavedIsRead, IInv, SavedAreScripts
  <2> QED
    BY <1>2, <2>1, <2>2 DEF FormInv, LiveIsRead, SavedIsRead
<1>4. CASE ~readable
  BY <1>2, <1>4 DEF Boot, NoScripts, FormInv, LiveIsRead, SavedIsRead
<1> QED
  BY <1>3, <1>4

LEMMA FormsAreKept == IInv /\ FormInv /\ [Next]_vars => FormInv'
<1> SUFFICES ASSUME IInv, FormInv, [Next]_vars PROVE FormInv'
  OBVIOUS
<1>1. CASE UNCHANGED <<library, form>>
  BY <1>1 DEF library, FormInv, LiveIsRead, SavedIsRead
<1>2. CASE Return
  BY <1>2, LeavesAreRead DEF Return
<1>3. CASE Beat
  BY <1>1, <1>3, LeavesAreRead DEF Beat
<1> QED
  BY <1>1, <1>2, <1>3, PutsAreRead, RemovesAreRead, SetsAreRead, WritesAreRead, SavesAreRead,
     BootsAreRead DEF Next, AskDuration, Press, Frame, Back, vars

(* Whatever is drawn, pressed, saved and started in between: what a form   *)
(* has accepted is what the script reads under that key, until it writes   *)
(* there itself or is put anew, as long as the number fits its type and    *)
(* flash has room for the text.                                            *)
THEOREM FormsAreRead == Spec => []AcceptedIsRead
<1>1. Spec => []IInv
  BY Initially, Inductive, PTL DEF Spec
<1>2. FormInv => AcceptedIsRead
  BY DEF FormInv, LiveIsRead, AcceptedIsRead
<1> QED
  BY <1>1, <1>2, InitiallyRead, FormsAreKept, PTL DEF Spec

-----------------------------------------------------------------------------
(* Induction over the natural numbers, from their being well-founded. *)
LEMMA SetInduction ==
  ASSUME NEW S \in SUBSET Nat, 0 \in S, \A n \in S : n + 1 \in S
  PROVE  \A n \in Nat : n \in S
<1> DEFINE Rest == Nat \ S
<1> SUFFICES ASSUME Rest # {} PROVE FALSE
  OBVIOUS
<1>1. PICK x \in Rest : \A y \in Rest : ~(<<y, x>> \in OpToRel(<, Nat))
  <2>1. Rest \subseteq Nat
    OBVIOUS
  <2> HIDE DEF Rest
  <2> QED
    BY <2>1, WFMin, NatLessThanWellFounded
<1>2. x # 0 /\ x \in Nat
  OBVIOUS
<1>3. x - 1 \in Rest
  BY <1>2
<1>4. <<x - 1, x>> \in OpToRel(<, Nat)
  BY <1>2 DEF OpToRel
<1> QED
  BY <1>1, <1>3, <1>4

-----------------------------------------------------------------------------
(* What is kept of a sequence, entry by entry: the function Kept chooses   *)
(* exists.                                                                 *)
Added(seq, places, f, n) ==
  IF n = 0 THEN <<>>
  ELSE IF n \in places THEN Append(f[n - 1], seq[n]) ELSE f[n - 1]

LEMMA Builds ==
  ASSUME NEW seq, NEW places
  PROVE  \A m \in Nat : \E f : f = [n \in 0..m |-> Added(seq, places, f, n)]
<1> DEFINE S == {m \in Nat : \E f : f = [n \in 0..m |-> Added(seq, places, f, n)]}
<1>1. 0 \in S
  <2> DEFINE f == [n \in 0..0 |-> <<>>]
  <2>1. f = [n \in 0..0 |-> Added(seq, places, f, n)]
    BY DEF Added
  <2> QED
    BY <2>1
<1>2. ASSUME NEW m \in S PROVE m + 1 \in S
  <2>1. PICK f : f = [n \in 0..m |-> Added(seq, places, f, n)]
    OBVIOUS
  <2> DEFINE g == [n \in 0..m + 1 |-> IF n <= m THEN f[n] ELSE Added(seq, places, f, n)]
  <2>2. ASSUME NEW n \in 0..m + 1 PROVE g[n] = Added(seq, places, g, n)
    <3>1. n = 0 \/ g[n - 1] = f[n - 1]
      OBVIOUS
    <3>2. g[n] = Added(seq, places, f, n)
      BY <2>1
    <3> HIDE DEF g
    <3> QED
      BY <3>1, <3>2 DEF Added
  <2>3. g = [n \in 0..m + 1 |-> Added(seq, places, g, n)]
    <3>1. DOMAIN g = 0..m + 1 /\ g = [n \in 0..m + 1 |-> g[n]]
      OBVIOUS
    <3> HIDE DEF g
    <3> QED
      BY <2>2, <3>1
  <2> HIDE DEF g
  <2> QED
    BY <2>3
<1> HIDE DEF S
<1>3. \A m \in Nat : m \in S
  <2>1. S \in SUBSET Nat
    BY DEF S
  <2> QED
    BY <1>1, <1>2, <2>1, SetInduction
<1> QED
  BY <1>3 DEF S


(* Kept, as the last of a row of sequences, one for each entry looked at.  *)
LEMMA KeptStepByStep ==
  ASSUME NEW seq, NEW places, Len(seq) \in Nat
  PROVE  \E f : /\ f = [n \in 0..Len(seq) |-> Added(seq, places, f, n)]
                /\ F!Kept(seq, places) = f[Len(seq)]
<1> DEFINE f == CHOOSE f : f = [n \in 0..Len(seq) |-> Added(seq, places, f, n)]
<1>1. f = [n \in 0..Len(seq) |-> Added(seq, places, f, n)]
  BY Builds
<1>2. F!Kept(seq, places) = f[Len(seq)]
  BY DEF F!Kept, Added
<1> HIDE DEF f
<1> QED
  BY <1>1, <1>2

(* A part of a sequence: its entries are those at the places given, each   *)
(* once and in the order they had.                                         *)
Order(g, part, seq, places) ==
  /\ g \in [DOMAIN part -> places]
  /\ \A i, j \in DOMAIN part : i < j => g[i] < g[j]
  /\ \A i \in DOMAIN part : part[i] = seq[g[i]]
  /\ \A k \in places : \E i \in DOMAIN part : g[i] = k

IsPart(part, seq, places) == \E g : Order(g, part, seq, places)

LEMMA AppendedIsPart ==
  ASSUME NEW R, NEW seq \in Seq(R), NEW places \in SUBSET DOMAIN seq, NEW n \in Nat,
         NEW s \in Seq(R), IsPart(s, seq, places \cap 1..n), n + 1 \in places
  PROVE  IsPart(Append(s, seq[n + 1]), seq, places \cap 1..(n + 1))
<1> DEFINE a == seq[n + 1]
           t == Append(s, a)
<1>1. PICK g : Order(g, s, seq, places \cap 1..n)
  BY DEF IsPart
<1> DEFINE h == [i \in DOMAIN t |-> IF i = Len(s) + 1 THEN n + 1 ELSE g[i]]
<1>2. a \in R
  OBVIOUS
<1>3. DOMAIN s = 1..Len(s) /\ Len(s) \in Nat
  OBVIOUS
<1>4. /\ DOMAIN t = 1..Len(s) + 1 /\ t[Len(s) + 1] = a
      /\ \A i \in 1..Len(s) : t[i] = s[i]
  BY <1>2, <1>3
<1>5. \A i \in 1..Len(s) : g[i] \in places \cap 1..n
  BY <1>1, <1>3 DEF Order
<1>6. /\ h[Len(s) + 1] = n + 1
      /\ \A i \in 1..Len(s) : h[i] = g[i]
  BY <1>3, <1>4
<1>7. h \in [DOMAIN t -> places \cap 1..(n + 1)]
  BY <1>3, <1>4, <1>5
<1> HIDE DEF h, t
<1>8. \A i, j \in DOMAIN t : i < j => h[i] < h[j]
  <2> SUFFICES ASSUME NEW i \in DOMAIN t, NEW j \in DOMAIN t, i < j PROVE h[i] < h[j]
    OBVIOUS
  <2>1. i \in 1..Len(s)
    BY <1>3, <1>4
  <2>2. CASE j \in 1..Len(s)
    BY <1>1, <1>3, <1>6, <2>1, <2>2 DEF Order
  <2>3. CASE j = Len(s) + 1
    BY <1>5, <1>6, <2>1, <2>3
  <2> QED
    BY <1>3, <1>4, <2>2, <2>3
<1>9. \A i \in DOMAIN t : t[i] = seq[h[i]]
  <2> SUFFICES ASSUME NEW i \in DOMAIN t PROVE t[i] = seq[h[i]]
    OBVIOUS
  <2>1. CASE i \in 1..Len(s)
    BY <1>1, <1>3, <1>4, <1>6, <2>1 DEF Order
  <2>2. CASE i = Len(s) + 1
    BY <1>4, <1>6, <2>2
  <2> QED
    BY <1>3, <1>4, <2>1, <2>2
<1>10. \A k \in places \cap 1..(n + 1) : \E i \in DOMAIN t : h[i] = k
  <2> SUFFICES ASSUME NEW k \in places \cap 1..(n + 1) PROVE \E i \in DOMAIN t : h[i] = k
    OBVIOUS
  <2>1. CASE k = n + 1
    BY <1>3, <1>4, <1>6, <2>1
  <2>2. CASE k # n + 1
    <3>1. k \in places \cap 1..n
      BY <2>2
    <3>2. PICK i \in DOMAIN s : g[i] = k
      BY <1>1, <3>1 DEF Order
    <3> QED
      BY <1>3, <1>4, <1>6, <3>2
  <2> QED
    BY <2>1, <2>2
<1>11. IsPart(t, seq, places \cap 1..(n + 1))
  BY <1>7, <1>8, <1>9, <1>10 DEF IsPart, Order
<1> QED
  BY <1>11 DEF t

(* What is kept is a part. *)
LEMMA KeptIs ==
  ASSUME NEW R, NEW seq \in Seq(R), NEW places \in SUBSET DOMAIN seq
  PROVE  /\ F!Kept(seq, places) \in Seq(R) /\ Len(F!Kept(seq, places)) <= Len(seq)
         /\ IsPart(F!Kept(seq, places), seq, places)
<1>1. Len(seq) \in Nat /\ DOMAIN seq = 1..Len(seq)
  OBVIOUS
<1>2. PICK f : /\ f = [n \in 0..Len(seq) |-> Added(seq, places, f, n)]
               /\ F!Kept(seq, places) = f[Len(seq)]
  BY <1>1, KeptStepByStep
<1> DEFINE Good(s, n) == s \in Seq(R) /\ Len(s) <= n /\ IsPart(s, seq, places \cap 1..n)
           S == {n \in Nat : n <= Len(seq) => Good(f[n], n)}
<1>3. 0 \in S
  <2>1. f[0] = <<>>
    BY <1>1, <1>2 DEF Added
  <2>2. <<>> \in Seq(R) /\ Len(<<>>) = 0 /\ DOMAIN <<>> = {}
    OBVIOUS
  <2>3. Order([i \in {} |-> 0], <<>>, seq, places \cap 1..0)
    BY <2>2 DEF Order
  <2>4. IsPart(<<>>, seq, places \cap 1..0)
    BY <2>3 DEF IsPart
  <2>5. Good(f[0], 0)
    BY <2>1, <2>2, <2>4
  <2> QED
    BY <2>5
<1>4. ASSUME NEW n \in S PROVE n + 1 \in S
  <2> SUFFICES ASSUME n + 1 <= Len(seq) PROVE Good(f[n + 1], n + 1)
    OBVIOUS
  <2>1. n \in Nat /\ Good(f[n], n)
    BY <1>1
  <2>2. f[n + 1] = IF n + 1 \in places THEN Append(f[n], seq[n + 1]) ELSE f[n]
    <3>1. n + 1 \in 0..Len(seq) /\ n + 1 # 0 /\ (n + 1) - 1 = n
      BY <1>1, <2>1
    <3>2. f[n + 1] = Added(seq, places, f, n + 1)
      BY <1>2, <3>1
    <3> QED
      BY <3>1, <3>2 DEF Added
  <2>3. CASE n + 1 \notin places
    <3>1. places \cap 1..(n + 1) = places \cap 1..n
      BY <2>1, <2>3
    <3>2. f[n + 1] = f[n]
      BY <2>2, <2>3
    <3>3. f[n + 1] \in Seq(R) /\ Len(f[n + 1]) <= n + 1
      BY <2>1, <3>2
    <3>4. IsPart(f[n + 1], seq, places \cap 1..(n + 1))
      BY <2>1, <3>1, <3>2
    <3> QED
      BY <3>3, <3>4
  <2>4. CASE n + 1 \in places
    <3>1. seq[n + 1] \in R
      BY <2>4
    <3>2. Append(f[n], seq[n + 1]) \in Seq(R) /\ Len(Append(f[n], seq[n + 1])) <= n + 1
      BY <2>1, <3>1
    <3>3. IsPart(Append(f[n], seq[n + 1]), seq, places \cap 1..(n + 1))
      BY <2>1, <2>4, AppendedIsPart
    <3> QED
      BY <2>2, <2>4, <3>2, <3>3
  <2> QED
    BY <2>3, <2>4
<1> HIDE DEF S
<1>5. \A n \in Nat : n \in S
  <2>1. S \in SUBSET Nat
    BY DEF S
  <2> QED
    BY <1>3, <1>4, <2>1, SetInduction
<1>6. Good(f[Len(seq)], Len(seq))
  <2>1. Len(seq) \in S /\ Len(seq) <= Len(seq)
    BY <1>1, <1>5
  <2> HIDE DEF Good
  <2> QED
    BY <2>1 DEF S
<1>7. places \cap 1..Len(seq) = places
  BY <1>1
<1> QED
  BY <1>2, <1>6, <1>7

-----------------------------------------------------------------------------
(* The feeds.                                                              *)
Feed ==
  [script : Scripts, url : Urls, interval : MinInterval..MaxInterval, wait : Int,
   body : Urls \cup {"none"}]

Key(feed) == <<feed.script, feed.url>>

(* At most so many feeds, each asked for by its script, no two of a kind. *)
Followed(seq) ==
  /\ seq \in Seq(Feed) /\ Len(seq) <= FeedsInAll
  /\ \A i \in DOMAIN seq : Key(seq[i]) \in F!Wishes
  /\ \A i, j \in DOMAIN seq : Key(seq[i]) = Key(seq[j]) => i = j

Own(seq) == \A i \in DOMAIN seq : seq[i].body \in {"none", seq[i].url}

(* How long ago each address was asked for; one that is excused counts as  *)
(* one that was not asked for lately.                                      *)
Spent == [p \in F!Wishes |-> IF p \in excused THEN MinInterval ELSE since[p]]

SpentAfter(d) ==
  [p \in F!Wishes |-> IF p \in F!ExcusedAfter(d) THEN MinInterval ELSE F!SinceAfter(d)[p]]

(* A feed that waits has its address asked for again after MinInterval at  *)
(* the earliest, but for the one that is being fetched; and an address     *)
(* nobody follows was not asked for so long.                               *)
Pause(feed) == IF feed.wait > 0 THEN feed.wait ELSE 0

Spaced(seq, place, ages) ==
  \A i \in DOMAIN seq : i # place => ages[Key(seq[i])] + Pause(seq[i]) >= MinInterval

Rested(seq, ages) ==
  \A p \in F!Wishes : (\A i \in DOMAIN seq : Key(seq[i]) # p) => ages[p] = MinInterval

Ages(ages) == ages \in [F!Wishes -> 0..MinInterval]

Replies ==
  [stage : {"idle", "running", "done", "failed"}, exchange : {0} \cup 1..MaxThreads,
   body : Urls \cup {"none"}, status : {"none", "ok", "error"}]

(* What is in flight is of the feed at its place. *)
InFlight(seq, place, c, ts) ==
  place > 0 =>
    /\ c.stage = "running" => \A t \in ts : t.id = c.exchange => t.url = seq[place].url
    /\ c.stage = "done" /\ c.status = "ok" => c.body = seq[place].url

FeedsInv ==
  /\ loaded \subseteq Scripts /\ age \in 0..Timeout /\ up \in BOOLEAN
  /\ threads \subseteq [id : 1..MaxThreads, url : Urls]
  /\ client \in Replies
  /\ Followed(feeds) /\ running \in 0..Len(feeds) /\ Ages(since)
  /\ Own(feeds)
  /\ InFlight(feeds, running, client, threads)
  /\ Spaced(feeds, running, Spent)
  /\ Rested(feeds, Spent)

LEMMA FeedsCaps ==
  /\ MinInterval \in Nat \ {0} /\ MaxInterval \in Nat /\ MinInterval <= MaxInterval
  /\ Backoff \in Nat /\ MinInterval <= Backoff
  /\ Timeout \in Nat /\ Overdue \in Nat /\ FeedsInAll \in Nat
  /\ \A s \in Scripts : Wanted[s] \subseteq [url : Urls, interval : Int]
  BY RemoteAssumption DEF F!FeedsAssumption

LEMMA SpentIs ==
  ASSUME Ages(since)
  PROVE  /\ Ages(Spent)
         /\ \A p \in F!Wishes : Spent[p] = IF p \in excused THEN MinInterval ELSE since[p]
<1>1. \A p \in F!Wishes : Spent[p] = IF p \in excused THEN MinInterval ELSE since[p]
  BY DEF Spent
<1>2. \A p \in F!Wishes : Spent[p] \in 0..MinInterval
  BY <1>1, FeedsCaps DEF Ages
<1> QED
  BY <1>1, <1>2 DEF Ages, Spent

LEMMA SameIsSpent == UNCHANGED F!history => UNCHANGED Spent /\ UNCHANGED since
  BY DEF F!history, Spent

(* What is as it was but for intervals, waits and bodies. *)
Alike(new, old) ==
  /\ new \in Seq(Feed) /\ Len(new) = Len(old)
  /\ \A i \in DOMAIN old : Key(new[i]) = Key(old[i])

LEMMA AlikeIs ==
  ASSUME NEW old, NEW new, Followed(old), Alike(new, old)
  PROVE  /\ Followed(new) /\ DOMAIN new = DOMAIN old
         /\ \A i \in DOMAIN old : new[i].url = old[i].url
<1>1. DOMAIN new = DOMAIN old
  BY DEF Alike, Followed
<1>2. \A i \in DOMAIN old : Key(new[i]) = Key(old[i])
  BY DEF Alike
<1>3. Followed(new)
  BY <1>1, <1>2 DEF Alike, Followed
<1> QED
  BY <1>1, <1>2, <1>3 DEF Key

LEMMA AlikeIsRested ==
  ASSUME NEW old, NEW new, Followed(old), Alike(new, old), NEW ages, Rested(old, ages)
  PROVE  Rested(new, ages)
<1>1. DOMAIN new = DOMAIN old
  BY AlikeIs
<1> QED
  BY <1>1 DEF Alike, Rested

LEMMA AlikeInFlight ==
  ASSUME NEW old, NEW new, Followed(old), Alike(new, old), NEW place \in 0..Len(old), NEW c, NEW ts,
         InFlight(old, place, c, ts)
  PROVE  InFlight(new, place, c, ts)
<1>1. place > 0 => new[place].url = old[place].url
  BY AlikeIs DEF Followed
<1> QED
  BY <1>1 DEF InFlight

(* One feed in a list is changed, and stays the feed it is. *)
LEMMA ChangedIs ==
  ASSUME NEW seq, Followed(seq), NEW i \in DOMAIN seq, NEW feed \in Feed,
         Key(feed) = Key(seq[i]), NEW new, new = [seq EXCEPT ![i] = feed]
  PROVE  /\ Alike(new, seq) /\ new[i] = feed
         /\ \A j \in DOMAIN seq : j # i => new[j] = seq[j]
  BY DEF Followed, Alike

-----------------------------------------------------------------------------
(* follow. *)
LEMMA FeedIs ==
  ASSUME NEW feed \in Feed
  PROVE  /\ feed.script \in Scripts /\ feed.url \in Urls
         /\ feed.interval \in MinInterval..MaxInterval /\ feed.wait \in Int
         /\ feed.body \in Urls \cup {"none"}
  BY DEF Feed

LEMMA BegunIs ==
  ASSUME FeedsInv, NEW s \in loaded, NEW u \in Urls, <<s, u>> \in F!Wishes,
         NEW interval \in MinInterval..MaxInterval, ~F!Held(s, u),
         NEW new, new = F!Begun(s, u, interval)
  PROVE  /\ Followed(new) /\ running \in 0..Len(new) /\ Own(new)
         /\ InFlight(new, running, client, threads)
         /\ Spaced(new, running, Spent) /\ Rested(new, Spent)
<1>1. CASE new = feeds
  BY <1>1 DEF FeedsInv
<1>2. CASE /\ Len(feeds) < FeedsInAll /\ new = Append(feeds, F!NewFeed(s, u, interval))
  <2> DEFINE feed == F!NewFeed(s, u, interval)
  <2>1. feed \in Feed /\ Key(feed) = <<s, u>> /\ feed.url = u /\ feed.body = "none" /\ Pause(feed) = 0
    <3>1. s \in Scripts
      BY DEF FeedsInv
    <3>2. F!Never \in Int /\ F!Never < 0
      BY FeedsCaps DEF F!Never
    <3> QED
      BY <3>1, <3>2 DEF F!NewFeed, Feed, Key, Pause
  <2> HIDE DEF feed
  <2>2. feeds \in Seq(Feed) /\ DOMAIN feeds = 1..Len(feeds) /\ Len(feeds) \in Nat
    BY DEF FeedsInv, Followed
  <2>3. /\ new \in Seq(Feed) /\ Len(new) = Len(feeds) + 1 /\ DOMAIN new = 1..Len(feeds) + 1
        /\ new[Len(feeds) + 1] = feed /\ \A i \in 1..Len(feeds) : new[i] = feeds[i]
    BY <1>2, <2>1, <2>2 DEF feed
  <2>4. \A i \in DOMAIN feeds : Key(feeds[i]) # <<s, u>>
    BY <2>2 DEF F!Held, F!Places, Key
  <2>5. Followed(new)
    <3>1. /\ \A i \in DOMAIN feeds : Key(feeds[i]) \in F!Wishes
          /\ \A i, j \in DOMAIN feeds : Key(feeds[i]) = Key(feeds[j]) => i = j
      BY DEF FeedsInv, Followed
    <3>2. Len(new) <= FeedsInAll
      BY <1>2, <2>2, <2>3, FeedsCaps
    <3>3. \A i \in DOMAIN new : i \in DOMAIN feeds \/ i = Len(feeds) + 1
      BY <2>2, <2>3
    <3>4. \A i \in DOMAIN new : Key(new[i]) \in F!Wishes
      BY <2>1, <2>2, <2>3, <3>1, <3>3
    <3>5. \A i, j \in DOMAIN new : Key(new[i]) = Key(new[j]) => i = j
      BY <2>1, <2>2, <2>3, <2>4, <3>1, <3>3
    <3> QED
      BY <2>3, <3>2, <3>4, <3>5 DEF Followed
  <2>6. running \in 0..Len(feeds) /\ running \in 0..Len(new)
    BY <2>2, <2>3 DEF FeedsInv
  <2>7. Own(new)
    BY <2>1, <2>2, <2>3 DEF FeedsInv, Own
  <2>8. InFlight(new, running, client, threads)
    <3>1. running > 0 => new[running] = feeds[running]
      BY <2>2, <2>3, <2>6
    <3> QED
      BY <3>1 DEF FeedsInv, InFlight
  <2>9. Spent[<<s, u>>] = MinInterval
    BY <2>4 DEF FeedsInv, Rested
  <2>10. Spaced(new, running, Spent)
    <3> SUFFICES ASSUME NEW i \in DOMAIN new, i # running
                 PROVE  Spent[Key(new[i])] + Pause(new[i]) >= MinInterval
      BY DEF Spaced
    <3>1. CASE i \in 1..Len(feeds)
      BY <2>2, <2>3, <3>1 DEF FeedsInv, Spaced
    <3>2. CASE i = Len(feeds) + 1
      <4>1. new[i] = feed
        BY <2>3, <3>2
      <4>2. Spent[Key(new[i])] = MinInterval /\ Pause(new[i]) = 0
        BY <2>1, <2>9, <4>1
      <4> QED
        BY <4>2, FeedsCaps
    <3> QED
      BY <2>2, <2>3, <3>1, <3>2
  <2>11. Rested(new, Spent)
    <3> SUFFICES ASSUME NEW p \in F!Wishes, \A i \in DOMAIN new : Key(new[i]) # p
                 PROVE  Spent[p] = MinInterval
      BY DEF Rested
    <3>1. \A i \in DOMAIN feeds : Key(feeds[i]) # p
      BY <2>2, <2>3
    <3> QED
      BY <3>1 DEF FeedsInv, Rested
  <2> QED
    BY <2>5, <2>6, <2>7, <2>8, <2>10, <2>11
<1> QED
  BY <1>1, <1>2, FeedsCaps DEF F!Begun, FeedsInv, Followed

LEMMA RunKeeps ==
  ASSUME FeedsInv, NEW s \in Scripts, F!Run(s)
  PROVE  FeedsInv'
<1>1. s \in loaded /\ UNCHANGED <<loaded, running, age, client, threads, up>> /\ UNCHANGED <<Spent, since>>
  BY SameIsSpent DEF F!Run
<1>2. PICK wish \in Wanted[s] : feeds' = F!Follow(s, wish.url, F!Clamp(wish.interval))
  BY DEF F!Run
<1>3. wish.url \in Urls /\ wish.interval \in Int
  BY FeedsCaps
<1> DEFINE u == wish.url
           interval == F!Clamp(wish.interval)
<1>4. interval \in MinInterval..MaxInterval
  BY <1>3, FeedsCaps DEF F!Clamp
<1>5. <<s, u>> \in F!Wishes
  BY <1>3 DEF F!Wishes
<1> HIDE DEF u, interval
<1>6. CASE ~F!Held(s, u)
  <2>1. feeds' = F!Begun(s, u, interval)
    BY <1>2, <1>6 DEF F!Follow, u, interval
  <2>2. u \in Urls
    BY <1>3 DEF u
  <2>3. /\ Followed(feeds') /\ running \in 0..Len(feeds') /\ Own(feeds')
        /\ InFlight(feeds', running, client, threads)
        /\ Spaced(feeds', running, Spent) /\ Rested(feeds', Spent)
    BY <1>1, <1>4, <1>5, <1>6, <2>1, <2>2, BegunIs
  <2> QED
    BY <1>1, <2>3 DEF FeedsInv
<1>7. CASE F!Held(s, u)
  <2> DEFINE i == F!Place(s, u)
             feed == [feeds[i] EXCEPT !.interval = interval]
  <2>1. i \in 1..Len(feeds)
    BY <1>7 DEF F!Held, F!Place, F!Places
  <2>2. feeds' = [feeds EXCEPT ![i] = feed]
    BY <1>2, <1>7 DEF F!Follow, u, interval
  <2> HIDE DEF i
  <2>3. feeds \in Seq(Feed) /\ DOMAIN feeds = 1..Len(feeds) /\ feeds[i] \in Feed
    BY <2>1 DEF FeedsInv, Followed
  <2>4. /\ feed \in Feed /\ Key(feed) = Key(feeds[i]) /\ feed.wait = feeds[i].wait
        /\ feed.url = feeds[i].url /\ feed.body = feeds[i].body
    BY <1>4, <2>3 DEF Feed, Key
  <2> HIDE DEF feed
  <2>5. /\ Alike(feeds', feeds) /\ feeds'[i] = feed
        /\ \A j \in DOMAIN feeds : j # i => feeds'[j] = feeds[j]
    BY <2>1, <2>2, <2>3, <2>4, ChangedIs DEF FeedsInv
  <2>6. /\ Followed(feeds') /\ DOMAIN feeds' = DOMAIN feeds /\ Len(feeds') = Len(feeds)
        /\ Rested(feeds', Spent) /\ InFlight(feeds', running, client, threads)
    BY <2>5, AlikeIs, AlikeIsRested, AlikeInFlight DEF FeedsInv, Alike
  <2>7. Own(feeds') /\ Spaced(feeds', running, Spent)
    BY <2>3, <2>4, <2>5, <2>6 DEF FeedsInv, Own, Spaced, Pause
  <2> QED
    BY <1>1, <2>6, <2>7 DEF FeedsInv
<1> QED
  BY <1>6, <1>7

-----------------------------------------------------------------------------
(* forget. *)
LEMMA PartIs ==
  ASSUME NEW seq, Followed(seq), NEW part \in Seq(Feed), Len(part) <= Len(seq),
         NEW places \in SUBSET DOMAIN seq, IsPart(part, seq, places)
  PROVE  /\ Followed(part)
         /\ \A i \in DOMAIN part : \E k \in places : part[i] = seq[k]
         /\ \A k \in places : \E i \in DOMAIN part : part[i] = seq[k]
<1>1. PICK g : Order(g, part, seq, places)
  BY DEF IsPart
<1>2. DOMAIN part = 1..Len(part) /\ Len(part) \in Nat /\ Len(seq) \in Nat /\ seq \in Seq(Feed)
  BY DEF Followed
<1>3. \A i \in DOMAIN part : g[i] \in places /\ g[i] \in DOMAIN seq /\ part[i] = seq[g[i]]
  BY <1>1 DEF Order
<1>4. \A i, j \in DOMAIN part : g[i] = g[j] => i = j
  <2> SUFFICES ASSUME NEW i \in DOMAIN part, NEW j \in DOMAIN part, g[i] = g[j] PROVE i = j
    OBVIOUS
  <2>1. g[i] \in Int /\ g[j] \in Int /\ i \in Int /\ j \in Int
    BY <1>2, <1>3
  <2>2. ~(i < j) /\ ~(j < i)
    BY <1>1, <2>1 DEF Order
  <2> QED
    BY <2>1, <2>2
<1>5. \A i \in DOMAIN part : Key(part[i]) \in F!Wishes
  BY <1>3 DEF Followed
<1>6. \A i, j \in DOMAIN part : Key(part[i]) = Key(part[j]) => i = j
  BY <1>3, <1>4 DEF Followed
<1>7. Len(part) <= FeedsInAll
  BY <1>2, FeedsCaps DEF Followed
<1>8. Followed(part)
  BY <1>5, <1>6, <1>7 DEF Followed
<1>9. \A k \in places : \E i \in DOMAIN part : part[i] = seq[k]
  BY <1>1, <1>3 DEF Order
<1> QED
  BY <1>3, <1>8, <1>9

(* A script that had no feeds leaves all as it was; one that had some      *)
(* takes them along, and what was in flight.                               *)
ForgetKeeps(s) ==
  /\ Followed(feeds') /\ running' \in 0..Len(feeds') /\ Own(feeds') /\ client' \in Replies
  /\ Ages(since') /\ InFlight(feeds', running', client', threads)
  /\ Spaced(feeds', running', Spent') /\ Rested(feeds', Spent')

LEMMA ForgetIs ==
  ASSUME FeedsInv, NEW s \in Scripts, F!Forget(s), F!Excuse(s)
  PROVE  ForgetKeeps(s)
<1>1. feeds \in Seq(Feed) /\ DOMAIN feeds = 1..Len(feeds) /\ Len(feeds) \in Nat
  BY DEF FeedsInv, Followed
<1>2. /\ Ages(since) /\ DOMAIN since = F!Wishes
      /\ \A p \in F!Wishes : since[p] \in 0..MinInterval /\ Spent[p] \in 0..MinInterval
      /\ \A p \in F!Wishes : Spent[p] = IF p \in excused THEN MinInterval ELSE since[p]
  BY SpentIs DEF FeedsInv, Ages
<1> DEFINE anew == {p \in F!Wishes : p[1] = s} \cup IF F!Places(s) # {} THEN F!InFlight ELSE {}
<1>a. since' = since /\ excused' = {p \in excused \cup anew : since[p] < MinInterval}
  BY DEF F!Excuse
<1>b. \A p \in F!Wishes : Spent'[p] = IF p \in excused' THEN MinInterval ELSE since[p]
  BY <1>a DEF Spent
<1>c. \A p \in F!Wishes : p \in anew => Spent'[p] = MinInterval
  <2> SUFFICES ASSUME NEW p \in F!Wishes, p \in anew PROVE Spent'[p] = MinInterval
    OBVIOUS
  <2> HIDE DEF anew
  <2>1. CASE since[p] < MinInterval
    BY <1>a, <1>b, <2>1
  <2>2. CASE ~(since[p] < MinInterval)
    <3>1. since[p] = MinInterval
      BY <1>2, <2>2, FeedsCaps
    <3> QED
      BY <1>b, <3>1
  <2> QED
    BY <2>1, <2>2
<1>3. \A p \in F!Wishes : Spent'[p] \in {MinInterval, Spent[p]}
  <2> SUFFICES ASSUME NEW p \in F!Wishes, Spent'[p] # MinInterval PROVE Spent'[p] = Spent[p]
    OBVIOUS
  <2>1. p \notin excused' /\ p \notin anew /\ Spent'[p] = since[p]
    BY <1>b, <1>c
  <2>2. CASE p \in excused
    <3>1. ~(since[p] < MinInterval)
      BY <1>a, <2>1, <2>2
    <3>2. since[p] = MinInterval
      BY <1>2, <3>1, FeedsCaps
    <3> QED
      BY <2>1, <3>2
  <2>3. CASE p \notin excused
    BY <1>2, <2>1, <2>3
  <2> QED
    BY <2>2, <2>3
<1>4. Ages(since')
  BY <1>2, <1>a
<1>5. \A p \in F!Wishes : p[1] = s => Spent'[p] = MinInterval
  BY <1>c
<1>d. F!Places(s) # {} => \A p \in F!InFlight : p \in F!Wishes => Spent'[p] = MinInterval
  BY <1>c
<1> HIDE DEF anew
<1>6. CASE F!Places(s) = {}
  <2>1. UNCHANGED <<feeds, running, client>>
    BY <1>6 DEF F!Forget
  <2>2. Spaced(feeds, running, Spent')
    <3> SUFFICES ASSUME NEW i \in DOMAIN feeds, i # running
                 PROVE  Spent'[Key(feeds[i])] + Pause(feeds[i]) >= MinInterval
      BY DEF Spaced
    <3>1. Key(feeds[i]) \in F!Wishes /\ Spent[Key(feeds[i])] + Pause(feeds[i]) >= MinInterval
      BY DEF FeedsInv, Followed, Spaced
    <3>2. Pause(feeds[i]) \in Nat
      BY <1>1, FeedIs DEF Pause
    <3>3. Spent'[Key(feeds[i])] = MinInterval \/ Spent'[Key(feeds[i])] = Spent[Key(feeds[i])]
      BY <1>3, <3>1
    <3>4. CASE Spent'[Key(feeds[i])] = MinInterval
      BY <3>2, <3>4, FeedsCaps
    <3> QED
      BY <3>1, <3>3, <3>4
  <2>3. Rested(feeds, Spent')
    BY <1>3 DEF FeedsInv, Rested
  <2> QED
    BY <1>4, <2>1, <2>2, <2>3 DEF FeedsInv, ForgetKeeps
<1>7. CASE F!Places(s) # {}
  <2> DEFINE places == DOMAIN feeds \ F!Places(s)
  <2>1. feeds' = F!Kept(feeds, places) /\ running' = 0 /\ client' = F!Idle
    BY <1>7 DEF F!Forget, F!Others
  <2>2. places \in SUBSET DOMAIN feeds /\ \A k \in places : feeds[k].script # s
    BY <1>1 DEF F!Places
  <2>3. \A k \in DOMAIN feeds : k \in places \/ feeds[k].script = s
    BY <1>1 DEF F!Places
  <2> HIDE DEF places
  <2>4. /\ feeds' \in Seq(Feed) /\ Len(feeds') <= Len(feeds)
        /\ IsPart(feeds', feeds, places)
    BY <1>1, <2>1, <2>2, KeptIs
  <2>5. /\ Followed(feeds')
        /\ \A i \in DOMAIN feeds' : \E k \in places : feeds'[i] = feeds[k]
        /\ \A k \in places : \E i \in DOMAIN feeds' : feeds'[i] = feeds[k]
    BY <2>2, <2>4, PartIs DEF FeedsInv
  <2>6. Own(feeds')
    BY <2>2, <2>5 DEF FeedsInv, Own
  <2>7. running' \in 0..Len(feeds') /\ client' \in Replies
    BY <2>1, <2>4 DEF F!Idle, Replies
  <2>8. InFlight(feeds', running', client', threads)
    BY <2>1 DEF InFlight
  <2>9. ASSUME NEW k \in places
        PROVE  Spent'[Key(feeds[k])] + Pause(feeds[k]) >= MinInterval
    <3>1. k \in DOMAIN feeds /\ Key(feeds[k]) \in F!Wishes /\ feeds[k] \in Feed
      BY <1>1, <2>2 DEF FeedsInv, Followed
    <3>2. Pause(feeds[k]) \in Nat
      BY <3>1, FeedIs DEF Pause
    <3>3. CASE k = running
      <4>1. running > 0
        BY <1>1, <3>1, <3>3
      <4>2. Spent'[Key(feeds[k])] = MinInterval
        BY <1>7, <1>d, <3>1, <3>3, <4>1 DEF F!InFlight, Key
      <4> QED
        BY <3>2, <4>2, FeedsCaps
    <3>4. CASE k # running
      <4>1. Spent[Key(feeds[k])] + Pause(feeds[k]) >= MinInterval
        BY <3>1, <3>4 DEF FeedsInv, Spaced
      <4>2. Spent'[Key(feeds[k])] = MinInterval \/ Spent'[Key(feeds[k])] = Spent[Key(feeds[k])]
        BY <1>3, <3>1
      <4>3. CASE Spent'[Key(feeds[k])] = MinInterval
        BY <3>2, <4>3, FeedsCaps
      <4> QED
        BY <4>1, <4>2, <4>3
    <3> QED
      BY <3>3, <3>4
  <2>10. Spaced(feeds', running', Spent')
    <3> SUFFICES ASSUME NEW i \in DOMAIN feeds'
                 PROVE  Spent'[Key(feeds'[i])] + Pause(feeds'[i]) >= MinInterval
      BY DEF Spaced
    <3>1. PICK k \in places : feeds'[i] = feeds[k]
      BY <2>5
    <3> QED
      BY <2>9, <3>1
  <2>11. Rested(feeds', Spent')
    <3> SUFFICES ASSUME NEW p \in F!Wishes, \A i \in DOMAIN feeds' : Key(feeds'[i]) # p
                 PROVE  Spent'[p] = MinInterval
      BY DEF Rested
    <3>1. CASE \A k \in DOMAIN feeds : Key(feeds[k]) # p
      BY <1>3, <3>1 DEF FeedsInv, Rested
    <3>2. ASSUME NEW k \in DOMAIN feeds, Key(feeds[k]) = p PROVE Spent'[p] = MinInterval
      <4>1. k \notin places
        BY <2>5, <3>2
      <4>2. p[1] = s
        BY <2>3, <3>2, <4>1 DEF Key
      <4> QED
        BY <1>5, <4>2
    <3> QED
      BY <3>1, <3>2
  <2> QED
    BY <1>4, <2>5, <2>6, <2>7, <2>8, <2>10, <2>11 DEF ForgetKeeps
<1> QED
  BY <1>6, <1>7

LEMMA EditsKeepFeeds ==
  ASSUME FeedsInv, NEW s \in Scripts, F!Put(s) \/ F!Remove(s)
  PROVE  FeedsInv'
<1>1. UNCHANGED <<age, threads, up>>
  BY DEF F!Put, F!Remove
<1>2. loaded' \subseteq Scripts
  BY DEF F!Put, F!Remove, FeedsInv
<1>3. CASE F!Forget(s) /\ F!Excuse(s)
  BY <1>1, <1>2, <1>3, ForgetIs DEF ForgetKeeps, FeedsInv
<1>4. CASE UNCHANGED <<feeds, running, client, F!history>>
  BY <1>1, <1>2, <1>4, SameIsSpent DEF FeedsInv
<1> QED
  BY <1>3, <1>4 DEF F!Put, F!Remove

LEMMA ReturnKeeps ==
  ASSUME FeedsInv, NEW t \in threads, F!Return(t)
  PROVE  FeedsInv'
<1>1. /\ UNCHANGED <<loaded, feeds, running, age, up>> /\ UNCHANGED <<Spent, since>>
      /\ threads' = threads \ {t}
  BY SameIsSpent DEF F!Return
<1>2. t \in [id : 1..MaxThreads, url : Urls] /\ threads' \subseteq [id : 1..MaxThreads, url : Urls]
  BY <1>1 DEF FeedsInv
<1>3. client' \in Replies /\ InFlight(feeds, running, client', threads')
  <2>1. CASE UNCHANGED client
    BY <1>1, <2>1 DEF FeedsInv, InFlight
  <2>2. CASE client.stage = "running" /\ client.exchange = t.id
    <3>1. running > 0 => t.url = feeds[running].url
      BY <2>2 DEF FeedsInv, InFlight
    <3>2. client' \in {[client EXCEPT !.stage = "done", !.status = "ok", !.body = t.url],
                       [client EXCEPT !.stage = "done", !.status = "error"],
                       [client EXCEPT !.stage = "failed"]}
      BY <2>2 DEF F!Return
    <3>3. client \in Replies /\ t.url \in Urls
      BY <1>2 DEF FeedsInv
    <3>4. /\ client' \in Replies /\ client'.stage # "running"
          /\ client'.stage = "done" /\ client'.status = "ok" => client'.body = t.url
      BY <3>2, <3>3 DEF Replies
    <3> QED
      BY <3>1, <3>4 DEF InFlight
  <2> QED
    BY <2>1, <2>2 DEF F!Return
<1> QED
  BY <1>1, <1>2, <1>3 DEF FeedsInv

-----------------------------------------------------------------------------
(* tick. *)
LEMMA OlderIs ==
  ASSUME FeedsInv, NEW d \in {0, 1}, NEW queue, queue = F!Older(d)
  PROVE  /\ Alike(queue, feeds)
         /\ \A i \in DOMAIN feeds : /\ queue[i] \in Feed /\ queue[i].body = feeds[i].body
                                    /\ Pause(queue[i]) + d >= Pause(feeds[i])
<1>1. feeds \in Seq(Feed) /\ DOMAIN feeds = 1..Len(feeds) /\ Len(feeds) \in Nat
  BY DEF FeedsInv, Followed
<1>2. queue = [i \in 1..Len(feeds) |-> queue[i]]
  BY DEF F!Older
<1>3. ASSUME NEW i \in 1..Len(feeds)
      PROVE  /\ queue[i] \in Feed /\ Key(queue[i]) = Key(feeds[i])
             /\ queue[i].body = feeds[i].body /\ Pause(queue[i]) + d >= Pause(feeds[i])
  <2> DEFINE w == feeds[i].wait
             v == IF w - d >= -Overdue THEN w - d ELSE w
  <2>1. feeds[i] \in Feed /\ w \in Int
    BY <1>1, FeedIs
  <2>2. queue[i] = [feeds[i] EXCEPT !.wait = v]
    BY DEF F!Older
  <2>3. v \in Int
    BY <2>1
  <2>4. (IF v > 0 THEN v ELSE 0) + d >= (IF w > 0 THEN w ELSE 0)
    BY <2>1, FeedsCaps
  <2> HIDE DEF v
  <2>5. /\ queue[i] \in Feed /\ Key(queue[i]) = Key(feeds[i])
        /\ queue[i].body = feeds[i].body /\ queue[i].wait = v
    BY <2>1, <2>2, <2>3 DEF Feed, Key
  <2> QED
    BY <2>4, <2>5 DEF Pause
<1>4. queue \in Seq(Feed) /\ Len(queue) = Len(feeds)
  BY <1>1, <1>2, <1>3
<1> QED
  BY <1>1, <1>3, <1>4 DEF Alike

LEMMA SinceAfterIs ==
  ASSUME Ages(since), NEW d \in {0, 1}, NEW ages, ages = SpentAfter(d)
  PROVE  /\ Ages(F!SinceAfter(d)) /\ Ages(ages) /\ Ages(Spent)
         /\ \A p \in F!Wishes : /\ ages[p] <= Spent[p] + d
                                /\ ages[p] = Spent[p] + d \/ ages[p] = MinInterval
<1> DEFINE later == F!SinceAfter(d)
<1>1. later = [p \in F!Wishes |-> later[p]] /\ ages = [p \in F!Wishes |-> ages[p]]
  BY DEF F!SinceAfter, SpentAfter
<1>2. ASSUME NEW p \in F!Wishes
      PROVE  /\ later[p] \in 0..MinInterval /\ ages[p] \in 0..MinInterval
             /\ ages[p] <= Spent[p] + d
             /\ ages[p] = Spent[p] + d \/ ages[p] = MinInterval
  <2>1. since[p] \in 0..MinInterval
    BY DEF Ages
  <2>2. later[p] = IF since[p] + d <= MinInterval THEN since[p] + d ELSE since[p]
    BY DEF F!SinceAfter
  <2>3. ages[p] = IF p \in F!ExcusedAfter(d) THEN MinInterval ELSE later[p]
    BY DEF SpentAfter
  <2>4. Spent[p] = IF p \in excused THEN MinInterval ELSE since[p]
    BY DEF Spent
  <2>5. p \in F!ExcusedAfter(d) <=> p \in excused /\ since[p] + d < MinInterval
    BY DEF F!ExcusedAfter
  <2> HIDE DEF later
  <2>6. later[p] \in 0..MinInterval
    BY <2>1, <2>2, FeedsCaps
  <2>7. CASE p \in F!ExcusedAfter(d)
    BY <2>3, <2>4, <2>5, <2>6, <2>7, FeedsCaps
  <2>8. CASE p \in excused /\ p \notin F!ExcusedAfter(d)
    <3>1. ages[p] = MinInterval /\ Spent[p] = MinInterval
      BY <2>1, <2>2, <2>3, <2>4, <2>5, <2>8, FeedsCaps
    <3> QED
      BY <2>6, <3>1, FeedsCaps
  <2>9. CASE p \notin excused
    <3>1. ages[p] = later[p] /\ Spent[p] = since[p]
      BY <2>3, <2>4, <2>5, <2>9
    <3> QED
      BY <2>1, <2>2, <3>1, FeedsCaps
  <2> QED
    BY <2>7, <2>8, <2>9
<1> QED
  BY <1>1, <1>2, SpentIs DEF Ages

(* What a tick may start from: a queue in which nothing is in flight. *)
Quiet(queue, ages) ==
  /\ Followed(queue) /\ Own(queue) /\ Ages(ages)
  /\ Spaced(queue, 0, ages) /\ Rested(queue, ages)

(* And what it leads to. *)
Started ==
  /\ Followed(feeds') /\ running' \in 0..Len(feeds') /\ Own(feeds') /\ Ages(since')
  /\ client' \in Replies /\ age' \in 0..Timeout
  /\ threads' \subseteq [id : 1..MaxThreads, url : Urls]
  /\ InFlight(feeds', running', client', threads')
  /\ Spaced(feeds', running', Spent') /\ Rested(feeds', Spent')

(* The address of a new thread was not asked for lately, or is excused. *)
Patient ==
  threads' \ threads # {}
  => LET p == Key(feeds'[running']) IN p \in excused \/ since[p] >= MinInterval - 1

LEMMA RestIs ==
  ASSUME threads \subseteq [id : 1..MaxThreads, url : Urls], Ages(since),
         NEW d \in {0, 1}, NEW queue, Quiet(queue, SpentAfter(d)), F!Rest(queue, d)
  PROVE  Started /\ Patient
<1>1. /\ feeds' = queue /\ running' = 0 /\ client' = F!Idle /\ age' = 0
      /\ since' = F!SinceAfter(d) /\ Spent' = SpentAfter(d) /\ threads' = threads
  BY DEF F!Rest, Spent, SpentAfter
<1>2. client' \in Replies /\ age' \in 0..Timeout /\ running' \in 0..Len(feeds')
  BY <1>1, FeedsCaps DEF F!Idle, Replies, Quiet, Followed
<1>3. InFlight(feeds', running', client', threads')
  BY <1>1 DEF InFlight
<1>4. Ages(since')
  BY <1>1, SinceAfterIs
<1>5. Started
  BY <1>1, <1>2, <1>3, <1>4 DEF Quiet, Started
<1> QED
  BY <1>1, <1>5 DEF Patient

LEMMA BeginIs ==
  ASSUME threads \subseteq [id : 1..MaxThreads, url : Urls], Ages(since),
         NEW d \in {0, 1}, NEW queue, Quiet(queue, SpentAfter(d)),
         NEW i \in F!Longest(queue), F!Begin(queue, i, d)
  PROVE  Started /\ Patient
<1> DEFINE p == Key(queue[i])
           ages == SpentAfter(d)
<1>1. PICK id \in 1..MaxThreads \ {t.id : t \in threads} :
        /\ feeds' = queue /\ running' = i
        /\ client' = [stage |-> "running", exchange |-> id, body |-> "none", status |-> "none"]
        /\ threads' = threads \cup {[id |-> id, url |-> queue[i].url]}
        /\ age' = 0
        /\ since' = [F!SinceAfter(d) EXCEPT ![p] = 0]
        /\ excused' = F!ExcusedAfter(d) \ {p}
  BY DEF F!Begin, F!Free, Key
<1>2. i \in 1..Len(queue) /\ queue[i].wait <= 0
  BY DEF F!Longest, F!Due
<1>3. queue \in Seq(Feed) /\ DOMAIN queue = 1..Len(queue) /\ Len(queue) \in Nat /\ queue[i] \in Feed
  BY <1>2 DEF Quiet, Followed
<1>4. p \in F!Wishes /\ queue[i].url \in Urls /\ queue[i].wait \in Int
  BY <1>2, <1>3, FeedIs DEF Quiet, Followed
<1> HIDE DEF ages
<1>5. Ages(ages) /\ Ages(Spent) /\ ages[p] <= Spent[p] + 1
  <2>1. Ages(ages) /\ Ages(Spent) /\ ages[p] <= Spent[p] + d
    BY <1>4, SinceAfterIs DEF ages
  <2>2. Spent[p] \in Nat /\ ages[p] \in Nat
    BY <1>4, <2>1 DEF Ages
  <2> QED
    BY <2>1, <2>2
<1>6. ages[p] >= MinInterval
  <2>1. Pause(queue[i]) = 0
    BY <1>2, <1>4 DEF Pause
  <2>2. i # 0
    BY <1>2
  <2>3. ages[p] + Pause(queue[i]) >= MinInterval
    BY <1>2, <1>3, <2>2 DEF Quiet, Spaced, ages
  <2>4. ages[p] \in Nat
    BY <1>4, <1>5 DEF Ages
  <2> QED
    BY <2>1, <2>3, <2>4
<1>7. Patient
  <2>1. Spent[p] \in Nat /\ ages[p] \in Nat
    BY <1>4, <1>5 DEF Ages
  <2>2. Spent[p] >= MinInterval - 1
    BY <1>5, <1>6, <2>1, FeedsCaps
  <2>3. p \in excused \/ since[p] >= MinInterval - 1
    BY <1>4, <2>2, SpentIs
  <2> QED
    BY <1>1, <2>3 DEF Patient
<1>8. Ages(since')
  <2>1. Ages(F!SinceAfter(d))
    BY SinceAfterIs
  <2> QED
    BY <1>1, <1>4, <2>1, FeedsCaps DEF Ages
<1>9. ASSUME NEW q \in F!Wishes, q # p PROVE Spent'[q] = ages[q]
  <2>1. since'[q] = F!SinceAfter(d)[q] /\ (q \in excused' <=> q \in F!ExcusedAfter(d))
    BY <1>1, <1>9 DEF F!SinceAfter
  <2> QED
    BY <2>1 DEF Spent, ages, SpentAfter
<1>10. client' \in Replies /\ age' \in 0..Timeout /\ running' \in 0..Len(feeds')
  BY <1>1, <1>2, <1>3, FeedsCaps DEF Replies
<1>11. threads' \subseteq [id : 1..MaxThreads, url : Urls]
  BY <1>1, <1>4
<1>12. InFlight(feeds', running', client', threads')
  BY <1>1 DEF InFlight
<1>13. Spaced(feeds', running', Spent')
  <2> SUFFICES ASSUME NEW j \in DOMAIN queue, j # i
               PROVE  Spent'[Key(queue[j])] + Pause(queue[j]) >= MinInterval
    BY <1>1 DEF Spaced
  <2>1. Key(queue[j]) # p /\ Key(queue[j]) \in F!Wishes
    BY <1>2, <1>3 DEF Quiet, Followed
  <2>2. Spent'[Key(queue[j])] = ages[Key(queue[j])]
    BY <1>9, <2>1
  <2>3. j # 0
    BY <1>3
  <2> QED
    BY <2>2, <2>3 DEF Quiet, Spaced, ages
<1>14. Rested(feeds', Spent')
  <2> SUFFICES ASSUME NEW q \in F!Wishes, \A j \in DOMAIN queue : Key(queue[j]) # q
               PROVE  Spent'[q] = MinInterval
    BY <1>1 DEF Rested
  <2>1. q # p
    BY <1>2, <1>3
  <2> QED
    BY <1>9, <2>1 DEF Quiet, Rested, ages
<1>15. Started
  BY <1>1, <1>8, <1>10, <1>11, <1>12, <1>13, <1>14 DEF Quiet, Started
<1> QED
  BY <1>7, <1>15

LEMMA StartIs ==
  ASSUME threads \subseteq [id : 1..MaxThreads, url : Urls], Ages(since),
         NEW d \in {0, 1}, NEW queue, Quiet(queue, SpentAfter(d)), F!Start(queue, d)
  PROVE  Started /\ Patient
<1>1. CASE F!Rest(queue, d)
  BY <1>1, RestIs
<1>2. ASSUME NEW i \in F!Longest(queue), F!Begin(queue, i, d) PROVE Started /\ Patient
  BY <1>2, BeginIs
<1>3. ASSUME NEW i \in F!Longest(queue), F!Rest([queue EXCEPT ![i].wait = Backoff], d)
      PROVE  Started /\ Patient
  <2> DEFINE feed == [queue[i] EXCEPT !.wait = Backoff]
             new == [queue EXCEPT ![i] = feed]
             ages == SpentAfter(d)
  <2>1. i \in DOMAIN queue /\ queue[i] \in Feed
    BY <1>3 DEF F!Longest, F!Due, Quiet, Followed
  <2>2. /\ feed \in Feed /\ Key(feed) = Key(queue[i]) /\ feed.wait = Backoff
        /\ feed.url = queue[i].url /\ feed.body = queue[i].body
    BY <2>1, FeedsCaps DEF Feed, Key
  <2>3. F!Rest(new, d)
    BY <1>3
  <2> HIDE DEF feed
  <2>4. /\ Alike(new, queue) /\ new[i] = feed
        /\ \A j \in DOMAIN queue : j # i => new[j] = queue[j]
    BY <2>1, <2>2, ChangedIs DEF Quiet
  <2> HIDE DEF new, ages
  <2>5. Followed(new) /\ DOMAIN new = DOMAIN queue /\ Rested(new, ages)
    BY <2>4, AlikeIs, AlikeIsRested DEF Quiet, ages
  <2>6. Own(new)
    BY <2>2, <2>4, <2>5 DEF Quiet, Own
  <2>7. Spaced(new, 0, ages)
    <3> SUFFICES ASSUME NEW j \in DOMAIN queue, j # 0
                 PROVE  ages[Key(new[j])] + Pause(new[j]) >= MinInterval
      BY <2>5 DEF Spaced
    <3>1. CASE j = i
      <4>1. Pause(new[j]) = Backoff
        <5>1. Pause(feed) = Backoff
          BY <2>2, FeedsCaps DEF Pause
        <5> QED
          BY <2>4, <3>1, <5>1
      <4>2. Ages(ages) /\ Key(new[j]) \in F!Wishes
        BY <2>5 DEF Quiet, Followed, ages
      <4>3. ages[Key(new[j])] \in Nat
        BY <4>2 DEF Ages
      <4> QED
        BY <4>1, <4>3, FeedsCaps
    <3>2. CASE j # i
      BY <2>4, <3>2 DEF Quiet, Spaced, ages
    <3> QED
      BY <3>1, <3>2
  <2>8. Quiet(new, ages)
    BY <2>5, <2>6, <2>7 DEF Quiet, ages
  <2> QED
    BY <2>3, <2>8, RestIs DEF ages
<1> QED
  BY <1>1, <1>2, <1>3 DEF F!Start

(* What an ended fetch leaves of its feed. *)
LEMMA AfterIs ==
  ASSUME NEW feed \in Feed, NEW c \in Replies, feed.body \in {"none", feed.url},
         c.stage = "done" /\ c.status = "ok" => c.body = feed.url,
         NEW new, new = F!After(feed, c)
  PROVE  /\ new \in Feed /\ Key(new) = Key(feed)
         /\ new.body \in {"none", new.url} /\ Pause(new) >= MinInterval
<1>1. feed.interval \in Nat /\ feed.interval >= MinInterval
  BY FeedIs, FeedsCaps
<1>2. c.body \in Urls \cup {"none"}
  BY DEF Replies
<1>3. CASE c.stage = "done" /\ c.status = "ok"
  <2>1. new = [feed EXCEPT !.body = c.body, !.wait = feed.interval]
    BY <1>3 DEF F!After
  <2>2. /\ new \in Feed /\ Key(new) = Key(feed) /\ new.body = c.body /\ new.url = feed.url
        /\ new.wait = feed.interval
    <3>1. new = [script |-> feed.script, url |-> feed.url, interval |-> feed.interval,
                 wait |-> feed.interval, body |-> c.body]
      BY <2>1 DEF Feed
    <3>2. feed.script \in Scripts /\ feed.url \in Urls
          /\ feed.interval \in MinInterval..MaxInterval
      BY FeedIs
    <3> QED
      BY <1>1, <1>2, <3>1, <3>2 DEF Feed, Key
  <2> QED
    BY <1>1, <1>3, <2>2, FeedsCaps DEF Pause
<1>4. CASE /\ ~(c.stage = "done" /\ c.status = "ok")
           /\ \/ new = [feed EXCEPT !.wait = feed.interval]
              \/ new = [feed EXCEPT !.wait = Backoff]
  <2>1. /\ new \in Feed /\ Key(new) = Key(feed) /\ new.body = feed.body /\ new.url = feed.url
        /\ new.wait \in {feed.interval, Backoff}
    BY <1>1, <1>4, FeedsCaps DEF Feed, Key
  <2> QED
    BY <1>1, <2>1, FeedsCaps DEF Pause
<1> QED
  BY <1>3, <1>4 DEF F!After

LEMMA EndedIs ==
  ASSUME FeedsInv, running > 0, NEW d \in {0, 1},
         NEW queue, queue = [F!Older(d) EXCEPT ![running] = F!After(@, client)]
  PROVE  Quiet(queue, SpentAfter(d))
<1> DEFINE old == F!Older(d)
           ages == SpentAfter(d)
           feed == F!After(old[running], client)
<1>1. /\ Alike(old, feeds)
      /\ \A i \in DOMAIN feeds : /\ old[i] \in Feed /\ old[i].body = feeds[i].body
                                 /\ Pause(old[i]) + d >= Pause(feeds[i])
  BY OlderIs
<1>2. /\ Ages(ages) /\ Ages(Spent)
      /\ \A p \in F!Wishes : ages[p] = Spent[p] + d \/ ages[p] = MinInterval
  BY SinceAfterIs DEF FeedsInv
<1>3. queue = [old EXCEPT ![running] = feed]
  OBVIOUS
<1> HIDE DEF old, ages
<1>4. feeds \in Seq(Feed) /\ DOMAIN feeds = 1..Len(feeds) /\ running \in DOMAIN feeds
  BY DEF FeedsInv, Followed
<1>5. Followed(old) /\ DOMAIN old = DOMAIN feeds /\ Rested(old, Spent)
      /\ \A i \in DOMAIN feeds : old[i].url = feeds[i].url
  BY <1>1, AlikeIs, AlikeIsRested DEF FeedsInv
<1>6. /\ feed \in Feed /\ Key(feed) = Key(old[running])
      /\ feed.body \in {"none", feed.url} /\ Pause(feed) >= MinInterval
  <2>1. old[running] \in Feed /\ client \in Replies
    BY <1>1, <1>4 DEF FeedsInv
  <2>2. old[running].body \in {"none", old[running].url}
    BY <1>1, <1>4, <1>5 DEF FeedsInv, Own
  <2>3. client.stage = "done" /\ client.status = "ok" => client.body = old[running].url
    BY <1>4, <1>5 DEF FeedsInv, InFlight
  <2> QED
    BY <2>1, <2>2, <2>3, AfterIs
<1> HIDE DEF feed
<1>7. /\ Alike(queue, old) /\ queue[running] = feed
      /\ \A j \in DOMAIN old : j # running => queue[j] = old[j]
  BY <1>3, <1>4, <1>5, <1>6, ChangedIs
<1>8. Followed(queue) /\ DOMAIN queue = DOMAIN old
  BY <1>5, <1>7, AlikeIs
<1>9. Own(queue)
  BY <1>1, <1>5, <1>6, <1>7, <1>8 DEF FeedsInv, Own
<1>10. Spaced(queue, 0, ages)
  <2> SUFFICES ASSUME NEW i \in DOMAIN feeds
               PROVE  ages[Key(queue[i])] + Pause(queue[i]) >= MinInterval
    BY <1>5, <1>8 DEF Spaced
  <2>1. Key(queue[i]) \in F!Wishes /\ Key(queue[i]) = Key(feeds[i])
    BY <1>1, <1>5, <1>7, <1>8 DEF Followed, Alike
  <2>2. ages[Key(queue[i])] \in Nat /\ Spent[Key(queue[i])] \in Nat
    BY <1>2, <2>1 DEF Ages
  <2>3. queue[i] \in Feed
    BY <1>5, <1>8 DEF Followed
  <2>4. Pause(queue[i]) \in Nat
    BY <2>3, FeedIs DEF Pause
  <2>5. CASE i = running
    <3>1. Pause(queue[i]) >= MinInterval
      BY <1>6, <1>7, <2>5
    <3> QED
      BY <2>2, <2>4, <3>1, FeedsCaps
  <2>6. CASE i # running
    <3>1. Pause(queue[i]) + d >= Pause(feeds[i])
      BY <1>1, <1>5, <1>7, <2>6
    <3>2. Spent[Key(queue[i])] + Pause(feeds[i]) >= MinInterval
      BY <2>1, <2>6 DEF FeedsInv, Spaced
    <3>3. ages[Key(queue[i])] = Spent[Key(queue[i])] + d \/ ages[Key(queue[i])] = MinInterval
      BY <1>2, <2>1
    <3>4. feeds[i] \in Feed
      BY <1>4
    <3>5. Pause(feeds[i]) \in Nat
      BY <3>4, FeedIs DEF Pause
    <3> QED
      BY <2>2, <2>4, <3>1, <3>2, <3>3, <3>5, FeedsCaps
  <2> QED
    BY <2>5, <2>6
<1>11. Rested(queue, ages)
  <2> SUFFICES ASSUME NEW p \in F!Wishes, \A i \in DOMAIN queue : Key(queue[i]) # p
               PROVE  ages[p] = MinInterval
    BY DEF Rested
  <2>1. \A i \in DOMAIN old : Key(old[i]) # p
    BY <1>7, <1>8 DEF Alike
  <2>2. Spent[p] = MinInterval
    BY <1>5, <2>1 DEF Rested
  <2>3. ages[p] \in 0..MinInterval
    BY <1>2 DEF Ages
  <2> QED
    BY <1>2, <2>2, <2>3, FeedsCaps
<1> QED
  BY <1>2, <1>8, <1>9, <1>10, <1>11 DEF Quiet, ages

(* Time alone leaves what is in flight in flight. *)
LEMMA OlderIsSpaced ==
  ASSUME FeedsInv, NEW d \in {0, 1}, NEW queue, queue = F!Older(d), NEW ages, ages = SpentAfter(d)
  PROVE  /\ Followed(queue) /\ Len(queue) = Len(feeds) /\ Own(queue) /\ Ages(ages)
         /\ InFlight(queue, running, client, threads)
         /\ Spaced(queue, running, ages) /\ Rested(queue, ages)
<1>1. /\ Alike(queue, feeds)
      /\ \A i \in DOMAIN feeds : /\ queue[i] \in Feed /\ queue[i].body = feeds[i].body
                                 /\ Pause(queue[i]) + d >= Pause(feeds[i])
  BY OlderIs
<1>2. /\ Ages(ages) /\ Ages(Spent)
      /\ \A p \in F!Wishes : ages[p] = Spent[p] + d \/ ages[p] = MinInterval
  BY SinceAfterIs DEF FeedsInv
<1>3. feeds \in Seq(Feed) /\ running \in 0..Len(feeds)
  BY DEF FeedsInv, Followed
<1>4. /\ Followed(queue) /\ DOMAIN queue = DOMAIN feeds /\ Rested(queue, Spent)
      /\ Len(queue) = Len(feeds) /\ InFlight(queue, running, client, threads)
      /\ \A i \in DOMAIN feeds : queue[i].url = feeds[i].url
  BY <1>1, <1>3, AlikeIs, AlikeIsRested, AlikeInFlight DEF FeedsInv, Alike
<1>5. Own(queue)
  BY <1>1, <1>4 DEF FeedsInv, Own
<1>6. Spaced(queue, running, ages)
  <2> SUFFICES ASSUME NEW i \in DOMAIN feeds, i # running
               PROVE  ages[Key(queue[i])] + Pause(queue[i]) >= MinInterval
    BY <1>4 DEF Spaced
  <2>1. Key(queue[i]) \in F!Wishes /\ Key(queue[i]) = Key(feeds[i])
    BY <1>1, <1>4 DEF Followed, Alike
  <2>2. ages[Key(queue[i])] \in Nat /\ Spent[Key(queue[i])] \in Nat
    BY <1>2, <2>1 DEF Ages
  <2>3. queue[i] \in Feed /\ feeds[i] \in Feed
    BY <1>1, <1>3
  <2>4. Pause(queue[i]) \in Nat /\ Pause(feeds[i]) \in Nat
    BY <2>3, FeedIs DEF Pause
  <2>5. Spent[Key(queue[i])] + Pause(feeds[i]) >= MinInterval
    BY <2>1 DEF FeedsInv, Spaced
  <2>6. ages[Key(queue[i])] = Spent[Key(queue[i])] + d \/ ages[Key(queue[i])] = MinInterval
    BY <1>2, <2>1
  <2>7. Pause(queue[i]) + d >= Pause(feeds[i])
    BY <1>1
  <2> QED
    BY <2>2, <2>4, <2>5, <2>6, <2>7, FeedsCaps
<1>7. Rested(queue, ages)
  <2> SUFFICES ASSUME NEW p \in F!Wishes, \A i \in DOMAIN queue : Key(queue[i]) # p
               PROVE  ages[p] = MinInterval
    BY DEF Rested
  <2>1. Spent[p] = MinInterval
    BY <1>4 DEF Rested
  <2>2. ages[p] \in 0..MinInterval
    BY <1>2 DEF Ages
  <2> QED
    BY <1>2, <2>1, <2>2, FeedsCaps
<1> QED
  BY <1>2, <1>4, <1>5, <1>6, <1>7

LEMMA TickIs ==
  ASSUME FeedsInv, NEW d \in {0, 1}, F!Tick(d)
  PROVE  FeedsInv' /\ Patient
<1>1. UNCHANGED <<loaded, up>>
  BY DEF F!Tick
<1>2. threads \subseteq [id : 1..MaxThreads, url : Urls] /\ Ages(since)
  BY DEF FeedsInv
<1>3. ASSUME NEW queue, Quiet(queue, SpentAfter(d)), F!Start(queue, d)
      PROVE  FeedsInv' /\ Patient
  <2>1. Started /\ Patient
    BY <1>2, <1>3, StartIs
  <2> QED
    BY <1>1, <2>1 DEF Started, FeedsInv
<1>4. CASE running = 0 /\ F!Start(F!Older(d), d)
  <2>1. Quiet(F!Older(d), SpentAfter(d))
    BY <1>4, OlderIsSpaced DEF Quiet
  <2> QED
    BY <1>3, <1>4, <2>1
<1>5. CASE running # 0 /\ F!Start([F!Older(d) EXCEPT ![running] = F!After(@, client)], d)
  <2>1. running > 0
    BY <1>5 DEF FeedsInv, Followed
  <2>2. Quiet([F!Older(d) EXCEPT ![running] = F!After(@, client)], SpentAfter(d))
    BY <2>1, EndedIs
  <2> QED
    BY <1>3, <1>5, <2>2
<1>6. CASE /\ feeds' = F!Older(d) /\ age' = F!AgeAfter(d)
           /\ since' = F!SinceAfter(d) /\ excused' = F!ExcusedAfter(d)
           /\ UNCHANGED <<running, client, threads>>
  <2>a. Spent' = SpentAfter(d)
    BY <1>6 DEF Spent, SpentAfter
  <2>b. Ages(since')
    BY <1>2, <1>6, SinceAfterIs
  <2>1. /\ Followed(feeds') /\ Len(feeds') = Len(feeds) /\ Own(feeds') /\ Ages(since')
        /\ InFlight(feeds', running, client, threads)
        /\ Spaced(feeds', running, Spent') /\ Rested(feeds', Spent')
    BY <1>6, <2>a, <2>b, OlderIsSpaced
  <2>2. age' \in 0..Timeout
    BY <1>6, FeedsCaps DEF F!AgeAfter, FeedsInv
  <2> QED
    BY <1>1, <1>6, <2>1, <2>2 DEF FeedsInv, Patient
<1> QED
  BY <1>4, <1>5, <1>6 DEF F!Tick

LEMMA FeedsInitially == F!Init => FeedsInv
<1> SUFFICES ASSUME F!Init PROVE FeedsInv
  OBVIOUS
<1>1. feeds = <<>> /\ running = 0 /\ DOMAIN feeds = {} /\ Len(feeds) = 0 /\ feeds \in Seq(Feed)
  BY DEF F!Init
<1>2. Followed(feeds) /\ Own(feeds) /\ InFlight(feeds, running, client, threads)
      /\ Spaced(feeds, running, Spent)
  BY <1>1, FeedsCaps DEF Followed, Own, InFlight, Spaced
<1>3. Ages(since) /\ Rested(feeds, Spent)
  BY FeedsCaps DEF F!Init, Ages, Rested, Spent
<1>4. client \in Replies /\ age \in 0..Timeout /\ up \in BOOLEAN /\ loaded \subseteq Scripts
      /\ threads \subseteq [id : 1..MaxThreads, url : Urls]
  BY FeedsCaps DEF F!Init, F!Idle, Replies
<1> QED
  BY <1>1, <1>2, <1>3, <1>4 DEF FeedsInv

LEMMA FeedsStep == FeedsInv /\ [F!Next]_(F!vars) => FeedsInv' /\ (Patient \/ UNCHANGED F!vars)
<1> SUFFICES ASSUME FeedsInv, [F!Next]_(F!vars)
             PROVE  FeedsInv' /\ (Patient \/ UNCHANGED F!vars)
  OBVIOUS
<1>1. ASSUME threads' \subseteq threads PROVE Patient
  BY <1>1 DEF Patient
<1>2. ASSUME NEW s \in Scripts, F!Put(s) \/ F!Remove(s) PROVE FeedsInv' /\ Patient
  BY <1>1, <1>2, EditsKeepFeeds DEF F!Put, F!Remove
<1>3. ASSUME NEW s \in Scripts, F!Run(s) PROVE FeedsInv' /\ Patient
  BY <1>1, <1>3, RunKeeps DEF F!Run
<1>4. ASSUME NEW d \in {0, 1}, F!Tick(d) PROVE FeedsInv' /\ Patient
  BY <1>4, TickIs
<1>5. CASE F!Network
  BY <1>1, <1>5, SameIsSpent DEF F!Network, FeedsInv
<1>6. ASSUME NEW t \in threads, F!Return(t) PROVE FeedsInv' /\ Patient
  BY <1>1, <1>6, ReturnKeeps DEF F!Return
<1>7. CASE UNCHANGED F!vars
  BY <1>7, SameIsSpent DEF F!vars, F!history, FeedsInv
<1> QED
  BY <1>2, <1>3, <1>4, <1>5, <1>6, <1>7 DEF F!Next

LEMMA FeedsInvHolds == F!Spec => []FeedsInv
<1>1. FeedsInv /\ [F!Next]_(F!vars) => FeedsInv'
  BY FeedsStep
<1> QED
  BY FeedsInitially, <1>1, PTL DEF F!Spec

(* However scripts are replaced and deleted while threads are under way,   *)
(* and whenever those come back, a body is of the address its feed was     *)
(* asked for (ScriptFetcher::forget, collect).                             *)
THEOREM BodiesAreOfTheirAddress == F!Spec => []BodiesAreTheirOwn
<1>1. FeedsInv => BodiesAreTheirOwn
  BY DEF FeedsInv, Followed, Own, BodiesAreTheirOwn, F!BodiesAreTheirOwn
<1> QED
  BY <1>1, FeedsInvHolds, PTL

(* No script's address is asked twice within the shortest interval,        *)
(* however often it asks, however short the interval it asks for, and also *)
(* when the fetch failed or was refused; unless the script was replaced or *)
(* deleted since, or an edit of another one cut the fetch off              *)
(* (ScriptFetcher::follow, start, forget).                                 *)
THEOREM AddressesAreSpared == F!Spec => NobodyIsHammered
<1>1. ASSUME FeedsInv, [F!Next]_(F!vars)
      PROVE  [threads' \ threads # {}
              => LET p == <<feeds'[running'].script, feeds'[running'].url>>
                 IN  p \in excused \/ since[p] >= MinInterval - 1]_(F!vars)
  BY <1>1, FeedsStep DEF Patient, Key
<1> QED
  BY <1>1, FeedsInvHolds, PTL DEF F!Spec, NobodyIsHammered, F!NobodyIsHammered

-----------------------------------------------------------------------------
(* The walk.                                                               *)
Walked(w, f, t, i) ==
  \/ f[i] = "#" /\ ~(i = 1 /\ t[1] \in Dollar)
  \/ /\ f[i] # "#" /\ ~(i = Len(f) /\ f[i] = "")
     /\ T!LevelFits(f, t, i)
     /\ \/ i = Len(t) /\ i = Len(f)
        \/ i = Len(t) /\ i + 1 = Len(f) /\ f[i + 1] = "#"
        \/ i < Len(t) /\ i < Len(f) /\ w[i + 1]

(* The standard's rules, from one level on. *)
CoversFrom(f, t, i) ==
  /\ IF f[Len(f)] = "#" THEN Len(t) >= Len(f) - 1 ELSE Len(t) = Len(f)
  /\ \A j \in i..(IF f[Len(f)] = "#" THEN Len(f) - 1 ELSE Len(f)) : f[j] = "+" \/ f[j] = t[j]
  /\ i = 1 /\ (f[1] = "+" \/ f[1] = "#") => t[1] \notin Dollar

(* A filter that was accepted and does not end with a slash.               *)
Sound(f) ==
  /\ f \in Seq(STRING) \ {<<>>} /\ f[Len(f)] # ""
  /\ \A i \in 1..Len(f) - 1 : f[i] # "#"

LEMMA HasALevel ==
  ASSUME NEW s \in Seq(STRING) \ {<<>>}
  PROVE  Len(s) \in Nat /\ Len(s) >= 1 /\ DOMAIN s = 1..Len(s) /\ 1 \in DOMAIN s /\ Len(s) \in DOMAIN s
<1>1. s \in Seq(STRING) /\ s # <<>>
  OBVIOUS
<1>2. Len(s) \in Nat /\ Len(s) # 0 /\ DOMAIN s = 1..Len(s)
  BY <1>1, EmptySeq
<1> QED
  BY <1>2

(* One level at a time, both say the same. *)
LEMMA StepCovers ==
  ASSUME NEW f, Sound(f), NEW t \in Seq(STRING) \ {<<>>}, NEW i \in 1..Len(f), i <= Len(t),
         NEW w, i < Len(f) /\ i < Len(t) => (w[i + 1] <=> CoversFrom(f, t, i + 1))
  PROVE  Walked(w, f, t, i) <=> CoversFrom(f, t, i)
<1> DEFINE n == Len(f)
           m == Len(t)
<1>1. n \in Nat /\ m \in Nat /\ n >= 1 /\ m >= 1 /\ i \in Nat /\ i >= 1 /\ i <= n /\ i <= m
  <2>1. f \in Seq(STRING) \ {<<>>}
    BY DEF Sound
  <2>2. n \in Nat /\ n >= 1
    BY <2>1, HasALevel
  <2>3. m \in Nat /\ m >= 1
    BY HasALevel
  <2> QED
    BY <2>2, <2>3
<1>2. f[n] # "" /\ \A j \in 1..n - 1 : f[j] # "#"
  BY DEF Sound
<1>3. CASE f[i] = "#"
  <2>1. i = n
    <3>1. i \in 1..n - 1 \/ i = n
      BY <1>1
    <3> QED
      BY <1>2, <1>3, <3>1
  <2>2. Walked(w, f, t, i) <=> ~(i = 1 /\ t[1] \in Dollar)
    BY <1>3 DEF Walked
  <2>3. CoversFrom(f, t, i) <=> ~(i = 1 /\ t[1] \in Dollar)
    BY <1>1, <1>3, <2>1 DEF CoversFrom
  <2> QED
    BY <2>2, <2>3
<1>4. CASE f[i] # "#"
  <2> DEFINE root == ~(i = 1 /\ f[1] = "+" /\ t[1] \in Dollar)
             level == f[i] = "+" \/ f[i] = t[i]
             last == IF f[n] = "#" THEN n - 1 ELSE n
             long == IF f[n] = "#" THEN m >= n - 1 ELSE m = n
             ends == \/ i = m /\ i = n
                     \/ i = m /\ i + 1 = n /\ f[i + 1] = "#"
                     \/ i < m /\ i < n /\ CoversFrom(f, t, i + 1)
  <2>1. T!LevelFits(f, t, i) <=> level /\ root
    BY DEF T!LevelFits
  <2>2. ~(i = n /\ f[i] = "")
    BY <1>2
  <2>3. Walked(w, f, t, i) <=> level /\ root /\ ends
    BY <1>4, <2>1, <2>2 DEF Walked
  <2>4. i <= last /\ last \in Nat
    BY <1>1, <1>4
  <2>5. CoversFrom(f, t, i)
        <=> long /\ (\A j \in i..last : f[j] = "+" \/ f[j] = t[j]) /\ root
    BY <1>4 DEF CoversFrom
  <2>6. CASE i < m /\ i < n
    <3>1. CoversFrom(f, t, i + 1) <=> long /\ \A j \in (i + 1)..last : f[j] = "+" \/ f[j] = t[j]
      BY <1>1 DEF CoversFrom
    <3>2. (\A j \in i..last : f[j] = "+" \/ f[j] = t[j])
          <=> level /\ \A j \in (i + 1)..last : f[j] = "+" \/ f[j] = t[j]
      BY <1>1, <2>4
    <3>3. ends <=> CoversFrom(f, t, i + 1)
      BY <1>1, <2>6
    <3> HIDE DEF ends, long, level, root, last
    <3> QED
      BY <2>3, <2>5, <3>1, <3>2, <3>3
  <2>7. CASE ~(i < m /\ i < n)
    <3>1. ends <=> long
      <4>1. CASE f[n] = "#"
        <5>1. i < n
          BY <1>1, <1>4, <4>1
        <5>2. i = m
          BY <1>1, <2>7, <5>1
        <5> QED
          BY <1>1, <1>2, <2>7, <4>1, <5>1, <5>2
      <4>2. CASE f[n] # "#"
        BY <1>1, <2>7, <4>2
      <4> QED
        BY <4>1, <4>2
    <3>2. long => last = i
      BY <1>1, <1>4, <2>7
    <3>3. long => ((\A j \in i..last : f[j] = "+" \/ f[j] = t[j]) <=> level)
      BY <1>1, <3>2
    <3> HIDE DEF ends, long, level, root, last
    <3> QED
      BY <2>3, <2>5, <3>1, <3>3
  <2> QED
    BY <2>6, <2>7
<1> QED
  BY <1>3, <1>4

(* topicMatches does what the standard asks of the broker. *)
LEMMA MatchesIsCovers ==
  ASSUME NEW f, Sound(f), NEW t \in Seq(STRING) \ {<<>>}
  PROVE  T!TopicMatches(f, t) <=> T!Covers(f, t)
<1> DEFINE w == CHOOSE w : w = [i \in 1..Len(f) |-> Walked(w, f, t, i)]
           v == [i \in 1..Len(f) |-> IF i <= Len(t) THEN CoversFrom(f, t, i)
                                     ELSE f[i] = "#" /\ ~(i = 1 /\ t[1] \in Dollar)]
<1>1. Len(f) \in Nat /\ Len(f) >= 1 /\ Len(t) \in Nat /\ Len(t) >= 1
  BY HasALevel DEF Sound
<1>2. \A i \in 1..Len(f) : v[i] <=> Walked(v, f, t, i)
  <2> SUFFICES ASSUME NEW i \in 1..Len(f) PROVE v[i] <=> Walked(v, f, t, i)
    OBVIOUS
  <2>1. CASE i <= Len(t)
    <3>1. v[i] <=> CoversFrom(f, t, i)
      BY <2>1
    <3>2. i < Len(f) /\ i < Len(t) => (v[i + 1] <=> CoversFrom(f, t, i + 1))
      BY <1>1
    <3> HIDE DEF v
    <3> QED
      BY <2>1, <3>1, <3>2, StepCovers
  <2>2. CASE ~(i <= Len(t))
    <3>1. v[i] <=> f[i] = "#" /\ ~(i = 1 /\ t[1] \in Dollar)
      BY <2>2
    <3> HIDE DEF v
    <3>2. ~(i = Len(t)) /\ ~(i < Len(t))
      BY <1>1, <2>2
    <3> QED
      BY <3>1, <3>2 DEF Walked
  <2> QED
    BY <2>1, <2>2
<1>3. v = [i \in 1..Len(f) |-> Walked(v, f, t, i)]
  <2>1. v \in [1..Len(f) -> BOOLEAN]
    BY DEF CoversFrom
  <2> HIDE DEF v
  <2>2. \A i \in 1..Len(f) : v[i] = Walked(v, f, t, i)
    BY <1>2, <2>1 DEF Walked
  <2> QED
    BY <2>1, <2>2
<1> HIDE DEF v
<1>4. w = [i \in 1..Len(f) |-> Walked(w, f, t, i)]
  BY <1>3
<1>5. T!TopicMatches(f, t) = w[1]
  BY DEF T!TopicMatches, Walked
<1> HIDE DEF w
<1>6. \A i \in 1..Len(f) : w[i] <=> Walked(w, f, t, i)
  <2> SUFFICES ASSUME NEW i \in 1..Len(f) PROVE w[i] <=> Walked(w, f, t, i)
    OBVIOUS
  <2>1. w[i] = Walked(w, f, t, i)
    BY <1>4
  <2> QED
    BY <2>1
<1> DEFINE S == {n \in Nat : \A i \in 1..Len(f) : Len(f) - n <= i /\ i <= Len(t)
                                                  => (w[i] <=> CoversFrom(f, t, i))}
<1>7. 0 \in S
  <2> SUFFICES ASSUME NEW i \in 1..Len(f), Len(f) <= i, i <= Len(t)
               PROVE  w[i] <=> CoversFrom(f, t, i)
    BY <1>1
  <2>1. i = Len(f)
    BY <1>1
  <2> QED
    BY <1>6, <2>1, StepCovers
<1>8. ASSUME NEW n \in S PROVE n + 1 \in S
  <2> SUFFICES ASSUME NEW i \in 1..Len(f), Len(f) - (n + 1) <= i, i <= Len(t)
               PROVE  w[i] <=> CoversFrom(f, t, i)
    OBVIOUS
  <2>1. i < Len(f) /\ i < Len(t) => (w[i + 1] <=> CoversFrom(f, t, i + 1))
    BY <1>1
  <2> QED
    BY <1>6, <2>1, StepCovers
<1> HIDE DEF S
<1>9. Len(f) \in S
  <2>1. S \in SUBSET Nat
    BY DEF S
  <2> QED
    BY <1>1, <1>7, <1>8, <2>1, SetInduction
<1>10. w[1] <=> CoversFrom(f, t, 1)
  BY <1>1, <1>9 DEF S
<1>11. T!Covers(f, t) <=> CoversFrom(f, t, 1)
  BY <1>1 DEF T!Covers, T!Last, T!Wildcards, CoversFrom
<1> QED
  BY <1>5, <1>10, <1>11

-----------------------------------------------------------------------------
(* What is said.                                                           *)
Plain(topic) == \A i \in 1..Len(topic) : topic[i] # ".."

(* The way of a topic, a level at a time. *)
WayStep(topic, way, i) ==
  IF i = 0 THEN <<>>
  ELSE IF topic[i] # ".." THEN Append(way[i - 1], topic[i])
  ELSE IF way[i - 1] = <<>> THEN <<>> ELSE SubSeq(way[i - 1], 1, Len(way[i - 1]) - 1)

(* A topic without a level of two dots leads to itself. *)
LEMMA PlainLeadsToItself ==
  ASSUME NEW R, NEW topic \in Seq(R), Plain(topic)
  PROVE  T!LeadsTo(topic) = topic
<1> DEFINE way == CHOOSE way : way = [i \in 0..Len(topic) |-> WayStep(topic, way, i)]
           v == [i \in 0..Len(topic) |-> SubSeq(topic, 1, i)]
<1>1. Len(topic) \in Nat /\ DOMAIN topic = 1..Len(topic)
  OBVIOUS
<1>2. \A i \in 1..Len(topic) : SubSeq(topic, 1, i) = Append(SubSeq(topic, 1, i - 1), topic[i])
  OBVIOUS
<1>3. SubSeq(topic, 1, 0) = <<>> /\ SubSeq(topic, 1, Len(topic)) = topic
  OBVIOUS
<1>4. v = [i \in 0..Len(topic) |-> WayStep(topic, v, i)]
  <2>1. ASSUME NEW i \in 0..Len(topic) PROVE v[i] = WayStep(topic, v, i)
    <3>1. CASE i = 0
      BY <1>1, <1>3, <3>1 DEF WayStep
    <3>2. CASE i # 0
      <4>1. v[i] = SubSeq(topic, 1, i) /\ v[i - 1] = SubSeq(topic, 1, i - 1) /\ i \in 1..Len(topic)
        BY <1>1, <3>2
      <4> HIDE DEF v
      <4> QED
        BY <1>2, <3>2, <4>1 DEF WayStep, Plain
    <3> QED
      BY <3>1, <3>2
  <2>2. DOMAIN v = 0..Len(topic) /\ v = [i \in 0..Len(topic) |-> v[i]]
    OBVIOUS
  <2> HIDE DEF v
  <2> QED
    BY <2>1, <2>2
<1> HIDE DEF v
<1>5. way = [i \in 0..Len(topic) |-> WayStep(topic, way, i)]
  BY <1>4
<1>6. T!LeadsTo(topic) = way[Len(topic)]
  BY DEF T!LeadsTo, WayStep
<1> HIDE DEF way
<1> DEFINE S == {i \in Nat : i <= Len(topic) => way[i] = SubSeq(topic, 1, i)}
<1>7. 0 \in S
  <2>1. way[0] = <<>>
    BY <1>1, <1>5 DEF WayStep
  <2> QED
    BY <1>3, <2>1
<1>8. ASSUME NEW n \in S PROVE n + 1 \in S
  <2> SUFFICES ASSUME n + 1 <= Len(topic) PROVE way[n + 1] = SubSeq(topic, 1, n + 1)
    OBVIOUS
  <2>1. n + 1 \in 1..Len(topic) /\ n + 1 \in 0..Len(topic) /\ n + 1 # 0 /\ (n + 1) - 1 = n
    BY <1>1
  <2>2. way[n] = SubSeq(topic, 1, n)
    BY <1>1
  <2>3. way[n + 1] = WayStep(topic, way, n + 1)
    BY <1>5, <2>1
  <2>4. topic[n + 1] # ".."
    BY <2>1 DEF Plain
  <2>5. way[n + 1] = Append(SubSeq(topic, 1, n), topic[n + 1])
    BY <2>1, <2>2, <2>3, <2>4 DEF WayStep
  <2>6. SubSeq(topic, 1, n + 1) = Append(SubSeq(topic, 1, (n + 1) - 1), topic[n + 1])
    BY <1>2, <2>1
  <2> QED
    BY <2>1, <2>5, <2>6
<1> HIDE DEF S
<1>9. Len(topic) \in S
  <2>1. S \in SUBSET Nat
    BY DEF S
  <2> QED
    BY <1>1, <1>7, <1>8, <2>1, SetInduction
<1> QED
  BY <1>1, <1>3, <1>6, <1>9 DEF S

LEMMA TopicsCaps ==
  /\ \A f \in Filters : f \in Seq(STRING) \ {<<>>}
  /\ \A f \in Topics : f \in Seq(STRING) \ {<<>>}
  /\ \A f \in Leaves : f \in Seq(STRING) \ {<<>>}
  /\ \A s \in Scripts : s # "+" /\ s # "#" /\ s # ".."
  BY RemoteAssumption DEF T!TopicsAssumption, T!Wildcards

(* What the gateway makes of the leaf of a script. *)
IsSaid(topic) ==
  \E s \in Scripts : \E leaf \in Leaves :
    T!ValidPublishLeaf(leaf) /\ topic = <<"base", "script", s>> \o leaf

LEMMA SaidIsInside ==
  ASSUME NEW topic, IsSaid(topic)
  PROVE  LET way == T!LeadsTo(topic) IN
         /\ Len(way) >= 4 /\ SubSeq(way, 1, 3) = SubSeq(topic, 1, 3)
         /\ ~T!Has(topic, T!Wildcards)
<1>1. PICK s \in Scripts, leaf \in Leaves :
        T!ValidPublishLeaf(leaf) /\ topic = <<"base", "script", s>> \o leaf
  BY DEF IsSaid
<1>2. leaf \in Seq(STRING) /\ Len(leaf) \in Nat /\ Len(leaf) >= 1
  BY TopicsCaps, HasALevel
<1> DEFINE L == {"base", "script", s} \cup {leaf[i] : i \in 1..Len(leaf)}
           root == <<"base", "script", s>>
<1>3. root \in Seq(L) /\ Len(root) = 3 /\ leaf \in Seq(L)
  <2>1. "base" \in L /\ "script" \in L /\ s \in L /\ \A i \in 1..Len(leaf) : leaf[i] \in L
    OBVIOUS
  <2> HIDE DEF L
  <2>2. root \in Seq(L) /\ Len(root) = 3
    BY <2>1
  <2>3. leaf \in Seq(L)
    BY <1>2, <2>1
  <2> QED
    BY <2>2, <2>3
<1>4. /\ topic \in Seq(L) /\ Len(topic) = Len(leaf) + 3
      /\ \A i \in 1..Len(topic) : topic[i] = IF i <= 3 THEN root[i] ELSE leaf[i - 3]
  BY <1>1, <1>2, <1>3
<1>5. \A i \in 1..Len(leaf) : leaf[i] # ".." /\ leaf[i] # "+" /\ leaf[i] # "#"
  BY <1>1 DEF T!ValidPublishLeaf, T!Has, T!Wildcards
<1>6. \A i \in 1..3 : root[i] # ".." /\ root[i] # "+" /\ root[i] # "#"
  <2>1. s # "+" /\ s # "#" /\ s # ".."
    BY TopicsCaps
  <2> QED
    BY <2>1
<1> HIDE DEF root
<1>7. \A i \in 1..Len(topic) : topic[i] # ".." /\ topic[i] # "+" /\ topic[i] # "#"
  <2> SUFFICES ASSUME NEW i \in 1..Len(topic)
               PROVE  topic[i] # ".." /\ topic[i] # "+" /\ topic[i] # "#"
    OBVIOUS
  <2>1. CASE i <= 3
    BY <1>4, <1>6, <2>1
  <2>2. CASE ~(i <= 3)
    <3>1. i - 3 \in 1..Len(leaf)
      BY <1>2, <1>4, <2>2
    <3> QED
      BY <1>4, <1>5, <2>2, <3>1
  <2> QED
    BY <2>1, <2>2
<1>8. T!LeadsTo(topic) = topic
  BY <1>4, <1>7, PlainLeadsToItself DEF Plain
<1>9. ~T!Has(topic, T!Wildcards)
  BY <1>7 DEF T!Has, T!Wildcards
<1> QED
  BY <1>2, <1>4, <1>8, <1>9

-----------------------------------------------------------------------------
(* What is heard.                                                          *)
WatchOf ==
  [script : Scripts, filter : Filters, seen : BOOLEAN, payload : Nat, arrived : Nat]

Pair(w) == <<w.script, w.filter>>

(* A watch has the newest message its filter was given, if there was one.  *)
HasHeard(w, new) ==
  IF w.seen THEN new = [number |-> w.payload, at |-> w.arrived] /\ w.payload > 0
  ELSE new = T!Nothing

(* No two watches of a kind, all of them with filters that were accepted,  *)
(* and what the standard gives is known of those watches and no others.    *)
Single == \A i, j \in DOMAIN list : Pair(list[i]) = Pair(list[j]) => i = j

Accepted == \A i \in DOMAIN list : T!ValidWatchFilter(list[i].filter)

Told ==
  \A i \in DOMAIN list :
    T!Last(list[i].filter) # "" => HasHeard(list[i], newest[Pair(list[i])])

TopicsTyped ==
  /\ list \in Seq(WatchOf)
  /\ messages \in Nat /\ clock \in Nat
  /\ calling # T!NoCall => calling.script \in Scripts

TopicsInv ==
  /\ TopicsTyped /\ Single /\ Accepted /\ Told
  /\ DOMAIN newest = {Pair(list[i]) : i \in DOMAIN list}
  /\ \A topic \in said : IsSaid(topic)

LEMMA ListIsTyped ==
  ASSUME TopicsInv
  PROVE  list \in Seq(WatchOf) /\ DOMAIN list = 1..Len(list) /\ Len(list) \in Nat
<1>1. list \in Seq(WatchOf)
  BY DEF TopicsInv, TopicsTyped
<1> QED
  BY <1>1

LEMMA HeardIsHeard == TopicsInv => T!TopicsAreTheirs
<1> SUFFICES ASSUME TopicsInv PROVE T!WatchersHear /\ T!SaidStaysInside
  BY DEF T!TopicsAreTheirs
<1>1. T!SaidStaysInside
  BY SaidIsInside DEF TopicsInv, T!SaidStaysInside
<1>2. ASSUME NEW p \in DOMAIN newest, T!Last(p[2]) # "" PROVE T!Hears(p[1], p[2])
  <2>1. PICK i \in DOMAIN list : p = Pair(list[i])
    BY DEF TopicsInv
  <2> DEFINE w == list[i]
             s == p[1]
             f == p[2]
  <2>2. s = w.script /\ f = w.filter /\ newest[<<s, f>>] = newest[Pair(w)]
    BY <2>1 DEF Pair
  <2>3. DOMAIN list = 1..Len(list) /\ w \in WatchOf
    BY ListIsTyped
  <2>4. T!Find(s, f) = {i}
    <3>1. i \in T!Find(s, f)
      BY <2>2, <2>3 DEF T!Find, T!Of
    <3>2. \A j \in T!Find(s, f) : j \in DOMAIN list /\ Pair(list[j]) = Pair(w)
      BY <2>2, <2>3 DEF T!Find, T!Of, Pair
    <3>3. \A j \in T!Find(s, f) : j = i
      BY <3>2 DEF TopicsInv, Single
    <3> QED
      BY <3>1, <3>3
  <2>5. HasHeard(w, newest[<<s, f>>])
    BY <1>2, <2>2 DEF TopicsInv, Told
  <2> HIDE DEF w, s, f
  <2>6. CASE w.seen
    <3>1. T!Seen(s, f) = {i}
      BY <2>4, <2>6 DEF T!Seen, w
    <3>2. T!Latest(s, f) = [known |-> TRUE, payload |-> w.payload, age |-> clock - w.arrived]
      BY <3>1 DEF T!Latest, w
    <3>3. newest[<<s, f>>] = [number |-> w.payload, at |-> w.arrived] /\ w.payload > 0
      BY <2>5, <2>6 DEF HasHeard
    <3>4. newest[<<s, f>>] # T!Nothing
      <4>1. newest[<<s, f>>].number # 0
        BY <2>3, <3>3 DEF WatchOf
      <4> QED
        BY <4>1 DEF T!Nothing
    <3> QED
      BY <3>2, <3>3, <3>4 DEF T!Hears, s, f
  <2>7. CASE ~w.seen
    <3>1. T!Seen(s, f) = {}
      BY <2>4, <2>7 DEF T!Seen, w
    <3>2. newest[<<s, f>>] = T!Nothing
      BY <2>5, <2>7 DEF HasHeard
    <3> QED
      BY <3>1, <3>2 DEF T!Hears, T!Latest, s, f
  <2> QED
    BY <2>6, <2>7
<1>3. T!WatchersHear
  BY <1>2 DEF T!WatchersHear
<1> QED
  BY <1>1, <1>3

-----------------------------------------------------------------------------
(* Every watch as it is, but for what it has heard. *)
LEMMA TopicsRest ==
  ASSUME TopicsInv, UNCHANGED <<list, newest, messages>>,
         clock' \in Nat, calling' # T!NoCall => calling'.script \in Scripts,
         \A topic \in said' : IsSaid(topic)
  PROVE  TopicsInv'
  BY DEF TopicsInv, TopicsTyped, Single, Accepted, Told

LEMMA WatchKeeps ==
  ASSUME TopicsInv, NEW f \in Filters, T!Watch(f)
  PROVE  TopicsInv'
<1> DEFINE s == calling.script
           w == [script |-> s, filter |-> f, seen |-> FALSE, payload |-> 0, arrived |-> 0]
<1>1. /\ s \in Scripts /\ T!MayWatch(s, f) /\ UNCHANGED <<clock, calling, said, messages>>
      /\ list' = Append(list, w)
      /\ newest' = [p \in DOMAIN newest \cup {<<s, f>>} |->
                      IF p = <<s, f>> THEN T!Nothing ELSE newest[p]]
  BY DEF T!Watch, TopicsInv, TopicsTyped
<1>2. w \in WatchOf /\ Pair(w) = <<s, f>> /\ w.filter = f /\ ~w.seen
  BY <1>1 DEF WatchOf, Pair
<1>3. T!ValidWatchFilter(f) /\ \A i \in 1..Len(list) : Pair(list[i]) # <<s, f>>
  BY <1>1 DEF T!MayWatch, T!Find, T!Of, Pair
<1> HIDE DEF w, s
<1>4. list \in Seq(WatchOf) /\ DOMAIN list = 1..Len(list) /\ Len(list) \in Nat
  BY ListIsTyped
<1>5. /\ list' \in Seq(WatchOf) /\ DOMAIN list' = 1..Len(list) + 1
      /\ list'[Len(list) + 1] = w /\ \A i \in 1..Len(list) : list'[i] = list[i]
  BY <1>1, <1>2, <1>4
<1>6. Single'
  <2> SUFFICES ASSUME NEW i \in DOMAIN list', NEW j \in DOMAIN list',
                      Pair(list'[i]) = Pair(list'[j])
               PROVE  i = j
    BY DEF Single
  <2>1. CASE i \in 1..Len(list) /\ j \in 1..Len(list)
    BY <1>4, <1>5, <2>1 DEF TopicsInv, Single
  <2>2. CASE i = Len(list) + 1
    BY <1>2, <1>3, <1>5, <2>2
  <2>3. CASE j = Len(list) + 1
    BY <1>2, <1>3, <1>5, <2>3
  <2> QED
    BY <1>4, <1>5, <2>1, <2>2, <2>3
<1>7. Accepted'
  <2> SUFFICES ASSUME NEW i \in DOMAIN list' PROVE T!ValidWatchFilter(list'[i].filter)
    BY DEF Accepted
  <2>1. CASE i \in 1..Len(list)
    BY <1>4, <1>5, <2>1 DEF TopicsInv, Accepted
  <2>2. CASE i = Len(list) + 1
    BY <1>2, <1>3, <1>5, <2>2
  <2> QED
    BY <1>4, <1>5, <2>1, <2>2
<1>9. DOMAIN newest' = {Pair(list'[i]) : i \in DOMAIN list'}
  <2>1. DOMAIN newest' = DOMAIN newest \cup {Pair(w)}
    BY <1>1, <1>2
  <2>2. DOMAIN newest = {Pair(list[i]) : i \in 1..Len(list)}
    BY <1>4 DEF TopicsInv
  <2>3. DOMAIN list' = 1..Len(list) \cup {Len(list) + 1}
    BY <1>4, <1>5
  <2> QED
    BY <1>5, <2>1, <2>2, <2>3
<1>10. \A i \in DOMAIN list' : i \in 1..Len(list) \/ i = Len(list) + 1
  BY <1>4, <1>5
<1>13. Told'
  <2> SUFFICES ASSUME NEW i \in DOMAIN list', T!Last(list'[i].filter) # ""
               PROVE  HasHeard(list'[i], newest'[Pair(list'[i])])
    BY DEF Told
  <2>1. CASE i \in 1..Len(list)
    <3>1. list'[i] = list[i] /\ Pair(list[i]) # <<s, f>> /\ Pair(list[i]) \in DOMAIN newest
      <4>1. DOMAIN newest = {Pair(list[k]) : k \in DOMAIN list}
        BY DEF TopicsInv
      <4> QED
        BY <1>3, <1>4, <1>5, <2>1, <4>1
    <3>2. newest'[Pair(list[i])] = newest[Pair(list[i])]
      BY <1>1, <3>1
    <3>3. HasHeard(list[i], newest[Pair(list[i])])
      BY <1>4, <1>5, <2>1, <3>1 DEF TopicsInv, Told
    <3> QED
      BY <3>1, <3>2, <3>3
  <2>2. CASE i = Len(list) + 1
    <3>1. list'[i] = w /\ newest'[Pair(w)] = T!Nothing
      BY <1>1, <1>2, <1>5, <2>2
    <3> QED
      BY <1>2, <3>1 DEF HasHeard
  <2> QED
    BY <1>10, <2>1, <2>2
<1>11. TopicsTyped'
  BY <1>1, <1>5 DEF TopicsInv, TopicsTyped
<1>12. \A topic \in said' : IsSaid(topic)
  BY <1>1 DEF TopicsInv
<1> QED
  BY <1>6, <1>7, <1>9, <1>13, <1>11, <1>12 DEF TopicsInv

LEMMA ArriveKeeps ==
  ASSUME TopicsInv, NEW topic \in Topics, T!Arrive(topic)
  PROVE  TopicsInv'
<1> DEFINE Heard(w) == [w EXCEPT !.seen = TRUE, !.payload = messages', !.arrived = clock]
<1>1. /\ messages' = messages + 1 /\ UNCHANGED <<clock, calling, said>>
      /\ list' = [i \in 1..Len(list) |->
           IF T!TopicMatches(list[i].filter, topic) THEN Heard(list[i]) ELSE list[i]]
      /\ newest' = [p \in DOMAIN newest |->
           IF T!Covers(p[2], topic) THEN [number |-> messages', at |-> clock] ELSE newest[p]]
  BY DEF T!Arrive, T!Deliver
<1>2. list \in Seq(WatchOf) /\ DOMAIN list = 1..Len(list) /\ Len(list) \in Nat
  BY ListIsTyped
<1>3. messages' \in Nat /\ messages' > 0 /\ clock \in Nat
  <2>1. messages \in Nat /\ clock \in Nat
    BY DEF TopicsInv, TopicsTyped
  <2>2. messages' = messages + 1
    BY <1>1
  <2> QED
    BY <2>1, <2>2
<1>4. ASSUME NEW w \in WatchOf, NEW new, new = Heard(w)
      PROVE  /\ new \in WatchOf /\ Pair(new) = Pair(w) /\ new.filter = w.filter
             /\ new.seen /\ new.payload = messages' /\ new.arrived = clock
  <2>1. new = [script |-> w.script, filter |-> w.filter, seen |-> TRUE,
               payload |-> messages', arrived |-> clock]
    BY <1>4 DEF WatchOf
  <2>2. w.script \in Scripts /\ w.filter \in Filters
    BY DEF WatchOf
  <2> QED
    BY <1>3, <2>1, <2>2 DEF WatchOf, Pair
<1> HIDE DEF Heard
<1>5. ASSUME NEW i \in 1..Len(list)
      PROVE  /\ list'[i] \in WatchOf /\ Pair(list'[i]) = Pair(list[i])
             /\ list'[i].filter = list[i].filter
  <2>1. list'[i] = Heard(list[i]) \/ list'[i] = list[i]
    BY <1>1
  <2>2. list[i] \in WatchOf
    BY <1>2
  <2> QED
    BY <1>4, <2>1, <2>2
<1>6. list' \in Seq(WatchOf) /\ DOMAIN list' = 1..Len(list)
  BY <1>1, <1>2, <1>5
<1>7. Single'
  BY <1>2, <1>5, <1>6 DEF TopicsInv, Single
<1>8. Accepted'
  BY <1>2, <1>5, <1>6 DEF TopicsInv, Accepted
<1>9. DOMAIN newest' = DOMAIN newest
  BY <1>1
<1>10. DOMAIN newest' = {Pair(list'[i]) : i \in DOMAIN list'}
  <2>1. DOMAIN newest = {Pair(list[i]) : i \in DOMAIN list}
    BY DEF TopicsInv
  <2> QED
    BY <1>2, <1>5, <1>6, <1>9, <2>1
<1>14. \A i \in 1..Len(list) : list[i] \in WatchOf
  BY <1>2
<1>11. Told'
  <2> SUFFICES ASSUME NEW i \in 1..Len(list), T!Last(list[i].filter) # ""
               PROVE  HasHeard(list'[i], newest'[Pair(list[i])])
    BY <1>5, <1>6 DEF Told
  <2> DEFINE w == list[i]
             f == w.filter
  <2>1. w \in WatchOf /\ f \in Filters
    BY <1>14 DEF WatchOf
  <2>2. Sound(f)
    <3>1. T!ValidWatchFilter(f)
      BY <1>2 DEF TopicsInv, Accepted
    <3> QED
      BY <2>1, <3>1, TopicsCaps DEF T!ValidWatchFilter, T!Last, Sound
  <2>3. T!TopicMatches(f, topic) <=> T!Covers(f, topic)
    BY <2>2, MatchesIsCovers, TopicsCaps
  <2>4. Pair(w) \in DOMAIN newest /\ Pair(w)[2] = f
    <3>1. DOMAIN newest = {Pair(list[k]) : k \in DOMAIN list}
      BY DEF TopicsInv
    <3> QED
      BY <1>2, <3>1 DEF Pair
  <2>5. newest'[Pair(w)] = IF T!Covers(f, topic) THEN [number |-> messages', at |-> clock]
                           ELSE newest[Pair(w)]
    BY <1>1, <2>4
  <2>6. HasHeard(w, newest[Pair(w)])
    BY <1>2 DEF TopicsInv, Told
  <2>7. list'[i] = IF T!TopicMatches(f, topic) THEN Heard(w) ELSE w
    BY <1>1
  <2> HIDE DEF w, f
  <2>8. CASE T!Covers(f, topic)
    <3>1. list'[i] = Heard(w) /\ newest'[Pair(w)] = [number |-> messages', at |-> clock]
      BY <2>3, <2>5, <2>7, <2>8
    <3>2. list'[i].seen /\ list'[i].payload = messages' /\ list'[i].arrived = clock
      BY <1>4, <2>1, <3>1
    <3>3. HasHeard(list'[i], newest'[Pair(w)])
      BY <1>3, <3>1, <3>2 DEF HasHeard
    <3> QED
      BY <3>3 DEF w
  <2>9. CASE ~T!Covers(f, topic)
    BY <2>3, <2>5, <2>6, <2>7, <2>9 DEF w
  <2> QED
    BY <2>8, <2>9
<1>12. TopicsTyped'
  BY <1>1, <1>3, <1>6 DEF TopicsInv, TopicsTyped
<1>13. \A m \in said' : IsSaid(m)
  BY <1>1 DEF TopicsInv
<1> QED
  BY <1>7, <1>8, <1>10, <1>11, <1>12, <1>13 DEF TopicsInv
LEMMA SaidKeeps ==
  ASSUME TopicsInv, NEW leaf \in Leaves, T!Publish(leaf)
  PROVE  TopicsInv'
<1>1. calling.script \in Scripts
  BY DEF TopicsInv, TopicsTyped, T!Publish
<1>2. UNCHANGED <<list, newest, messages, clock>> /\ said' = said \cup T!Sent(calling.script, leaf)
  BY DEF T!Publish
<1>3. calling'.script = calling.script
  BY DEF T!Publish
<1>4. \A topic \in T!Sent(calling.script, leaf) : IsSaid(topic)
  BY <1>1 DEF T!Sent, IsSaid
<1>5. \A topic \in said' : IsSaid(topic)
  BY <1>2, <1>4 DEF TopicsInv
<1>6. clock' \in Nat
  BY <1>2 DEF TopicsInv, TopicsTyped
<1> QED
  BY <1>1, <1>2, <1>3, <1>5, <1>6, TopicsRest

(* forget takes the watches of one script along, and what they heard. *)
LEMMA ForgetKeepsTopics ==
  ASSUME TopicsInv, NEW s \in Scripts, T!Forget(s)
  PROVE  TopicsInv'
<1> DEFINE places == DOMAIN list \ T!Of(s)
<1>1. /\ UNCHANGED <<clock, calling, said, messages>>
      /\ list' = F!Kept(list, places)
      /\ newest' = [p \in {p \in DOMAIN newest : p[1] # s} |-> newest[p]]
  BY DEF T!Forget, T!Kept, F!Kept
<1>2. list \in Seq(WatchOf) /\ DOMAIN list = 1..Len(list) /\ Len(list) \in Nat
  BY ListIsTyped
<1>3. places \in SUBSET DOMAIN list /\ \A k \in DOMAIN list : k \in places <=> list[k].script # s
  BY <1>2 DEF T!Of
<1> HIDE DEF places
<1>4. list' \in Seq(WatchOf) /\ IsPart(list', list, places)
  BY <1>1, <1>2, <1>3, KeptIs
<1>5. PICK g : Order(g, list', list, places)
  BY <1>4 DEF IsPart
<1>6. DOMAIN list' = 1..Len(list') /\ Len(list') \in Nat
  BY <1>4
<1>7. \A i \in DOMAIN list' : g[i] \in places /\ g[i] \in DOMAIN list /\ list'[i] = list[g[i]]
  BY <1>3, <1>5 DEF Order
<1>8. \A k \in places : \E i \in DOMAIN list' : list'[i] = list[k]
  BY <1>5, <1>7 DEF Order
<1>9. \A i, j \in DOMAIN list' : g[i] = g[j] => i = j
  <2> SUFFICES ASSUME NEW i \in DOMAIN list', NEW j \in DOMAIN list', g[i] = g[j] PROVE i = j
    OBVIOUS
  <2>1. g[i] \in Int /\ g[j] \in Int /\ i \in Int /\ j \in Int
    BY <1>2, <1>6, <1>7
  <2>2. ~(i < j) /\ ~(j < i)
    BY <1>5, <2>1 DEF Order
  <2> QED
    BY <2>1, <2>2
<1>10. Single'
  BY <1>7, <1>9 DEF TopicsInv, Single
<1>11. Accepted'
  BY <1>7 DEF TopicsInv, Accepted
<1>12. DOMAIN newest = {Pair(list[i]) : i \in DOMAIN list}
  BY DEF TopicsInv
<1>13. DOMAIN newest' = {p \in DOMAIN newest : p[1] # s}
  BY <1>1
<1>14. DOMAIN newest' = {Pair(list'[i]) : i \in DOMAIN list'}
  <2>1. \A i \in DOMAIN list' : Pair(list'[i]) \in DOMAIN newest'
    BY <1>3, <1>7, <1>12, <1>13 DEF Pair
  <2>2. ASSUME NEW p \in DOMAIN newest' PROVE \E i \in DOMAIN list' : p = Pair(list'[i])
    <3>1. PICK k \in DOMAIN list : p = Pair(list[k])
      BY <1>12, <1>13
    <3>2. k \in places
      BY <1>3, <1>13, <3>1 DEF Pair
    <3> QED
      BY <1>8, <3>1, <3>2
  <2> QED
    BY <2>1, <2>2
<1>15. Told'
  <2> SUFFICES ASSUME NEW i \in DOMAIN list', T!Last(list'[i].filter) # ""
               PROVE  HasHeard(list'[i], newest'[Pair(list'[i])])
    BY DEF Told
  <2>1. newest'[Pair(list'[i])] = newest[Pair(list'[i])]
    BY <1>1, <1>13, <1>14
  <2> QED
    BY <1>7, <2>1 DEF TopicsInv, Told
<1>16. TopicsTyped'
  BY <1>1, <1>4 DEF TopicsInv, TopicsTyped
<1>17. \A topic \in said' : IsSaid(topic)
  BY <1>1 DEF TopicsInv
<1> QED
  BY <1>10, <1>11, <1>14, <1>15, <1>16, <1>17 DEF TopicsInv

LEMMA TopicsInitially == T!Init => TopicsInv
<1> SUFFICES ASSUME T!Init PROVE TopicsInv
  OBVIOUS
<1>1. list = <<>> /\ newest = <<>> /\ messages = 0 /\ clock = 0 /\ calling = T!NoCall /\ said = {}
  BY DEF T!Init
<1>2. list \in Seq(WatchOf) /\ DOMAIN list = {} /\ DOMAIN newest = {}
  BY <1>1
<1> QED
  BY <1>1, <1>2 DEF TopicsInv, TopicsTyped, Single, Accepted, Told

LEMMA TopicsStep == TopicsInv /\ [T!Next]_(T!vars) => TopicsInv'
<1> SUFFICES ASSUME TopicsInv, [T!Next]_(T!vars) PROVE TopicsInv'
  OBVIOUS
<1>1. /\ clock \in Nat /\ (calling # T!NoCall => calling.script \in Scripts)
      /\ \A topic \in said : IsSaid(topic)
  BY DEF TopicsInv, TopicsTyped
<1>2. ASSUME NEW s \in Scripts, T!Enter(s) PROVE TopicsInv'
  BY <1>1, <1>2, TopicsRest DEF T!Enter
<1>3. ASSUME NEW s \in Scripts, T!Forget(s) PROVE TopicsInv'
  BY <1>3, ForgetKeepsTopics
<1>4. ASSUME NEW f \in Filters, T!Watch(f) PROVE TopicsInv'
  BY <1>4, WatchKeeps
<1>5. ASSUME NEW leaf \in Leaves, T!Publish(leaf) PROVE TopicsInv'
  BY <1>5, SaidKeeps
<1>6. ASSUME NEW topic \in Topics, T!Arrive(topic) PROVE TopicsInv'
  BY <1>6, ArriveKeeps
<1>7. ASSUME NEW on \in BOOLEAN, T!SetConnected(on) PROVE TopicsInv'
  BY <1>1, <1>7, TopicsRest DEF T!SetConnected
<1>8. CASE T!Leave
  BY <1>1, <1>8, TopicsRest DEF T!Leave
<1>9. CASE T!SetNow
  BY <1>1, <1>9, TopicsRest DEF T!SetNow
<1>10. CASE UNCHANGED T!vars
  BY <1>1, <1>10, TopicsRest DEF T!vars
<1> QED
  BY <1>2, <1>3, <1>4, <1>5, <1>6, <1>7, <1>8, <1>9, <1>10 DEF T!Next

(* Whatever a script watches, it reads the newest message the standard     *)
(* gives that filter since it asked, whoever else comes and goes: the walk *)
(* of the gateway finds what the broker's rules would, a level at a time.  *)
(* And what it says is one topic under its own id, even for those who take *)
(* a topic for a path (ScriptGateway::deliver, forget, topicMatches,       *)
(* validPublishLeaf).                                                      *)
THEOREM ScriptsHearTheirTopics == T!Spec => []TopicsAreTheirs
<1>1. TopicsInv => TopicsAreTheirs
  BY HeardIsHeard DEF TopicsAreTheirs
<1> QED
  BY <1>1, TopicsInitially, TopicsStep, PTL DEF T!Spec

-----------------------------------------------------------------------------
(* What the queue may hold, and what the device may be between two steps.  *)
Online == [kind |-> "availability", value |-> "online"]
Offline == [kind |-> "availability", value |-> "offline"]
Ask(f) == [kind |-> "subscribe", filter |-> f]

Heads == Watchable \cup {"commands"}

Message ==
  {Online, Offline} \cup {Ask(f) : f \in Heads}
  \cup {[kind |-> "discovery", on |-> on] : on \in BOOLEAN}
  \cup {[kind |-> "status"], [kind |-> "result"]}

Numbers == {0} \cup {Lengths[s] : s \in Secrets}

ServiceSet ==
  [enabled : BOOLEAN, made : Numbers, wait : Nat, delay : Nat, announced : BOOLEAN,
   discovered : BOOLEAN, statusDue : BOOLEAN]

States == {"disabled", "disconnected", "connecting", "connected"}
Sockets == {"none", "opening", "open"}

ClientSet ==
  [state : States, socket : Sockets, joined : BOOLEAN, queue : Seq(Message),
   secret : Secrets]

Holds(queue, message) == \E i \in 1..Len(queue) : queue[i] = message

LEMMA AppendHolds ==
  ASSUME NEW queue \in Seq(Message), NEW m \in Message
  PROVE  /\ Append(queue, m) \in Seq(Message)
         /\ \A x : Holds(Append(queue, m), x) <=> Holds(queue, x) \/ x = m
<1> HIDE DEF Message
<1>1. Len(queue) \in Nat /\ Append(queue, m) \in Seq(Message)
  OBVIOUS
<1>2. /\ Len(Append(queue, m)) = Len(queue) + 1
      /\ \A i \in 1..Len(queue) + 1 :
           Append(queue, m)[i] = IF i = Len(queue) + 1 THEN m ELSE queue[i]
  OBVIOUS
<1>3. ASSUME NEW x PROVE Holds(Append(queue, m), x) <=> Holds(queue, x) \/ x = m
  <2>1. Len(queue) + 1 \in 1..Len(queue) + 1
    BY <1>1
  <2>2. \A i \in 1..Len(queue) + 1 : i \in 1..Len(queue) \/ i = Len(queue) + 1
    BY <1>1
  <2>3. \A i \in 1..Len(queue) : i \in 1..Len(queue) + 1 /\ i # Len(queue) + 1
    BY <1>1
  <2> QED
    BY <1>2, <2>1, <2>2, <2>3 DEF Holds
<1> QED
  BY <1>1, <1>3

LEMMA TailHolds ==
  ASSUME NEW queue \in Seq(Message), queue # <<>>
  PROVE  /\ Head(queue) \in Message /\ Tail(queue) \in Seq(Message)
         /\ \A x : Holds(queue, x) <=> x = Head(queue) \/ Holds(Tail(queue), x)
<1> HIDE DEF Message
<1>1. /\ Len(queue) \in Nat /\ Len(queue) >= 1 /\ Head(queue) = queue[1]
      /\ Tail(queue) \in Seq(Message) /\ Len(Tail(queue)) = Len(queue) - 1
      /\ \A i \in 1..Len(queue) - 1 : Tail(queue)[i] = queue[i + 1]
  OBVIOUS
<1>2. ASSUME NEW x PROVE Holds(queue, x) <=> x = Head(queue) \/ Holds(Tail(queue), x)
  <2>1. ASSUME NEW i \in 1..Len(queue), i # 1 PROVE i - 1 \in 1..Len(queue) - 1 /\ (i - 1) + 1 = i
    BY <1>1, <2>1
  <2>2. \A i \in 1..Len(queue) - 1 : i + 1 \in 1..Len(queue)
    BY <1>1
  <2>3. 1 \in 1..Len(queue)
    BY <1>1
  <2>4. ASSUME Holds(queue, x) PROVE x = Head(queue) \/ Holds(Tail(queue), x)
    <3>1. PICK i \in 1..Len(queue) : queue[i] = x
      BY <2>4 DEF Holds
    <3>2. CASE i = 1
      BY <1>1, <3>1, <3>2
    <3>3. CASE i # 1
      <4>1. i - 1 \in 1..Len(queue) - 1 /\ (i - 1) + 1 = i
        BY <2>1, <3>3
      <4>2. Tail(queue)[i - 1] = x
        BY <1>1, <3>1, <4>1
      <4> QED
        BY <1>1, <4>1, <4>2 DEF Holds
    <3> QED
      BY <3>2, <3>3
  <2>5. x = Head(queue) => Holds(queue, x)
    BY <1>1, <2>3 DEF Holds
  <2>6. ASSUME Holds(Tail(queue), x) PROVE Holds(queue, x)
    <3>1. PICK i \in 1..Len(Tail(queue)) : Tail(queue)[i] = x
      BY <2>6 DEF Holds
    <3>2. i \in 1..Len(queue) - 1
      BY <1>1
    <3>3. i + 1 \in 1..Len(queue) /\ queue[i + 1] = x
      BY <1>1, <2>2, <3>1, <3>2
    <3> QED
      BY <3>3 DEF Holds
  <2> QED
    BY <2>4, <2>5, <2>6
<1> QED
  BY <1>1, <1>2

LEMMA JoinHolds ==
  ASSUME NEW queue \in Seq(Message), NEW more \in Seq(Message)
  PROVE  /\ queue \o more \in Seq(Message)
         /\ \A x : Holds(queue \o more, x) <=> Holds(queue, x) \/ Holds(more, x)
<1> HIDE DEF Message
<1>1. /\ Len(queue) \in Nat /\ Len(more) \in Nat /\ queue \o more \in Seq(Message)
      /\ Len(queue \o more) = Len(queue) + Len(more)
      /\ \A i \in 1..Len(queue) + Len(more) :
           (queue \o more)[i] = IF i <= Len(queue) THEN queue[i] ELSE more[i - Len(queue)]
  OBVIOUS
<1>2. ASSUME NEW x, Holds(queue \o more, x) PROVE Holds(queue, x) \/ Holds(more, x)
  <2>1. PICK i \in 1..Len(queue) + Len(more) : (queue \o more)[i] = x
    BY <1>1, <1>2 DEF Holds
  <2>2. i \in 1..Len(queue) \/ (~(i <= Len(queue)) /\ i - Len(queue) \in 1..Len(more))
    BY <1>1
  <2> QED
    BY <1>1, <2>1, <2>2 DEF Holds
<1>3. ASSUME NEW x, Holds(queue, x) PROVE Holds(queue \o more, x)
  <2>1. PICK i \in 1..Len(queue) : queue[i] = x
    BY <1>3 DEF Holds
  <2>2. i \in 1..Len(queue) + Len(more) /\ i <= Len(queue)
    BY <1>1
  <2> QED
    BY <1>1, <2>1, <2>2 DEF Holds
<1>4. ASSUME NEW x, Holds(more, x) PROVE Holds(queue \o more, x)
  <2>1. PICK i \in 1..Len(more) : more[i] = x
    BY <1>4 DEF Holds
  <2>2. /\ i + Len(queue) \in 1..Len(queue) + Len(more) /\ ~(i + Len(queue) <= Len(queue))
        /\ (i + Len(queue)) - Len(queue) = i
    BY <1>1
  <2> QED
    BY <1>1, <2>1, <2>2 DEF Holds
<1> QED
  BY <1>1, <1>2, <1>3, <1>4

LEMMA FrontHolds ==
  ASSUME NEW queue \in Seq(Message), NEW n \in Nat, n <= Len(queue)
  PROVE  /\ SubSeq(queue, 1, n) \in Seq(Message)
         /\ \A x : Holds(SubSeq(queue, 1, n), x) => Holds(queue, x)
<1> HIDE DEF Message
<1>1. /\ SubSeq(queue, 1, n) \in Seq(Message) /\ Len(SubSeq(queue, 1, n)) = n
      /\ \A i \in 1..n : SubSeq(queue, 1, n)[i] = queue[i]
  OBVIOUS
<1>2. \A i \in 1..n : i \in 1..Len(queue)
  OBVIOUS
<1> QED
  BY <1>1, <1>2 DEF Holds

(* Whatever order the watches are taken in, all of them are taken.         *)
LEMMA ListedIs ==
  ASSUME NEW S, IsFiniteSet(S)
  PROVE  /\ Cardinality(S) \in Nat /\ M!Listed(S) \in [1..Cardinality(S) -> S]
         /\ \A x \in S : \E i \in 1..Cardinality(S) : M!Listed(S)[i] = x
<1>1. Cardinality(S) \in Nat /\ ExistsBijection(1..Cardinality(S), S)
  BY FS_CardinalityType
<1>2. PICK order \in Bijection(1..Cardinality(S), S) : TRUE
  BY <1>1 DEF ExistsBijection
<1>3. order \in [1..Cardinality(S) -> S] /\ \A x \in S : \E i \in DOMAIN order : order[i] = x
  BY <1>2 DEF Bijection, Injection, Surjection
<1>4. M!Cardinality(S) = Cardinality(S)
  BY DEF M!Cardinality, Cardinality
<1>5. M!Listed(S) = CHOOSE o \in [1..Cardinality(S) -> S] : \A x \in S : \E i \in DOMAIN o : o[i] = x
  BY <1>4 DEF M!Listed
<1>6. /\ M!Listed(S) \in [1..Cardinality(S) -> S]
      /\ \A x \in S : \E i \in DOMAIN M!Listed(S) : M!Listed(S)[i] = x
  BY <1>3, <1>5
<1> QED
  BY <1>1, <1>6

LEMMA MqttCaps ==
  /\ IsFiniteSet(Watchable) /\ QueueLimit \in Nat
  /\ MaxDelay \in Nat /\ MaxDelay # 0
<1>1. M!IsFiniteSet(Watchable) <=> IsFiniteSet(Watchable)
  BY DEF M!IsFiniteSet, IsFiniteSet
<1>2. M!MqttAssumption
  BY RemoteAssumption
<1> QED
  BY <1>1, <1>2 DEF M!MqttAssumption

-----------------------------------------------------------------------------
(* One call inside another: the connection stays what it is, and unless    *)
(* something is lost, what was to be said still is.                          *)
Whole == [service : ServiceSet, linked : BOOLEAN, client : ClientSet, lost : BOOLEAN]

Same(now, r) ==
  /\ r \in Whole /\ r.service.enabled = now.service.enabled
  /\ r.client.state = now.client.state /\ r.client.socket = now.client.socket
  /\ r.client.joined = now.client.joined

Goes(now, r, ms) ==
  /\ Same(now, r)
  /\ now.lost => r.lost
  /\ ~r.lost => \A x \in Message : Holds(now.client.queue, x) => Holds(r.client.queue, x)
  /\ \A x \in Message : Holds(r.client.queue, x) => Holds(now.client.queue, x) \/ x \in ms

Says(r, ms) == ~r.lost => \A x \in ms : Holds(r.client.queue, x)

LEMMA GoesOn ==
  ASSUME NEW a, NEW b, NEW c, NEW ms, NEW ns, Goes(a, b, ms), Goes(b, c, ns)
  PROVE  Goes(a, c, ms \cup ns)
  BY DEF Goes, Same

LEMMA SaysOn ==
  ASSUME NEW b, NEW c, NEW ms \in SUBSET Message, NEW ns, Says(b, ms), Goes(b, c, ns)
  PROVE  Says(c, ms)
  BY DEF Goes, Says

LEMMA WholeIs ==
  ASSUME NEW now \in Whole
  PROVE  /\ now = [service |-> now.service, linked |-> now.linked,
                   client |-> now.client, lost |-> now.lost]
         /\ now.service \in ServiceSet /\ now.linked \in BOOLEAN
         /\ now.client \in ClientSet /\ now.lost \in BOOLEAN
  BY DEF Whole

LEMMA ClientIs ==
  ASSUME NEW c \in ClientSet
  PROVE  /\ c.state \in States /\ c.socket \in Sockets /\ c.joined \in BOOLEAN
         /\ c.queue \in Seq(Message) /\ c.secret \in Secrets
         /\ c = [state |-> c.state, socket |-> c.socket, joined |-> c.joined,
                 queue |-> c.queue, secret |-> c.secret]
<1> HIDE DEF Message
<1> QED
  BY DEF ClientSet

(* The queue of the client exchanged. *)
Queued(now, queue, lossy) ==
  [service |-> now.service, linked |-> now.linked,
   client |-> [state |-> now.client.state, socket |-> now.client.socket,
               joined |-> now.client.joined, queue |-> queue, secret |-> now.client.secret],
   lost |-> lossy]

LEMMA QueuedIs ==
  ASSUME NEW now \in Whole, NEW queue \in Seq(Message), NEW lossy \in BOOLEAN
  PROVE  /\ Same(now, Queued(now, queue, lossy))
         /\ Queued(now, queue, lossy).client.queue = queue
         /\ Queued(now, queue, lossy).lost = lossy
         /\ Queued(now, queue, lossy).linked = now.linked
         /\ Queued(now, queue, lossy).service = now.service
<1> HIDE DEF Message
<1>1. now.client \in ClientSet
  BY WholeIs
<1> DEFINE c == [state |-> now.client.state, socket |-> now.client.socket,
                 joined |-> now.client.joined, queue |-> queue, secret |-> now.client.secret]
<1>2. c \in ClientSet
  BY <1>1, ClientIs DEF ClientSet
<1>3. /\ c.state = now.client.state /\ c.socket = now.client.socket
      /\ c.joined = now.client.joined /\ c.queue = queue
  OBVIOUS
<1>4. Queued(now, queue, lossy) = [service |-> now.service, linked |-> now.linked,
                                   client |-> c, lost |-> lossy]
  BY DEF Queued
<1> HIDE DEF c
<1> QED
  BY <1>2, <1>3, <1>4, WholeIs DEF Same, Whole

LEMMA QueuedAnew ==
  ASSUME NEW now \in Whole, NEW queue \in Seq(Message)
  PROVE  /\ [now EXCEPT !.client.queue = queue] = Queued(now, queue, now.lost)
         /\ [now EXCEPT !.lost = TRUE] = Queued(now, now.client.queue, TRUE)
<1> HIDE DEF Message
<1> DEFINE c == [now.client EXCEPT !.queue = queue]
<1>1. /\ c = [state |-> now.client.state, socket |-> now.client.socket,
              joined |-> now.client.joined, queue |-> queue, secret |-> now.client.secret]
      /\ now.client = [state |-> now.client.state, socket |-> now.client.socket,
              joined |-> now.client.joined, queue |-> now.client.queue,
              secret |-> now.client.secret]
  BY WholeIs, ClientIs
<1> HIDE DEF c
<1>2. [now EXCEPT !.client = c] = Queued(now, queue, now.lost)
  BY <1>1, WholeIs DEF Queued
<1> DEFINE gone == TRUE
<1> HIDE DEF gone
<1>3. [now EXCEPT !.lost = gone] = Queued(now, now.client.queue, gone)
  BY <1>1, WholeIs DEF Queued
<1> QED
  BY <1>2, <1>3 DEF c, gone

LEMMA EnqueueIs ==
  ASSUME NEW now \in Whole, NEW m \in Message
  PROVE  /\ Goes(now, M!Enqueue(now, m), {m}) /\ Says(M!Enqueue(now, m), {m})
         /\ M!Enqueue(now, m).linked = now.linked
         /\ M!Enqueue(now, m).service = now.service
<1> HIDE DEF Message
<1> DEFINE queue == now.client.queue
           longer == Append(queue, m)
<1>1. queue \in Seq(Message) /\ now.lost \in BOOLEAN
  BY WholeIs, ClientIs
<1>2. longer \in Seq(Message) /\ \A x : Holds(longer, x) <=> Holds(queue, x) \/ x = m
  BY <1>1, AppendHolds
<1>3. \/ M!Enqueue(now, m) = Queued(now, longer, now.lost)
      \/ M!Enqueue(now, m) = Queued(now, queue, TRUE)
  BY <1>1, <1>2, QueuedAnew DEF M!Enqueue
<1> HIDE DEF longer
<1>4. CASE M!Enqueue(now, m) = Queued(now, longer, now.lost)
  <2> DEFINE r == Queued(now, longer, now.lost)
  <2>1. Same(now, r) /\ r.client.queue = longer /\ r.lost = now.lost /\ r.linked = now.linked
        /\ r.service = now.service
    BY <1>1, <1>2, QueuedIs
  <2> HIDE DEF r
  <2>2. Goes(now, r, {m}) /\ Says(r, {m})
    BY <1>2, <2>1 DEF Goes, Says
  <2> QED
    BY <1>4, <2>1, <2>2 DEF r
<1>5. CASE M!Enqueue(now, m) = Queued(now, queue, TRUE)
  <2> DEFINE r == Queued(now, queue, TRUE)
  <2>1. Same(now, r) /\ r.client.queue = queue /\ r.lost = TRUE /\ r.linked = now.linked
        /\ r.service = now.service
    BY <1>1, <1>2, QueuedIs
  <2> HIDE DEF r
  <2>2. Goes(now, r, {m}) /\ Says(r, {m})
    BY <1>2, <2>1 DEF Goes, Says
  <2> QED
    BY <1>5, <2>1, <2>2 DEF r
<1> QED
  BY <1>3, <1>4, <1>5

LEMMA EnqueueAllIs ==
  ASSUME NEW now \in Whole, NEW rest \in Seq(Message),
         NEW ms, \A x : x \in ms <=> Holds(rest, x)
  PROVE  /\ Goes(now, M!EnqueueAll(now, rest), ms) /\ Says(M!EnqueueAll(now, rest), ms)
         /\ M!EnqueueAll(now, rest).linked = now.linked
         /\ M!EnqueueAll(now, rest).service = now.service
<1> HIDE DEF Message
<1> DEFINE queue == now.client.queue
           all == queue \o rest
           top == SubSeq(all, 1, QueueLimit)
<1>1. queue \in Seq(Message) /\ now.lost \in BOOLEAN /\ QueueLimit \in Nat
  BY WholeIs, ClientIs, MqttCaps
<1>2. all \in Seq(Message) /\ \A x : Holds(all, x) <=> Holds(queue, x) \/ x \in ms
  BY <1>1, JoinHolds
<1>3. CASE Len(all) <= QueueLimit
  <2> DEFINE r == Queued(now, all, now.lost)
  <2>1. M!EnqueueAll(now, rest) = r
    BY <1>2, <1>3, QueuedAnew DEF M!EnqueueAll
  <2> HIDE DEF all
  <2>2. Same(now, r) /\ r.client.queue = all /\ r.lost = now.lost /\ r.linked = now.linked
        /\ r.service = now.service
    BY <1>1, <1>2, QueuedIs
  <2> HIDE DEF r
  <2>3. Goes(now, r, ms) /\ Says(r, ms)
    BY <1>2, <2>2 DEF Goes, Says
  <2> QED
    BY <2>1, <2>2, <2>3
<1>4. CASE ~(Len(all) <= QueueLimit)
  <2> DEFINE cut == Queued(now, top, now.lost)
             r == Queued(cut, top, TRUE)
  <2>1. top \in Seq(Message) /\ \A x : Holds(top, x) => Holds(all, x)
    <3>1. QueueLimit <= Len(all)
      BY <1>1, <1>2, <1>4
    <3> HIDE DEF all
    <3> QED
      BY <1>1, <1>2, <3>1, FrontHolds
  <2>2. [now EXCEPT !.client.queue = top] = cut
    BY <2>1, QueuedAnew
  <2>3. M!EnqueueAll(now, rest) = [cut EXCEPT !.lost = TRUE]
    BY <1>4, <2>2 DEF M!EnqueueAll
  <2> HIDE DEF top, all
  <2>4. Same(now, cut) /\ cut \in Whole /\ cut.client.queue = top /\ cut.linked = now.linked
        /\ cut.service = now.service
    BY <1>1, <2>1, QueuedIs DEF Same
  <2> HIDE DEF cut
  <2>5. [cut EXCEPT !.lost = TRUE] = r
    BY <2>1, <2>4, QueuedAnew
  <2>6. Same(cut, r) /\ r.client.queue = top /\ r.lost = TRUE /\ r.linked = cut.linked
        /\ r.service = cut.service
    BY <2>1, <2>4, QueuedIs
  <2> HIDE DEF r
  <2>7. Goes(now, r, ms) /\ Says(r, ms)
    BY <1>2, <2>1, <2>4, <2>6 DEF Goes, Says, Same
  <2> QED
    BY <2>3, <2>4, <2>5, <2>6, <2>7
<1> QED
  BY <1>3, <1>4

LEMMA GoesNowhere ==
  ASSUME NEW now \in Whole, NEW ms
  PROVE  Goes(now, now, ms)
  BY DEF Goes, Same

LEMMA PublishIs ==
  ASSUME NEW now \in Whole, NEW m \in Message
  PROVE  /\ Goes(now, M!Publish(now, m), {m})
         /\ now.client.state = "connected" => Says(M!Publish(now, m), {m})
         /\ M!Publish(now, m).linked = now.linked
         /\ M!Publish(now, m).service = now.service
<1> HIDE DEF Message
<1> QED
  BY EnqueueIs, GoesNowhere DEF M!Publish

Asks == {Ask(f) : f \in watches}

LEMMA ResubscribeIs ==
  ASSUME NEW now \in Whole, watches \subseteq Watchable
  PROVE  /\ Goes(now, M!Resubscribe(now), Asks)
         /\ now.linked /\ now.client.state = "connected" => Says(M!Resubscribe(now), Asks)
         /\ M!Resubscribe(now).linked = now.linked
         /\ M!Resubscribe(now).service = now.service
<1> DEFINE n == Cardinality(watches)
           rest == [i \in 1..n |-> Ask(M!Listed(watches)[i])]
<1>1. /\ n \in Nat /\ M!Listed(watches) \in [1..n -> watches]
      /\ \A x \in watches : \E i \in 1..n : M!Listed(watches)[i] = x
  <2>1. IsFiniteSet(watches)
    BY MqttCaps, FS_Subset
  <2> QED
    BY <2>1, ListedIs
<1>2. \A f \in watches : Ask(f) \in Message
  BY DEF Message, Heads
<1>3. M!Cardinality(watches) = n
  BY DEF M!Cardinality, Cardinality
<1>4. ~now.linked \/ now.client.state # "connected" \/ M!Resubscribe(now) = M!EnqueueAll(now, rest)
  BY <1>3 DEF M!Resubscribe, Ask
<1> HIDE DEF n, Message
<1>5. rest \in Seq(Message) /\ Len(rest) = n
  BY <1>1, <1>2
<1>6. \A x : x \in Asks <=> Holds(rest, x)
  BY <1>1, <1>5 DEF Asks, Holds
<1> HIDE DEF rest
<1>7. CASE ~now.linked \/ now.client.state # "connected"
  BY <1>7, GoesNowhere DEF M!Resubscribe
<1>8. CASE M!Resubscribe(now) = M!EnqueueAll(now, rest)
  BY <1>5, <1>6, <1>8, EnqueueAllIs
<1> QED
  BY <1>4, <1>7, <1>8

-----------------------------------------------------------------------------
(* What changes beside the queue.                                          *)
Kindred(s, t) == t \in ServiceSet /\ t.enabled = s.enabled

LEMMA ServiceIs ==
  ASSUME NEW s \in ServiceSet
  PROVE  /\ s.enabled \in BOOLEAN /\ s.made \in Numbers /\ s.wait \in Nat /\ s.delay \in Nat
         /\ s.announced \in BOOLEAN /\ s.discovered \in BOOLEAN /\ s.statusDue \in BOOLEAN
         /\ s = [enabled |-> s.enabled, made |-> s.made, wait |-> s.wait, delay |-> s.delay,
                 announced |-> s.announced, discovered |-> s.discovered,
                 statusDue |-> s.statusDue]
<1> HIDE DEF Numbers
<1> QED
  BY DEF ServiceSet

LEMMA ServiceFields ==
  ASSUME NEW s \in ServiceSet, NEW x \in BOOLEAN, NEW n \in Nat
  PROVE  /\ Kindred(s, [s EXCEPT !.discovered = x]) /\ Kindred(s, [s EXCEPT !.announced = x])
         /\ Kindred(s, [s EXCEPT !.statusDue = x]) /\ Kindred(s, [s EXCEPT !.delay = n])
         /\ Kindred(s, [s EXCEPT !.wait = n])
<1> HIDE DEF Numbers
<1> QED
  BY DEF ServiceSet, Kindred

LEMMA ServiceAnew ==
  ASSUME NEW now \in Whole, NEW s, Kindred(now.service, s)
  PROVE  LET r == [now EXCEPT !.service = s] IN
         /\ Goes(now, r, {}) /\ r.service = s /\ r.linked = now.linked
         /\ r.client = now.client /\ r.lost = now.lost
<1> DEFINE r == [now EXCEPT !.service = s]
<1>1. r = [service |-> s, linked |-> now.linked, client |-> now.client, lost |-> now.lost]
  BY WholeIs
<1> HIDE DEF r
<1>2. /\ r.service = s /\ r.linked = now.linked /\ r.client = now.client
      /\ r.lost = now.lost /\ r \in Whole
  BY <1>1, WholeIs DEF Whole, Kindred
<1>3. Goes(now, r, {})
  BY <1>2 DEF Goes, Same, Kindred
<1> QED
  BY <1>2, <1>3 DEF r

LEMMA LinkedAnew ==
  ASSUME NEW now \in Whole, NEW x \in BOOLEAN
  PROVE  LET r == [now EXCEPT !.linked = x] IN
         /\ Goes(now, r, {}) /\ r.service = now.service /\ r.linked = x
         /\ r.client = now.client /\ r.lost = now.lost
<1> DEFINE r == [now EXCEPT !.linked = x]
<1>1. r = [service |-> now.service, linked |-> x, client |-> now.client, lost |-> now.lost]
  BY WholeIs
<1> HIDE DEF r
<1>2. /\ r.service = now.service /\ r.linked = x /\ r.client = now.client
      /\ r.lost = now.lost /\ r \in Whole
  BY <1>1, WholeIs DEF Whole
<1>3. Goes(now, r, {})
  BY <1>2 DEF Goes, Same
<1> QED
  BY <1>2, <1>3 DEF r

LEMMA ClientAnew ==
  ASSUME NEW now \in Whole, NEW c \in ClientSet
  PROVE  LET r == [now EXCEPT !.client = c] IN
         /\ r \in Whole /\ r.service = now.service /\ r.linked = now.linked
         /\ r.client = c /\ r.lost = now.lost
<1> DEFINE r == [now EXCEPT !.client = c]
<1>1. r = [service |-> now.service, linked |-> now.linked, client |-> c, lost |-> now.lost]
  BY WholeIs
<1> HIDE DEF r
<1>2. /\ r.service = now.service /\ r.linked = now.linked /\ r.client = c
      /\ r.lost = now.lost /\ r \in Whole
  BY <1>1, WholeIs DEF Whole
<1> QED
  BY <1>2 DEF r

LEMMA StateAnew ==
  ASSUME NEW c \in ClientSet, NEW x \in States
  PROVE  LET r == [c EXCEPT !.state = x] IN
         /\ r \in ClientSet /\ r.state = x
         /\ r.socket = c.socket /\ r.joined = c.joined /\ r.queue = c.queue
<1> HIDE DEF Message, States, Sockets
<1> QED
  BY DEF ClientSet

LEMMA SocketAnew ==
  ASSUME NEW c \in ClientSet, NEW x \in Sockets
  PROVE  LET r == [c EXCEPT !.socket = x] IN
         /\ r \in ClientSet /\ r.socket = x
         /\ r.state = c.state /\ r.joined = c.joined /\ r.queue = c.queue
<1> HIDE DEF Message, States, Sockets
<1> QED
  BY DEF ClientSet

LEMMA JoinedAnew ==
  ASSUME NEW c \in ClientSet, NEW x \in BOOLEAN
  PROVE  LET r == [c EXCEPT !.joined = x] IN
         /\ r \in ClientSet /\ r.joined = x
         /\ r.state = c.state /\ r.socket = c.socket /\ r.queue = c.queue
<1> HIDE DEF Message, States, Sockets
<1> QED
  BY DEF ClientSet

LEMMA QueueAnew ==
  ASSUME NEW c \in ClientSet, NEW x \in Seq(Message)
  PROVE  LET r == [c EXCEPT !.queue = x] IN
         /\ r \in ClientSet /\ r.queue = x
         /\ r.state = c.state /\ r.socket = c.socket /\ r.joined = c.joined
<1> HIDE DEF Message, States, Sockets
<1> QED
  BY DEF ClientSet

LEMMA SecretAnew ==
  ASSUME NEW c \in ClientSet, NEW x \in Secrets
  PROVE  LET r == [c EXCEPT !.secret = x] IN
         /\ r \in ClientSet
         /\ r.state = c.state /\ r.socket = c.socket /\ r.joined = c.joined /\ r.queue = c.queue
<1> HIDE DEF Message, States, Sockets
<1> QED
  BY DEF ClientSet

LEMMA DiscoveryIs ==
  ASSUME NEW now \in Whole, NEW on \in BOOLEAN
  PROVE  LET r == M!PublishDiscovery(now, on) IN
         Goes(now, r, Message \ {Offline}) /\ r.linked = now.linked
<1> DEFINE m == [kind |-> "discovery", on |-> on]
           sent == M!Publish(now, m)
           r == [sent EXCEPT !.service.discovered = on]
<1>1. m \in Message /\ m # Offline
  BY DEF Message, Offline
<1> HIDE DEF Message, m
<1>2. Goes(now, sent, {m}) /\ sent.linked = now.linked /\ sent \in Whole
  BY <1>1, PublishIs DEF Goes, Same
<1> HIDE DEF sent
<1>3. Kindred(sent.service, [sent.service EXCEPT !.discovered = on])
  BY <1>2, ServiceFields, WholeIs
<1>4. Goes(sent, r, {}) /\ r.linked = sent.linked
  BY <1>2, <1>3, ServiceAnew
<1> HIDE DEF r
<1>5. Goes(now, r, Message \ {Offline})
  BY <1>1, <1>2, <1>4 DEF Goes, Same
<1>6. M!PublishDiscovery(now, on) = r \/ M!PublishDiscovery(now, on) = now
  BY DEF M!PublishDiscovery, r, sent, m
<1> QED
  BY <1>2, <1>4, <1>5, <1>6, GoesNowhere

(* All that is said while the connection lasts; "offline" is not. *)
Plainly == Message \ {Offline}

LEMMA WellOn ==
  ASSUME NEW a, NEW b, NEW c, NEW ns \in SUBSET Plainly,
         Goes(a, b, Plainly), Goes(b, c, ns)
  PROVE  Goes(a, c, Plainly)
  BY DEF Goes, Same

LEMMA PlainlySaid ==
  /\ Online \in Plainly /\ Ask("commands") \in Plainly /\ [kind |-> "status"] \in Plainly
  /\ [kind |-> "result"] \in Plainly
  /\ \A f \in Watchable : Ask(f) \in Plainly
  BY DEF Plainly, Message, Online, Offline, Ask, Heads

(* Whoever connects says that he is online, and asks for all he wants.     *)
Wants == {Online, Ask("commands")} \cup Asks

LEMMA OnConnectedIs ==
  ASSUME NEW now \in Whole, now.client.state = "connected", watches \subseteq Watchable,
         settings.discovery \in BOOLEAN
  PROVE  /\ Goes(now, M!OnConnected(now), Plainly) /\ Says(M!OnConnected(now), Wants)
         /\ M!OnConnected(now).linked = TRUE
<1> DEFINE first == [now EXCEPT !.service.delay = 0]
           base == [first EXCEPT !.service.announced = TRUE]
           online == M!Publish(base, Online)
           listening == M!Publish(online, Ask("commands"))
           joined == [listening EXCEPT !.linked = TRUE]
           watching == M!Resubscribe(joined)
           anew == [watching EXCEPT !.service.discovered = FALSE]
           told == M!PublishDiscovery(anew, settings.discovery)
           r == [told EXCEPT !.service.statusDue = TRUE]
<1>0. M!OnConnected(now) = r
  BY DEF M!OnConnected, Online, Ask, M!Commands
<1>1. Goes(now, first, Plainly)
  <2>1. Kindred(now.service, [now.service EXCEPT !.delay = 0])
    BY WholeIs, ServiceFields
  <2>2. Goes(now, first, {})
    BY <2>1, ServiceAnew
  <2> HIDE DEF first
  <2> QED
    BY <2>2 DEF Goes
<1> HIDE DEF first
<1>2. Goes(now, base, Plainly)
  <2>1. first \in Whole
    BY <1>1 DEF Goes, Same
  <2>2. Kindred(first.service, [first.service EXCEPT !.announced = TRUE])
    BY <2>1, WholeIs, ServiceFields
  <2>3. Goes(first, base, {})
    BY <2>1, <2>2, ServiceAnew
  <2> HIDE DEF base
  <2> QED
    BY <1>1, <2>3, WellOn
<1> HIDE DEF base
<1>3. Goes(now, online, Plainly) /\ Says(online, {Online})
  <2>1. base \in Whole /\ base.client.state = "connected"
    BY <1>2 DEF Goes, Same
  <2>2. Goes(base, online, {Online}) /\ Says(online, {Online})
    BY <2>1, PublishIs, PlainlySaid DEF Plainly
  <2> HIDE DEF online
  <2> QED
    BY <1>2, <2>2, WellOn, PlainlySaid
<1> HIDE DEF online
<1>4. Goes(now, listening, Plainly) /\ Says(listening, {Online, Ask("commands")})
  <2>1. online \in Whole /\ online.client.state = "connected"
    BY <1>3 DEF Goes, Same
  <2>2. Goes(online, listening, {Ask("commands")}) /\ Says(listening, {Ask("commands")})
    BY <2>1, PublishIs, PlainlySaid DEF Plainly
  <2> HIDE DEF listening
  <2>3. Goes(now, listening, Plainly)
    BY <1>3, <2>2, WellOn, PlainlySaid
  <2>4. Says(listening, {Online})
    BY <1>3, <2>2, SaysOn, PlainlySaid DEF Plainly
  <2> QED
    BY <2>2, <2>3, <2>4 DEF Says
<1> HIDE DEF listening
<1>5. /\ Goes(now, joined, Plainly) /\ Says(joined, {Online, Ask("commands")})
      /\ joined.linked = TRUE
  <2>1. listening \in Whole
    BY <1>4 DEF Goes, Same
  <2>2. Goes(listening, joined, {}) /\ joined.linked = TRUE
    BY <2>1, LinkedAnew
  <2> HIDE DEF joined
  <2>3. Says(joined, {Online, Ask("commands")})
    BY <1>4, <2>2, SaysOn, PlainlySaid DEF Plainly
  <2> QED
    BY <1>4, <2>2, <2>3, WellOn
<1> HIDE DEF joined
<1>6. Goes(now, watching, Plainly) /\ Says(watching, Wants) /\ watching.linked = TRUE
  <2>1. joined \in Whole /\ joined.client.state = "connected"
    BY <1>5 DEF Goes, Same
  <2>2. /\ Goes(joined, watching, Asks) /\ Says(watching, Asks) /\ watching.linked = TRUE
    BY <1>5, <2>1, ResubscribeIs
  <2> HIDE DEF watching
  <2>3. Asks \in SUBSET Plainly
    BY PlainlySaid DEF Asks
  <2>4. Goes(now, watching, Plainly)
    BY <1>5, <2>2, <2>3, WellOn
  <2>5. Says(watching, {Online, Ask("commands")})
    BY <1>5, <2>2, SaysOn, PlainlySaid DEF Plainly
  <2> QED
    BY <2>2, <2>4, <2>5 DEF Says, Wants
<1> HIDE DEF watching
<1>7. Wants \in SUBSET Message
  BY PlainlySaid DEF Wants, Asks, Plainly
<1>8. Goes(now, anew, Plainly) /\ Says(anew, Wants) /\ anew.linked = TRUE
  <2>1. watching \in Whole
    BY <1>6 DEF Goes, Same
  <2>2. Kindred(watching.service, [watching.service EXCEPT !.discovered = FALSE])
    BY <2>1, WholeIs, ServiceFields
  <2>3. Goes(watching, anew, {}) /\ anew.linked = TRUE
    BY <1>6, <2>1, <2>2, ServiceAnew
  <2> HIDE DEF anew
  <2> QED
    BY <1>6, <1>7, <2>3, WellOn, SaysOn
<1> HIDE DEF anew
<1>9. Goes(now, told, Plainly) /\ Says(told, Wants) /\ told.linked = TRUE
  <2>1. anew \in Whole
    BY <1>8 DEF Goes, Same
  <2>2. Goes(anew, told, Plainly) /\ told.linked = TRUE
    BY <1>8, <2>1, DiscoveryIs DEF Plainly
  <2> HIDE DEF told
  <2> QED
    BY <1>7, <1>8, <2>2, WellOn, SaysOn
<1> HIDE DEF told
<1>10. Goes(now, r, Plainly) /\ Says(r, Wants) /\ r.linked = TRUE
  <2>1. told \in Whole
    BY <1>9 DEF Goes, Same
  <2>2. Kindred(told.service, [told.service EXCEPT !.statusDue = TRUE])
    BY <2>1, WholeIs, ServiceFields
  <2>3. Goes(told, r, {}) /\ r.linked = TRUE
    BY <1>9, <2>1, <2>2, ServiceAnew
  <2> HIDE DEF r
  <2> QED
    BY <1>7, <1>9, <2>3, WellOn, SaysOn
<1> QED
  BY <1>0, <1>10

(* onStateChanged for a connection that has ended.                         *)
LEMMA OnEndedIs ==
  ASSUME NEW now \in Whole, NEW state
  PROVE  /\ Goes(now, M!OnEnded(now, state), {}) /\ M!OnEnded(now, state).linked = FALSE
<1> DEFINE first == [now EXCEPT !.service.discovered = FALSE]
           second == [first EXCEPT !.linked = FALSE]
           x == second.service.announced /\ state # "disconnected"
           r == [second EXCEPT !.service.announced = x]
<1>0. M!OnEnded(now, state) = r
  BY DEF M!OnEnded
<1>1. Goes(now, first, {}) /\ first \in Whole
  <2>1. Kindred(now.service, [now.service EXCEPT !.discovered = FALSE])
    BY WholeIs, ServiceFields
  <2> QED
    BY <2>1, ServiceAnew DEF Goes, Same
<1> HIDE DEF first
<1>2. Goes(first, second, {}) /\ second \in Whole /\ second.linked = FALSE
  BY <1>1, LinkedAnew DEF Goes, Same
<1> HIDE DEF second
<1>3. Goes(second, r, {}) /\ r.linked = FALSE
  <2>1. Kindred(second.service, [second.service EXCEPT !.announced = x])
    BY <1>2, WholeIs, ServiceFields
  <2> HIDE DEF x
  <2> QED
    BY <1>2, <2>1, ServiceAnew
<1> HIDE DEF r
<1>4. Goes(now, second, {} \cup {})
  BY <1>1, <1>2, GoesOn
<1>5. Goes(now, r, ({} \cup {}) \cup {})
  BY <1>3, <1>4, GoesOn
<1>6. ({} \cup {}) \cup {} = {}
  OBVIOUS
<1> QED
  BY <1>0, <1>3, <1>5, <1>6

-----------------------------------------------------------------------------
(* A connection that ends, for whatever reason.                            *)
LEMMA EndsIs ==
  ASSUME NEW now \in Whole, NEW state \in States, state # "connected",
         now.linked => now.client.state = "connected"
  PROVE  LET r == M!SetState(now, state) IN
         /\ r \in Whole /\ r.client.state = state /\ r.client.socket = now.client.socket
         /\ r.client.joined = now.client.joined /\ r.service.enabled = now.service.enabled
         /\ ~r.linked
         /\ \A x \in Message : Holds(r.client.queue, x) => Holds(now.client.queue, x)
<1> HIDE DEF Message
<1>1. CASE now.client.state = state
  <2>1. M!SetState(now, state) = now
    BY <1>1 DEF M!SetState
  <2> QED
    BY <1>1, <2>1, WholeIs
<1>2. CASE now.client.state # state
  <2> DEFINE c == [now.client EXCEPT !.state = state]
             turned == [now EXCEPT !.client = c]
             r == M!OnEnded(turned, state)
  <2>1. M!SetState(now, state) = r
    BY <1>2 DEF M!SetState
  <2>2. /\ c \in ClientSet /\ c.state = state /\ c.socket = now.client.socket
        /\ c.joined = now.client.joined /\ c.queue = now.client.queue
    BY WholeIs, StateAnew
  <2> HIDE DEF c
  <2>3. turned \in Whole /\ turned.client = c /\ turned.service = now.service
    BY <2>2, ClientAnew
  <2> HIDE DEF turned
  <2>4. Goes(turned, r, {}) /\ r.linked = FALSE
    BY <2>3, OnEndedIs
  <2> HIDE DEF r
  <2> QED
    BY <2>1, <2>2, <2>3, <2>4 DEF Goes, Same
<1> QED
  BY <1>1, <1>2

LEMMA CloseSocketIs ==
  ASSUME NEW now \in Whole
  PROVE  LET r == M!CloseSocket(now) IN
         /\ r \in Whole /\ r.client.state = now.client.state /\ r.client.socket = "none"
         /\ r.client.joined = FALSE /\ r.service = now.service /\ r.linked = now.linked
         /\ \A x : ~Holds(r.client.queue, x)
<1> DEFINE a == [now EXCEPT !.client.socket = "none"]
           b == [a EXCEPT !.client.queue = <<>>]
           r == [b EXCEPT !.client.joined = FALSE]
<1>0. M!CloseSocket(now) = r
  BY DEF M!CloseSocket
<1>1. /\ a \in Whole /\ a.client.state = now.client.state /\ a.client.socket = "none"
      /\ a.service = now.service /\ a.linked = now.linked
  <2> DEFINE c == [now.client EXCEPT !.socket = "none"]
  <2>1. "none" \in Sockets
    BY DEF Sockets
  <2>2. c \in ClientSet /\ c.state = now.client.state /\ c.socket = "none"
    BY <2>1, WholeIs, SocketAnew
  <2> HIDE DEF c
  <2>3. [now EXCEPT !.client = c] = a
    BY DEF c
  <2>4. LET q == [now EXCEPT !.client = c] IN
        /\ q \in Whole /\ q.service = now.service /\ q.linked = now.linked
        /\ q.client = c
    BY <2>2, ClientAnew
  <2> HIDE DEF a
  <2> QED
    BY <2>2, <2>3, <2>4
<1> HIDE DEF a
<1>2. /\ b \in Whole /\ b.client.state = a.client.state /\ b.client.socket = a.client.socket
      /\ b.service = a.service /\ b.linked = a.linked /\ b.client.queue = <<>>
  <2> DEFINE c == [a.client EXCEPT !.queue = <<>>]
  <2>1. <<>> \in Seq(Message)
    OBVIOUS
  <2>2. /\ c \in ClientSet /\ c.state = a.client.state /\ c.socket = a.client.socket
        /\ c.queue = <<>>
    BY <1>1, <2>1, WholeIs, QueueAnew
  <2> HIDE DEF c
  <2>3. [a EXCEPT !.client = c] = b
    BY DEF c
  <2>4. LET q == [a EXCEPT !.client = c] IN
        /\ q \in Whole /\ q.service = a.service /\ q.linked = a.linked
        /\ q.client = c
    BY <1>1, <2>2, ClientAnew
  <2> HIDE DEF b
  <2> QED
    BY <1>1, <2>2, <2>3, <2>4
<1> HIDE DEF b
<1>3. /\ r \in Whole /\ r.client.state = b.client.state /\ r.client.socket = b.client.socket
      /\ r.service = b.service /\ r.linked = b.linked /\ r.client.queue = <<>>
      /\ r.client.joined = FALSE
  <2> DEFINE c == [b.client EXCEPT !.joined = FALSE]
  <2>2. /\ c \in ClientSet /\ c.state = b.client.state /\ c.socket = b.client.socket
        /\ c.queue = <<>> /\ c.joined = FALSE
    BY <1>2, WholeIs, JoinedAnew
  <2> HIDE DEF c
  <2>3. [b EXCEPT !.client = c] = r
    BY DEF c
  <2>4. LET q == [b EXCEPT !.client = c] IN
        /\ q \in Whole /\ q.service = b.service /\ q.linked = b.linked
        /\ q.client = c
    BY <1>2, <2>2, ClientAnew
  <2> HIDE DEF r
  <2> QED
    BY <1>2, <2>2, <2>3, <2>4
<1> HIDE DEF r
<1>4. \A x : ~Holds(r.client.queue, x)
  BY <1>3 DEF Holds
<1> QED
  BY <1>0, <1>1, <1>2, <1>3, <1>4

(* What holds of the device between two steps: it is connected only on a   *)
(* socket of its own, the gateway knows of the connection while there is   *)
(* one, there is none while MQTT is off, and "offline" is never queued for *)
(* later.                                                                  *)
Sane(now) ==
  /\ now \in Whole
  /\ now.client.state = "connected" => now.client.joined
  /\ now.linked <=> now.client.state = "connected"
  /\ now.client.joined => now.client.socket = "open"
  /\ ~now.service.enabled => now.client.state # "connected" /\ now.client.socket = "none"
  /\ ~Holds(now.client.queue, Offline)

(* The connection is gone, or there was none.                              *)
Away(now) ==
  /\ now \in Whole /\ now.client.state # "connected" /\ ~now.linked
  /\ now.client.socket # "open" /\ ~now.client.joined
  /\ ~Holds(now.client.queue, Offline)

LEMMA AwayIsSane ==
  ASSUME NEW now, Away(now), now.service.enabled \/ now.client.socket = "none"
  PROVE  Sane(now)
  BY DEF Away, Sane

LEMMA IsMessage == Offline \in Message /\ Online \in Message
  BY DEF Message

LEMMA StopsIs ==
  ASSUME NEW now \in Whole, now.linked => now.client.state = "connected",
         NEW state \in {"disabled", "disconnected"}
  PROVE  LET r == M!SetState(M!CloseSocket(now), state) IN
         Away(r) /\ r.client.socket = "none" /\ r.service.enabled = now.service.enabled
<1> DEFINE shut == M!CloseSocket(now)
           r == M!SetState(shut, state)
<1>1. /\ shut \in Whole /\ shut.client.state = now.client.state /\ shut.client.socket = "none"
      /\ shut.client.joined = FALSE /\ shut.service = now.service /\ shut.linked = now.linked
      /\ \A x : ~Holds(shut.client.queue, x)
  BY CloseSocketIs
<1> HIDE DEF shut
<1>2. state \in States /\ state # "connected"
  BY DEF States
<1>3. /\ r \in Whole /\ r.client.state = state /\ r.client.socket = shut.client.socket
      /\ r.client.joined = shut.client.joined /\ r.service.enabled = shut.service.enabled
      /\ ~r.linked
      /\ \A x \in Message : Holds(r.client.queue, x) => Holds(shut.client.queue, x)
  BY <1>1, <1>2, EndsIs
<1> HIDE DEF r
<1> QED
  BY <1>1, <1>2, <1>3, IsMessage DEF Away, shut, r

(* connect. *)
LEMMA ConnectIs ==
  ASSUME NEW now \in Whole, now.linked => now.client.state = "connected",
         settings.secret \in Secrets
  PROVE  Away(M!Connect(now)) /\ M!Connect(now).service.enabled = now.service.enabled
<1> DEFINE shut == M!CloseSocket(now)
           a == [shut EXCEPT !.client.socket = "opening"]
           b == [a EXCEPT !.client.secret = settings.secret]
           open == [b EXCEPT !.lost = FALSE]
           r == M!SetState(open, "connecting")
<1>0. M!Connect(now) = r
  BY DEF M!Connect
<1>1. /\ shut \in Whole /\ shut.client.state = now.client.state /\ shut.client.socket = "none"
      /\ shut.client.joined = FALSE /\ shut.service = now.service /\ shut.linked = now.linked
      /\ \A x : ~Holds(shut.client.queue, x)
  BY CloseSocketIs
<1> HIDE DEF shut
<1>2. /\ a \in Whole /\ a.client.state = shut.client.state /\ a.client.socket = "opening"
      /\ a.client.joined = shut.client.joined /\ a.service = shut.service
      /\ a.linked = shut.linked /\ a.client.queue = shut.client.queue
  <2> DEFINE c == [shut.client EXCEPT !.socket = "opening"]
  <2>1. "opening" \in Sockets
    BY DEF Sockets
  <2>2. /\ c \in ClientSet /\ c.state = shut.client.state /\ c.socket = "opening"
        /\ c.joined = shut.client.joined /\ c.queue = shut.client.queue
    BY <1>1, <2>1, WholeIs, SocketAnew
  <2> HIDE DEF c
  <2>3. [shut EXCEPT !.client = c] = a
    BY DEF c
  <2>4. LET q == [shut EXCEPT !.client = c] IN
        /\ q \in Whole /\ q.service = shut.service /\ q.linked = shut.linked
        /\ q.client = c
    BY <1>1, <2>2, ClientAnew
  <2> HIDE DEF a
  <2> QED
    BY <1>1, <2>2, <2>3, <2>4
<1> HIDE DEF a
<1>3. /\ b \in Whole /\ b.client.state = a.client.state /\ b.client.socket = a.client.socket
      /\ b.client.joined = a.client.joined /\ b.service = a.service
      /\ b.linked = a.linked /\ b.client.queue = a.client.queue
  <2> DEFINE c == [a.client EXCEPT !.secret = settings.secret]
  <2>2. /\ c \in ClientSet /\ c.state = a.client.state /\ c.socket = a.client.socket
        /\ c.joined = a.client.joined /\ c.queue = a.client.queue
    BY <1>2, WholeIs, SecretAnew
  <2> HIDE DEF c
  <2>3. [a EXCEPT !.client = c] = b
    BY DEF c
  <2>4. LET q == [a EXCEPT !.client = c] IN
        /\ q \in Whole /\ q.service = a.service /\ q.linked = a.linked
        /\ q.client = c
    BY <1>2, <2>2, ClientAnew
  <2> HIDE DEF b
  <2> QED
    BY <1>2, <2>2, <2>3, <2>4
<1> HIDE DEF b
<1>4. /\ open \in Whole /\ open.client = b.client /\ open.service = b.service
      /\ open.linked = b.linked
  <2> DEFINE gone == FALSE
  <2>1. gone \in BOOLEAN
    OBVIOUS
  <2> HIDE DEF gone
  <2>2. [b EXCEPT !.lost = gone] = [service |-> b.service, linked |-> b.linked,
                                    client |-> b.client, lost |-> gone]
    BY <1>3, WholeIs
  <2>3. [b EXCEPT !.lost = gone] = open
    BY DEF gone
  <2> HIDE DEF open
  <2> QED
    BY <1>3, <2>1, <2>2, <2>3, WholeIs DEF Whole
<1> HIDE DEF open
<1>5. "connecting" \in States
  BY DEF States
<1>6. /\ r \in Whole /\ r.client.state = "connecting" /\ r.client.socket = open.client.socket
      /\ r.client.joined = open.client.joined /\ r.service.enabled = open.service.enabled
      /\ ~r.linked
      /\ \A x \in Message : Holds(r.client.queue, x) => Holds(open.client.queue, x)
  BY <1>1, <1>2, <1>3, <1>4, <1>5, EndsIs
<1> HIDE DEF r
<1> QED
  BY <1>0, <1>1, <1>2, <1>3, <1>4, <1>6, IsMessage DEF Away

LEMMA AwayOn ==
  ASSUME NEW now, NEW r, NEW ms \in SUBSET Plainly, Away(now), Goes(now, r, ms),
         r.linked = now.linked
  PROVE  Away(r) /\ r.client.socket = now.client.socket /\ r.service.enabled = now.service.enabled
  BY IsMessage DEF Away, Goes, Same, Plainly

(* shutdown. *)
LEMMA ShutdownIs ==
  ASSUME NEW now, Sane(now)
  PROVE  Away(M!Shutdown(now)) /\ M!Shutdown(now).client.socket = "none"
<1>1. CASE ~now.service.enabled
  BY <1>1 DEF M!Shutdown, Sane, Away
<1>2. CASE now.service.enabled
  <2> DEFINE talks == now.client.state = "connected" /\ now.service.announced
             spoken == IF talks THEN M!Publish(now, Offline) ELSE now
             gone == M!SetState(M!CloseSocket(spoken), "disabled")
             r == [gone EXCEPT !.service.announced = FALSE]
  <2>1. M!Shutdown(now) = r
    BY <1>2 DEF M!Shutdown, M!Disconnect, Offline
  <2>2. spoken \in Whole /\ spoken.linked = now.linked /\ spoken.client.state = now.client.state
    <3>1. Goes(now, M!Publish(now, Offline), {Offline}) /\ M!Publish(now, Offline).linked = now.linked
      BY PublishIs, IsMessage DEF Sane
    <3> QED
      BY <3>1 DEF Sane, Goes, Same
  <2> HIDE DEF spoken
  <2>3. Away(gone) /\ gone.client.socket = "none"
    BY <2>2, StopsIs DEF Sane
  <2> HIDE DEF gone
  <2>4. gone \in Whole
    BY <2>3 DEF Away
  <2>5. Kindred(gone.service, [gone.service EXCEPT !.announced = FALSE])
    BY <2>4, WholeIs, ServiceFields
  <2>6. Goes(gone, r, {}) /\ r.linked = gone.linked
    BY <2>4, <2>5, ServiceAnew
  <2> HIDE DEF r
  <2>7. Away(r) /\ r.client.socket = gone.client.socket
    BY <2>3, <2>6, AwayOn
  <2> QED
    BY <2>1, <2>3, <2>7
<1> QED
  BY <1>1, <1>2

SettingsSet == [enabled : BOOLEAN, secret : Secrets, discovery : BOOLEAN]

(* Other settings may end a connection, or leave all as it was.            *)
LEMMA ConfigureIs ==
  ASSUME NEW now, Sane(now), settings' \in SettingsSet
  PROVE  LET r == M!Configure(now) IN r = now \/ (Away(r) /\ r.client.socket = "none")
<1> DEFINE base == M!Shutdown(now)
           s1 == [base.service EXCEPT !.enabled = settings'.enabled]
           s2 == [s1 EXCEPT !.made = M!Fingerprint]
           s3 == [s2 EXCEPT !.delay = 0]
           s4 == [s3 EXCEPT !.wait = 0]
           s5 == [s4 EXCEPT !.announced = FALSE]
           s6 == [s5 EXCEPT !.statusDue = TRUE]
           x == [base EXCEPT !.service = s6]
           r == [x EXCEPT !.linked = FALSE]
<1>1. Away(base) /\ base.client.socket = "none" /\ base \in Whole
  BY ShutdownIs DEF Away
<1>2. M!Configure(now) = now \/ M!Configure(now) = r
  BY DEF M!Configure
<1> HIDE DEF base
<1>3. M!Fingerprint \in Numbers /\ settings'.enabled \in BOOLEAN
  BY DEF M!Fingerprint, SettingsSet, Numbers
<1>4. base.service \in ServiceSet
  BY <1>1, WholeIs
<1>5. s1 \in ServiceSet
  <2> DEFINE on == settings'.enabled
  <2>1. on \in BOOLEAN
    BY <1>3
  <2> HIDE DEF Numbers, on
  <2>2. [base.service EXCEPT !.enabled = on] \in ServiceSet
    BY <1>4, <2>1 DEF ServiceSet
  <2> QED
    BY <2>2 DEF on
<1> HIDE DEF s1
<1>6. s2 \in ServiceSet
  <2> HIDE DEF Numbers
  <2> QED
    BY <1>3, <1>5 DEF ServiceSet
<1> HIDE DEF s2
<1>7. s3 \in ServiceSet
  BY <1>6, ServiceFields DEF Kindred
<1> HIDE DEF s3
<1>8. s4 \in ServiceSet
  BY <1>7, ServiceFields DEF Kindred
<1> HIDE DEF s4
<1>9. s5 \in ServiceSet
  BY <1>8, ServiceFields DEF Kindred
<1> HIDE DEF s5
<1>10. s6 \in ServiceSet
  BY <1>9, ServiceFields DEF Kindred
<1> HIDE DEF s6
<1>11. x \in Whole /\ x.client = base.client
  <2>1. x = [service |-> s6, linked |-> base.linked, client |-> base.client, lost |-> base.lost]
    BY <1>1, WholeIs
  <2> HIDE DEF x
  <2> QED
    BY <1>1, <1>10, <2>1, WholeIs DEF Whole
<1> HIDE DEF x
<1>12. r \in Whole /\ r.client = x.client /\ r.linked = FALSE
  BY <1>11, LinkedAnew DEF Goes, Same
<1> HIDE DEF r
<1>13. Away(r) /\ r.client.socket = "none"
  BY <1>1, <1>11, <1>12 DEF Away
<1> QED
  BY <1>2, <1>13

(* connectNow. *)
LEMMA ConnectNowIs ==
  ASSUME NEW now \in Whole, now.linked => now.client.state = "connected",
         settings.secret \in Secrets
  PROVE  Away(M!ConnectNow(now)) /\ M!ConnectNow(now).service.enabled = now.service.enabled
<1> DEFINE begun == M!Connect(now)
           delay == M!NextDelay(begun.service.delay)
           a == [begun EXCEPT !.service.delay = delay]
           r == [a EXCEPT !.service.wait = delay]
<1>0. M!ConnectNow(now) = r
  BY DEF M!ConnectNow
<1>1. Away(begun) /\ begun.service.enabled = now.service.enabled /\ begun \in Whole
  BY ConnectIs DEF Away
<1> HIDE DEF begun
<1>2. delay \in Nat
  <2>1. begun.service.delay \in Nat
    BY <1>1, WholeIs, ServiceIs
  <2> QED
    BY <2>1, MqttCaps DEF M!NextDelay
<1> HIDE DEF delay
<1>3. Goes(begun, a, {}) /\ a.linked = begun.linked /\ a \in Whole
  <2>1. Kindred(begun.service, [begun.service EXCEPT !.delay = delay])
    BY <1>1, <1>2, WholeIs, ServiceFields
  <2> QED
    BY <1>1, <2>1, ServiceAnew DEF Goes, Same
<1> HIDE DEF a
<1>4. Goes(a, r, {}) /\ r.linked = a.linked
  <2>1. Kindred(a.service, [a.service EXCEPT !.wait = delay])
    BY <1>2, <1>3, WholeIs, ServiceFields
  <2> QED
    BY <1>3, <2>1, ServiceAnew
<1> HIDE DEF r
<1>5. Away(a) /\ a.service.enabled = begun.service.enabled
  BY <1>1, <1>3, AwayOn
<1>6. Away(r) /\ r.service.enabled = a.service.enabled
  BY <1>4, <1>5, AwayOn
<1> QED
  BY <1>0, <1>1, <1>5, <1>6

-----------------------------------------------------------------------------
(* While a connection lasts on which nothing was lost, the broker has been *)
(* told what is wanted and that the device is online, or will be by what   *)
(* is queued.                                                              *)
Held(now, b, wanted) ==
  now.client.state = "connected" /\ b.live /\ ~now.lost =>
    /\ \A f \in {"commands"} \cup wanted : f \in b.session \/ Holds(now.client.queue, Ask(f))
    /\ b.availability = "online" \/ Holds(now.client.queue, Online)

BrokerSet ==
  [up : BOOLEAN, live : BOOLEAN, session : SUBSET Heads,
   availability : {"none", "online", "offline"}, entities : BOOLEAN]

Packets == {[kind |-> "connack"]} \cup {[kind |-> "patch", discovery |-> on] : on \in BOOLEAN}

Here == [service |-> service, linked |-> linked, client |-> connection, lost |-> lost]

MqttInv ==
  /\ Sane(Here) /\ Held(Here, broker, watches)
  /\ settings \in SettingsSet /\ watches \subseteq Watchable
  /\ broker \in BrokerSet /\ inbox \in Seq(Packets)

LEMMA HereIs ==
  /\ M!Now = Here
  /\ Here.service = service /\ Here.linked = linked /\ Here.client = connection /\ Here.lost = lost
  BY DEF M!Now, Here

LEMMA BecameIs ==
  ASSUME NEW r \in Whole, M!Became(r)
  PROVE  Here' = r
  BY WholeIs DEF M!Became, Here

LEMMA Stays ==
  ASSUME NEW now, NEW r, NEW ms \in SUBSET Plainly, NEW b, NEW wanted \in SUBSET Watchable,
         Sane(now), Goes(now, r, ms), r.linked = now.linked, Held(now, b, wanted)
  PROVE  Sane(r) /\ Held(r, b, wanted)
<1>1. Sane(r)
  BY IsMessage DEF Sane, Goes, Same, Plainly
<1>2. \A f \in {"commands"} \cup wanted : Ask(f) \in Message
  BY PlainlySaid DEF Plainly
<1>3. Held(r, b, wanted)
  BY <1>2, IsMessage DEF Held, Goes, Same
<1> QED
  BY <1>1, <1>3

LEMMA AwayIsHeld ==
  ASSUME NEW now, NEW b, NEW wanted, Away(now)
  PROVE  Held(now, b, wanted)
  BY DEF Away, Held

LEMMA TickIsServed ==
  ASSUME MqttInv, M!Tick
  PROVE  MqttInv'
<1> DEFINE seen == M!PublishDiscovery(Here, settings.discovery)
           wait == IF seen.service.wait > 0 THEN seen.service.wait - 1 ELSE 0
           waiting == [seen EXCEPT !.service.wait = wait]
           spoken == M!Publish(seen, [kind |-> "status"])
           told == [spoken EXCEPT !.service.statusDue = FALSE]
           r == IF ~seen.service.enabled THEN seen
                ELSE IF M!TriesAgain(seen.client.state)
                THEN IF waiting.service.wait > 0 THEN waiting ELSE M!ConnectNow(waiting)
                ELSE IF seen.client.state = "connected" /\ seen.service.statusDue
                THEN told ELSE seen
<1>1. M!Device(r) /\ UNCHANGED <<settings, watches, broker>>
  BY HereIs DEF M!Tick
<1>2. /\ Sane(Here) /\ Held(Here, broker, watches) /\ Here \in Whole
      /\ settings.discovery \in BOOLEAN /\ settings.secret \in Secrets
      /\ watches \in SUBSET Watchable /\ inbox \in Seq(Packets)
  BY DEF MqttInv, Sane, SettingsSet
<1>3. Goes(Here, seen, Plainly) /\ seen.linked = Here.linked
  BY <1>2, DiscoveryIs DEF Plainly
<1>4. Sane(seen) /\ Held(seen, broker, watches)
  BY <1>2, <1>3, Stays
<1> HIDE DEF seen
<1>5. seen \in Whole
  BY <1>4 DEF Sane
<1>6. wait \in Nat
  <2>1. seen.service.wait \in Nat
    BY <1>5, WholeIs, ServiceIs
  <2> QED
    BY <2>1
<1> HIDE DEF wait
<1>7. Goes(seen, waiting, {}) /\ waiting.linked = seen.linked
  <2>1. Kindred(seen.service, [seen.service EXCEPT !.wait = wait])
    BY <1>5, <1>6, WholeIs, ServiceFields
  <2> QED
    BY <1>5, <2>1, ServiceAnew
<1> HIDE DEF waiting
<1>8. Sane(waiting) /\ Held(waiting, broker, watches) /\ waiting \in Whole
      /\ waiting.service.enabled = seen.service.enabled
  BY <1>2, <1>4, <1>7, Stays DEF Goes, Same
<1>9. Goes(seen, told, Plainly) /\ told.linked = seen.linked
  <2>1. Goes(seen, spoken, {[kind |-> "status"]}) /\ spoken.linked = seen.linked /\ spoken \in Whole
    BY <1>5, PublishIs, PlainlySaid DEF Plainly, Goes, Same
  <2> HIDE DEF spoken
  <2>2. Kindred(spoken.service, [spoken.service EXCEPT !.statusDue = FALSE])
    BY <2>1, WholeIs, ServiceFields
  <2>3. Goes(spoken, told, {}) /\ told.linked = spoken.linked
    BY <2>1, <2>2, ServiceAnew
  <2> HIDE DEF told
  <2>4. Goes(seen, told, {[kind |-> "status"]} \cup {})
    BY <2>1, <2>3, GoesOn
  <2> QED
    BY <2>1, <2>3, <2>4, PlainlySaid DEF Goes
<1> HIDE DEF told
<1>10. Sane(told) /\ Held(told, broker, watches)
  BY <1>2, <1>4, <1>9, Stays DEF Plainly
<1>11. /\ Away(M!ConnectNow(waiting))
       /\ M!ConnectNow(waiting).service.enabled = waiting.service.enabled
  BY <1>2, <1>8, ConnectNowIs DEF Sane
<1>12. seen.service.enabled => Sane(M!ConnectNow(waiting)) /\ Held(M!ConnectNow(waiting), broker, watches)
  BY <1>8, <1>11, AwayIsSane, AwayIsHeld
<1>13. Sane(r) /\ Held(r, broker, watches)
  BY <1>4, <1>8, <1>10, <1>12
<1> HIDE DEF r
<1>14. Here' = r
  BY <1>1, <1>13, BecameIs DEF Sane, M!Device
<1>15. inbox' \in Seq(Packets)
  BY <1>1, <1>2 DEF M!Device, M!InboxAfter
<1> QED
  BY <1>1, <1>13, <1>14, <1>15 DEF MqttInv

(* What a client becomes of another, with the queue it had or a shorter.   *)
LEMMA ClientMoves ==
  ASSUME Sane(Here), NEW c \in ClientSet, connection' = c, UNCHANGED <<service, linked, lost>>
  PROVE  Here' \in Whole /\ Here'.client = c /\ Here'.service = service
         /\ Here'.linked = linked /\ Here'.lost = lost
<1>1. Here' = [service |-> service, linked |-> linked, client |-> c, lost |-> lost]
  BY DEF Here
<1>2. service \in ServiceSet /\ linked \in BOOLEAN /\ lost \in BOOLEAN
  BY WholeIs, HereIs DEF Sane
<1> QED
  BY <1>1, <1>2 DEF Whole

LEMMA BrokerIs ==
  ASSUME NEW b \in BrokerSet
  PROVE  /\ b.up \in BOOLEAN /\ b.live \in BOOLEAN /\ b.session \in SUBSET Heads
         /\ b.availability \in {"none", "online", "offline"} /\ b.entities \in BOOLEAN
         /\ b = [up |-> b.up, live |-> b.live, session |-> b.session,
                 availability |-> b.availability, entities |-> b.entities]
<1> HIDE DEF Heads
<1> QED
  BY DEF BrokerSet

LEMMA WillIs ==
  ASSUME NEW b \in BrokerSet
  PROVE  M!Will(b) \in BrokerSet /\ ~M!Will(b).live /\ M!Will(b).up = b.up
<1>1. CASE ~b.live
  BY <1>1 DEF M!Will
<1>2. CASE b.live
  <2> DEFINE x == [b EXCEPT !.live = FALSE]
             y == [x EXCEPT !.session = {}]
             r == [y EXCEPT !.availability = "offline"]
  <2>1. M!Will(b) = r
    BY <1>2 DEF M!Will
  <2>2. x \in BrokerSet /\ ~x.live /\ x.up = b.up
    BY DEF BrokerSet
  <2> HIDE DEF x
  <2>3. y \in BrokerSet /\ y.live = x.live /\ y.up = x.up
    BY <2>2 DEF BrokerSet
  <2> HIDE DEF y
  <2>4. r \in BrokerSet /\ r.live = y.live /\ r.up = y.up
    BY <2>3 DEF BrokerSet
  <2> HIDE DEF r
  <2> QED
    BY <2>1, <2>2, <2>3, <2>4
<1> QED
  BY <1>1, <1>2

LEMMA BrokerFields ==
  ASSUME NEW b \in BrokerSet, NEW x \in BOOLEAN, NEW session \in SUBSET Heads,
         NEW word \in {"none", "online", "offline"}
  PROVE  /\ [b EXCEPT !.up = x] \in BrokerSet /\ [b EXCEPT !.live = x] \in BrokerSet
         /\ [b EXCEPT !.entities = x] \in BrokerSet
         /\ [b EXCEPT !.session = session] \in BrokerSet
         /\ [b EXCEPT !.availability = word] \in BrokerSet
<1> HIDE DEF Heads
<1> QED
  BY DEF BrokerSet

LEMMA UpAgain ==
  ASSUME NEW b \in BrokerSet, NEW x \in BOOLEAN
  PROVE  LET r == [b EXCEPT !.up = x] IN
         /\ r \in BrokerSet /\ r.live = b.live /\ r.session = b.session
         /\ r.availability = b.availability
<1> HIDE DEF Heads
<1> QED
  BY DEF BrokerSet

LEMMA PartedIs ==
  ASSUME NEW b \in BrokerSet
  PROVE  M!Parted(b) \in BrokerSet
<1> DEFINE x == [b EXCEPT !.live = FALSE]
           r == [x EXCEPT !.session = {}]
<1>1. M!Parted(b) = r \/ M!Parted(b) = b
  BY DEF M!Parted
<1>2. x \in BrokerSet
  BY BrokerFields DEF BrokerSet
<1> HIDE DEF x
<1>3. r \in BrokerSet
  BY <1>2, BrokerFields
<1> QED
  BY <1>1, <1>3

LEMMA ChangeIsServed ==
  ASSUME MqttInv, M!ChangeSettings
  PROVE  MqttInv'
<1> DEFINE conf == M!Configure(Here)
           r == [conf EXCEPT !.service.statusDue = TRUE]
<1>1. /\ M!Device(r) /\ watches' = watches /\ settings' \in SettingsSet
      /\ broker' = IF conf.client.socket = "none" THEN M!Parted(broker) ELSE broker
  BY HereIs DEF M!ChangeSettings, SettingsSet
<1>2. /\ Sane(Here) /\ Held(Here, broker, watches) /\ Here \in Whole /\ broker \in BrokerSet
      /\ watches \in SUBSET Watchable /\ inbox \in Seq(Packets)
  BY DEF MqttInv, Sane
<1>3. conf = Here \/ (Away(conf) /\ conf.client.socket = "none")
  BY <1>1, <1>2, ConfigureIs
<1> HIDE DEF conf
<1>4. conf \in Whole
  BY <1>2, <1>3 DEF Away
<1>5. Goes(conf, r, {}) /\ r.linked = conf.linked
  <2>1. Kindred(conf.service, [conf.service EXCEPT !.statusDue = TRUE])
    BY <1>4, WholeIs, ServiceFields
  <2> QED
    BY <1>4, <2>1, ServiceAnew
<1> HIDE DEF r
<1>6. Sane(r) /\ Held(r, broker', watches)
  <2>1. CASE conf = Here
    <3>1. Held(Here, broker', watches)
      <4>1. CASE connection.state = "connected"
        <5>1. connection.socket = "open"
          BY <1>2, <4>1, HereIs DEF Sane
        <5> QED
          BY <1>1, <1>2, <2>1, <5>1, HereIs
      <4>2. CASE connection.state # "connected"
        BY <4>2, HereIs DEF Held
      <4> QED
        BY <4>1, <4>2
    <3> QED
      BY <1>2, <1>5, <2>1, <3>1, Stays
  <2>2. CASE Away(conf) /\ conf.client.socket = "none"
    <3>1. Away(r) /\ r.client.socket = "none"
      BY <1>5, <2>2, AwayOn
    <3> QED
      BY <3>1, AwayIsSane, AwayIsHeld
  <2> QED
    BY <1>3, <2>1, <2>2
<1>7. Here' = r
  BY <1>1, <1>6, BecameIs DEF Sane, M!Device
<1>8. inbox' \in Seq(Packets)
  BY <1>1, <1>2 DEF M!Device, M!InboxAfter
<1>9. broker' \in BrokerSet
  BY <1>1, <1>2, PartedIs
<1> QED
  BY <1>1, <1>2, <1>6, <1>7, <1>8, <1>9 DEF MqttInv

LEMMA WatchIsServed ==
  ASSUME MqttInv, NEW f \in Watchable, M!Watch(f)
  PROVE  MqttInv'
<1> DEFINE m == Ask(f)
           r == IF linked THEN M!Publish(Here, m) ELSE Here
<1>1. M!Became(r) /\ UNCHANGED <<settings, inbox, broker>> /\ watches' = watches \cup {f}
  BY HereIs DEF M!Watch, Ask
<1>2. /\ Sane(Here) /\ Held(Here, broker, watches) /\ Here \in Whole
      /\ watches \in SUBSET Watchable
  BY DEF MqttInv, Sane
<1>3. m \in Message /\ m \in Plainly
  BY PlainlySaid DEF Plainly
<1>4. Goes(Here, r, {m}) /\ r.linked = linked /\ (linked => Says(r, {m}))
  <2>1. /\ Goes(Here, M!Publish(Here, m), {m}) /\ M!Publish(Here, m).linked = linked
        /\ connection.state = "connected" => Says(M!Publish(Here, m), {m})
    BY <1>2, <1>3, PublishIs, HereIs
  <2>2. Goes(Here, Here, {m})
    BY <1>2, GoesNowhere
  <2> QED
    BY <1>2, <2>1, <2>2, HereIs DEF Sane
<1> HIDE DEF r
<1>5. Sane(r) /\ Held(r, broker, watches)
  BY <1>2, <1>3, <1>4, Stays, HereIs
<1>6. Held(r, broker, watches \cup {f})
  <2>1. r.client.state = "connected" => linked
    BY <1>2, <1>4, HereIs DEF Sane, Goes, Same
  <2> QED
    BY <1>4, <1>5, <2>1 DEF Held, Says
<1>7. Here' = r
  BY <1>1, <1>5, BecameIs DEF Sane
<1>8. watches' \subseteq Watchable
  BY <1>1, <1>2
<1> QED
  BY <1>1, <1>5, <1>6, <1>7, <1>8 DEF MqttInv

LEMMA ForgetIsServed ==
  ASSUME MqttInv, NEW f \in Watchable, M!Forget(f)
  PROVE  MqttInv'
<1>1. UNCHANGED <<Here, settings, inbox, broker>> /\ watches' = watches \ {f}
  BY DEF M!Forget, Here
<1>2. Held(Here, broker, watches \ {f})
  BY DEF MqttInv, Held
<1> QED
  BY <1>1, <1>2 DEF MqttInv

LEMMA JoinIsServed ==
  ASSUME MqttInv, M!Join
  PROVE  MqttInv'
<1> DEFINE a == [connection EXCEPT !.socket = "open"]
           c == [a EXCEPT !.joined = TRUE]
           will == M!Will(broker)
<1>1. /\ connection.socket = "opening" /\ connection' = c /\ broker' = [will EXCEPT !.live = TRUE]
      /\ inbox' = <<[kind |-> "connack"]>>
      /\ UNCHANGED <<settings, service, watches, linked, lost>>
  BY DEF M!Join
<1>2. Sane(Here) /\ connection \in ClientSet /\ broker \in BrokerSet
  BY WholeIs, HereIs DEF MqttInv, Sane
<1>3. ~connection.joined /\ connection.state # "connected"
  BY <1>1, <1>2, HereIs DEF Sane
<1>4. /\ a \in ClientSet /\ a.state = connection.state /\ a.socket = "open"
      /\ a.queue = connection.queue
  <2>1. "open" \in Sockets
    BY DEF Sockets
  <2> QED
    BY <1>2, <2>1, SocketAnew
<1> HIDE DEF a
<1>5. /\ c \in ClientSet /\ c.state = a.state /\ c.socket = a.socket
      /\ c.queue = a.queue /\ c.joined = TRUE
  BY <1>4, JoinedAnew
<1> HIDE DEF c
<1>6. /\ Here' \in Whole /\ Here'.client = c /\ Here'.service = service
      /\ Here'.linked = linked /\ Here'.lost = lost
  BY <1>1, <1>2, <1>5, ClientMoves
<1>7. Sane(Here')
  BY <1>1, <1>2, <1>3, <1>4, <1>5, <1>6, HereIs DEF Sane
<1>8. Held(Here', broker', watches')
  BY <1>3, <1>4, <1>5, <1>6 DEF Held
<1>9. broker' \in BrokerSet
  <2>1. will \in BrokerSet
    BY <1>2, WillIs
  <2> HIDE DEF will
  <2> QED
    BY <1>1, <2>1, BrokerFields DEF BrokerSet
<1>10. inbox' \in Seq(Packets)
  BY <1>1 DEF Packets
<1> QED
  BY <1>1, <1>7, <1>8, <1>9, <1>10 DEF MqttInv

(* What the broker makes of a message. *)
LEMMA RetainIs ==
  ASSUME NEW m \in Message, m # Offline, broker \in BrokerSet
  PROVE  LET b == M!Retain(m) IN
         /\ b \in BrokerSet /\ b.live = broker.live /\ broker.session \subseteq b.session
         /\ \A f : m = Ask(f) => f \in b.session
         /\ m = Online \/ broker.availability = "online" => b.availability = "online"
<1>1. CASE m = Online
  <2>1. M!Retain(m) = [broker EXCEPT !.availability = "online"]
    BY <1>1 DEF M!Retain, Online
  <2>2. \A f : m # Ask(f)
    BY <1>1 DEF Online, Ask
  <2> HIDE DEF Heads
  <2> QED
    BY <2>1, <2>2 DEF BrokerSet
<1>2. CASE \E f \in Heads : m = Ask(f)
  <2>1. PICK f \in Heads : m = Ask(f)
    BY <1>2
  <2>2. m.kind = "subscribe" /\ m.filter = f /\ m # Online /\ \A g : m = Ask(g) => g = f
    <3>1. \A g : Ask(g).filter = g /\ Ask(g).kind = "subscribe" /\ Online.kind = "availability"
      BY DEF Ask, Online
    <3> QED
      BY <2>1, <3>1
  <2> DEFINE session == broker.session \cup {f}
  <2>3. M!Retain(m) = [broker EXCEPT !.session = session]
    BY <2>2 DEF M!Retain
  <2>4. session \in SUBSET Heads /\ f \in session /\ broker.session \subseteq session
    BY BrokerIs
  <2> HIDE DEF session, Heads
  <2> QED
    BY <2>2, <2>3, <2>4 DEF BrokerSet
<1>3. CASE \E on \in BOOLEAN : m = [kind |-> "discovery", on |-> on]
  <2>1. PICK on \in BOOLEAN : m = [kind |-> "discovery", on |-> on]
    BY <1>3
  <2>2. m.kind = "discovery" /\ m.on = on /\ m # Online /\ \A g : m # Ask(g)
    <3>1. m.kind = "discovery" /\ m.on = on
      BY <2>1
    <3>2. \A g : Ask(g).kind = "subscribe" /\ Online.kind = "availability"
      BY DEF Ask, Online
    <3> QED
      BY <3>1, <3>2
  <2>3. M!Retain(m) = [broker EXCEPT !.entities = on]
    BY <2>2 DEF M!Retain
  <2> HIDE DEF Heads
  <2> QED
    BY <2>2, <2>3 DEF BrokerSet
<1>4. CASE m \in {[kind |-> "status"], [kind |-> "result"]}
  <2>1. m.kind \in {"status", "result"}
    BY <1>4
  <2>2. \A g : Ask(g).kind = "subscribe" /\ Online.kind = "availability"
    BY DEF Ask, Online
  <2>3. M!Retain(m) = broker
    BY <2>1 DEF M!Retain
  <2> QED
    BY <2>1, <2>2, <2>3
<1> QED
  BY <1>1, <1>2, <1>3, <1>4 DEF Message

LEMMA WriteIsServed ==
  ASSUME MqttInv, M!Write
  PROVE  MqttInv'
<1> DEFINE queue == connection.queue
           c == [connection EXCEPT !.queue = Tail(queue)]
           m == Head(queue)
<1>1. /\ queue # <<>> /\ broker.live /\ connection' = c /\ broker' = M!Retain(m)
      /\ UNCHANGED <<settings, service, watches, linked, inbox, lost>>
  BY DEF M!Write
<1>2. /\ Sane(Here) /\ Held(Here, broker, watches) /\ connection \in ClientSet
      /\ broker \in BrokerSet /\ watches \subseteq Watchable
  BY WholeIs, HereIs DEF MqttInv, Sane
<1>3. queue \in Seq(Message)
  BY <1>2, ClientIs
<1>4. /\ m \in Message /\ Tail(queue) \in Seq(Message)
      /\ \A x : Holds(queue, x) <=> x = m \/ Holds(Tail(queue), x)
  BY <1>1, <1>3, TailHolds
<1>5. /\ c \in ClientSet /\ c.state = connection.state /\ c.socket = connection.socket
      /\ c.joined = connection.joined /\ c.queue = Tail(queue)
  BY <1>2, <1>4, QueueAnew
<1>6. ~Holds(queue, Offline)
  BY <1>2, HereIs DEF Sane
<1> HIDE DEF m, c
<1>7. /\ broker' \in BrokerSet /\ broker'.live = broker.live
      /\ broker.session \subseteq broker'.session
      /\ \A f : m = Ask(f) => f \in broker'.session
      /\ m = Online \/ broker.availability = "online" => broker'.availability = "online"
  BY <1>1, <1>2, <1>4, <1>6, RetainIs
<1>8. /\ Here' \in Whole /\ Here'.client = c /\ Here'.service = service
      /\ Here'.linked = linked /\ Here'.lost = lost
  BY <1>1, <1>2, <1>5, ClientMoves
<1>9. Sane(Here')
  BY <1>2, <1>4, <1>5, <1>6, <1>8, HereIs DEF Sane
<1>10. Held(Here', broker', watches)
  <2> SUFFICES ASSUME connection.state = "connected", ~lost
               PROVE  /\ \A f \in {"commands"} \cup watches :
                           f \in broker'.session \/ Holds(Tail(queue), Ask(f))
                      /\ broker'.availability = "online" \/ Holds(Tail(queue), Online)
    BY <1>5, <1>8 DEF Held
  <2>1. /\ \A f \in {"commands"} \cup watches : f \in broker.session \/ Holds(queue, Ask(f))
        /\ broker.availability = "online" \/ Holds(queue, Online)
    BY <1>1, <1>2, HereIs DEF Held
  <2> QED
    BY <1>4, <1>7, <2>1
<1> QED
  BY <1>1, <1>7, <1>9, <1>10 DEF MqttInv

LEMMA ReadIsServed ==
  ASSUME MqttInv, M!Read
  PROVE  MqttInv'
<1> DEFINE packet == Head(inbox)
           r == IF packet.kind = "connack" THEN M!SetState(Here, "connected")
                ELSE M!Command(Here, packet)
<1>1. /\ connection.joined /\ inbox # <<>> /\ M!Became(r) /\ inbox' = Tail(inbox)
      /\ settings' = IF packet.kind = "patch"
                     THEN [settings EXCEPT !.discovery = packet.discovery] ELSE settings
      /\ UNCHANGED <<watches, broker>>
  BY HereIs DEF M!Read
<1>2. /\ Sane(Here) /\ Held(Here, broker, watches) /\ Here \in Whole
      /\ settings \in SettingsSet /\ watches \in SUBSET Watchable /\ inbox \in Seq(Packets)
  BY DEF MqttInv, Sane
<1>3. packet \in Packets /\ inbox' \in Seq(Packets)
  BY <1>1, <1>2
<1>4. settings' \in SettingsSet
  <2>1. packet.kind = "patch" => packet.discovery \in BOOLEAN
    BY <1>3 DEF Packets
  <2> QED
    BY <1>1, <1>2, <2>1 DEF SettingsSet
<1> HIDE DEF packet
<1>5. CASE packet.kind = "connack" /\ connection.state = "connected"
  <2>1. r = Here
    BY <1>5, HereIs DEF M!SetState
  <2>2. Here' = Here
    BY <1>1, <1>2, <2>1, BecameIs
  <2> QED
    BY <1>1, <1>2, <1>3, <1>4, <2>2 DEF MqttInv
<1>6. CASE packet.kind = "connack" /\ connection.state # "connected"
  <2> DEFINE c == [connection EXCEPT !.state = "connected"]
             turned == [Here EXCEPT !.client = c]
             end == M!OnConnected(turned)
  <2>1. turned = [Here EXCEPT !.client.state = "connected"]
    BY HereIs
  <2>2. r = end
    BY <1>6, <2>1, HereIs DEF M!SetState
  <2>3. /\ c \in ClientSet /\ c.state = "connected" /\ c.joined = connection.joined
        /\ c.socket = connection.socket /\ c.queue = connection.queue
    <3>1. connection \in ClientSet /\ "connected" \in States
      BY <1>2, WholeIs, HereIs DEF States
    <3> QED
      BY <3>1, StateAnew
  <2> HIDE DEF c
  <2>4. turned \in Whole /\ turned.service = service /\ turned.client = c
    BY <1>2, <2>3, ClientAnew, HereIs
  <2> HIDE DEF turned
  <2>5. Goes(turned, end, Plainly) /\ Says(end, Wants) /\ end.linked = TRUE
    BY <1>2, <2>3, <2>4, OnConnectedIs DEF SettingsSet
  <2> HIDE DEF end
  <2>6. Sane(end)
    <3>1. ~Holds(connection.queue, Offline) /\ service.enabled /\ connection.socket = "open"
      BY <1>1, <1>2, HereIs DEF Sane
    <3> QED
      BY <1>1, <2>3, <2>4, <2>5, <3>1, IsMessage DEF Sane, Goes, Same, Plainly
  <2>7. Held(end, broker, watches)
    BY <2>5 DEF Held, Says, Wants, Asks
  <2>8. Here' = end
    BY <1>1, <2>2, <2>6, BecameIs DEF Sane
  <2> QED
    BY <1>1, <1>3, <1>4, <2>6, <2>7, <2>8 DEF MqttInv
<1>7. CASE packet.kind # "connack"
  <2> DEFINE m == [kind |-> "result"]
             spoken == M!Publish(Here, m)
             end == [spoken EXCEPT !.service.statusDue = TRUE]
  <2>1. r = end
    BY <1>7 DEF M!Command
  <2>2. m \in Message /\ m \in Plainly
    BY PlainlySaid DEF Plainly
  <2> HIDE DEF m
  <2>3. Goes(Here, spoken, {m}) /\ spoken.linked = Here.linked /\ spoken \in Whole
    BY <1>2, <2>2, PublishIs DEF Goes, Same
  <2> HIDE DEF spoken
  <2>4. Kindred(spoken.service, [spoken.service EXCEPT !.statusDue = TRUE])
    BY <2>3, WholeIs, ServiceFields
  <2>5. Goes(spoken, end, {}) /\ end.linked = spoken.linked
    BY <2>3, <2>4, ServiceAnew
  <2> HIDE DEF end
  <2>6. Goes(Here, end, {m} \cup {})
    BY <2>3, <2>5, GoesOn
  <2>7. Sane(end) /\ Held(end, broker, watches)
    <3>1. ({m} \cup {}) \in SUBSET Plainly
      BY <2>2
    <3> QED
      BY <1>2, <2>3, <2>5, <2>6, <3>1, Stays
  <2>8. Here' = end
    BY <1>1, <2>1, <2>7, BecameIs DEF Sane
  <2> QED
    BY <1>1, <1>3, <1>4, <2>7, <2>8 DEF MqttInv
<1> QED
  BY <1>5, <1>6, <1>7

LEMMA EndedIsServed ==
  ASSUME MqttInv, M!Ended
  PROVE  MqttInv'
<1> DEFINE r == M!Fail(Here)
<1>1. M!Device(r) /\ UNCHANGED <<settings, watches, broker>>
  BY HereIs DEF M!Ended
<1>2. Sane(Here) /\ inbox \in Seq(Packets)
  BY DEF MqttInv
<1>3. Away(r) /\ r.client.socket = "none"
  BY <1>2, StopsIs DEF M!Fail, Sane
<1> HIDE DEF r
<1>4. Sane(r) /\ Held(r, broker, watches)
  BY <1>3, AwayIsSane, AwayIsHeld
<1>5. Here' = r
  BY <1>1, <1>4, BecameIs DEF Sane, M!Device
<1>6. inbox' \in Seq(Packets)
  BY <1>1, <1>2 DEF M!Device, M!InboxAfter
<1> QED
  BY <1>1, <1>4, <1>5, <1>6 DEF MqttInv

(* A device that has just been started is not connected. *)
LEMMA StartedIs ==
  ASSUME settings \in SettingsSet
  PROVE  LET r == M!Started(M!Fresh, settings) IN
         Sane(r) /\ \A b, wanted : Held(r, b, wanted)
<1> DEFINE c == M!Fresh.client
           s == M!Fresh.service
           made == IF settings.enabled THEN Lengths[settings.secret] ELSE 0
           s1 == [s EXCEPT !.enabled = settings.enabled]
           a == [M!Fresh EXCEPT !.service = s1]
           s2 == [a.service EXCEPT !.made = made]
           r == [a EXCEPT !.service = s2]
<1>0. M!Started(M!Fresh, settings) = r
  BY DEF M!Started
<1>1. /\ c \in ClientSet /\ c.state = "disabled" /\ c.socket = "none" /\ ~c.joined
      /\ c.queue = <<>>
  <2> DEFINE some == CHOOSE x \in Secrets : TRUE
  <2>1. some \in Secrets
    BY DEF SettingsSet
  <2>2. c = [state |-> "disabled", socket |-> "none", joined |-> FALSE, queue |-> <<>>,
             secret |-> some]
    BY DEF M!Fresh
  <2>3. <<>> \in Seq(Message) /\ "disabled" \in States /\ "none" \in Sockets
    BY DEF States, Sockets
  <2> HIDE DEF some, c, Message, States, Sockets
  <2> QED
    BY <2>1, <2>2, <2>3 DEF ClientSet
<1>2. s \in ServiceSet
  BY DEF M!Fresh, ServiceSet, Numbers
<1>3. M!Fresh = [service |-> s, linked |-> FALSE, client |-> c, lost |-> FALSE]
  BY DEF M!Fresh
<1> HIDE DEF c, s
<1>4. s1 \in ServiceSet
  <2> DEFINE on == settings.enabled
  <2>1. on \in BOOLEAN
    BY DEF SettingsSet
  <2> HIDE DEF Numbers, on
  <2>2. [s EXCEPT !.enabled = on] \in ServiceSet
    BY <1>2, <2>1 DEF ServiceSet
  <2> QED
    BY <2>2 DEF on
<1> HIDE DEF s1
<1>5. /\ a \in Whole /\ a.client = c /\ ~a.linked
  <2> DEFINE no == FALSE
             fresh == M!Fresh
  <2>1. fresh = [service |-> s, linked |-> no, client |-> c, lost |-> no] /\ no \in BOOLEAN /\ ~no
    BY <1>3
  <2>2. [fresh EXCEPT !.service = s1] = a
    OBVIOUS
  <2> HIDE DEF no, fresh, a
  <2>3. a = [service |-> s1, linked |-> no, client |-> c, lost |-> no]
    BY <2>1, <2>2
  <2> QED
    BY <1>1, <1>4, <2>1, <2>3 DEF Whole
<1> HIDE DEF a
<1>6. s2 \in ServiceSet
  <2>1. made \in Numbers
    BY DEF Numbers, SettingsSet
  <2>2. a.service \in ServiceSet
    BY <1>5, WholeIs
  <2> HIDE DEF made, Numbers
  <2> QED
    BY <2>1, <2>2 DEF ServiceSet
<1> HIDE DEF s2
<1>7. r \in Whole /\ r.client = c /\ ~r.linked
  <2>1. r = [service |-> s2, linked |-> a.linked, client |-> a.client, lost |-> a.lost]
    BY <1>5, WholeIs
  <2> HIDE DEF r
  <2> QED
    BY <1>5, <1>6, <2>1, WholeIs DEF Whole
<1> HIDE DEF r
<1>8. Away(r) /\ r.client.socket = "none"
  BY <1>1, <1>7 DEF Away, Holds
<1> QED
  BY <1>0, <1>8, AwayIsSane, AwayIsHeld

LEMMA WorldIsServed ==
  ASSUME MqttInv, M!Send \/ M!Notice \/ M!Drop \/ M!LoseConnack \/ M!Recover
  PROVE  MqttInv'
<1>1. /\ Sane(Here) /\ Held(Here, broker, watches) /\ settings \in SettingsSet
      /\ watches \subseteq Watchable /\ broker \in BrokerSet /\ inbox \in Seq(Packets)
  BY DEF MqttInv
<1>2. Here' = Here /\ UNCHANGED <<settings, watches>>
  BY DEF M!Send, M!Notice, M!Drop, M!LoseConnack, M!Recover, Here
<1>3. <<>> \in Seq(Packets)
  OBVIOUS
<1>4. inbox' \in Seq(Packets)
  <2>1. ASSUME NEW on \in BOOLEAN PROVE Append(inbox, [kind |-> "patch", discovery |-> on]) \in Seq(Packets)
    <3>1. [kind |-> "patch", discovery |-> on] \in Packets
      BY DEF Packets
    <3> HIDE DEF Packets
    <3> QED
      BY <1>1, <3>1
  <2> QED
    BY <1>1, <1>3, <2>1 DEF M!Send, M!Notice, M!Drop, M!LoseConnack, M!Recover
<1>5. M!Will(broker) \in BrokerSet /\ ~M!Will(broker).live
  BY <1>1, WillIs
<1>6. broker' \in BrokerSet /\ Held(Here, broker', watches)
  <2>1. CASE M!Send \/ M!LoseConnack
    BY <1>1, <2>1 DEF M!Send, M!LoseConnack
  <2>2. CASE M!Notice
    BY <1>5, <2>2 DEF M!Notice, Held
  <2>3. CASE M!Drop
    <3> DEFINE will == M!Will(broker)
               down == [will EXCEPT !.up = FALSE]
    <3>1. broker' = will \/ broker' = down
      BY <2>3 DEF M!Drop
    <3>2. will \in BrokerSet /\ ~will.live
      BY <1>5
    <3> HIDE DEF will
    <3>3. down \in BrokerSet /\ down.live = will.live
      BY <3>2, UpAgain
    <3> HIDE DEF down
    <3> QED
      BY <3>1, <3>2, <3>3 DEF Held
  <2>4. CASE M!Recover
    <3> DEFINE again == [broker EXCEPT !.up = TRUE]
    <3>1. broker' = again
      BY <2>4 DEF M!Recover
    <3>2. /\ again \in BrokerSet /\ again.live = broker.live /\ again.session = broker.session
          /\ again.availability = broker.availability
      BY <1>1, UpAgain
    <3> HIDE DEF again
    <3> QED
      BY <1>1, <3>1, <3>2 DEF Held
  <2> QED
    BY <2>1, <2>2, <2>3, <2>4
<1> QED
  BY <1>1, <1>2, <1>4, <1>6 DEF MqttInv

LEMMA StartIsServed ==
  ASSUME MqttInv, M!PowerCut \/ M!Restart
  PROVE  MqttInv'
<1> DEFINE r == M!Started(M!Fresh, settings)
<1>1. /\ M!Became(r) /\ settings' = settings /\ watches' = {} /\ inbox' = <<>>
      /\ broker' \in {broker, M!Parted(broker)}
  BY DEF M!PowerCut, M!Restart
<1>2. settings \in SettingsSet /\ broker \in BrokerSet
  BY DEF MqttInv
<1>3. Sane(r) /\ \A b, wanted : Held(r, b, wanted)
  BY <1>2, StartedIs
<1> HIDE DEF r
<1>4. Here' = r
  BY <1>1, <1>3, BecameIs DEF Sane
<1>5. broker' \in BrokerSet
  BY <1>1, <1>2, PartedIs
<1>6. inbox' \in Seq(Packets) /\ watches' \subseteq Watchable
  BY <1>1
<1> QED
  BY <1>1, <1>2, <1>3, <1>4, <1>5, <1>6 DEF MqttInv

LEMMA MqttInitially == M!Init => MqttInv
<1> SUFFICES ASSUME M!Init PROVE MqttInv
  OBVIOUS
<1> DEFINE r == M!Started(M!Fresh, settings)
<1>1. /\ settings \in SettingsSet /\ watches = {} /\ inbox = <<>>
      /\ service = r.service /\ linked = r.linked /\ connection = r.client /\ lost = r.lost
  BY DEF M!Init, SettingsSet
<1>2. broker \in BrokerSet
  BY DEF M!Init, BrokerSet
<1>3. Sane(r) /\ \A b, wanted : Held(r, b, wanted)
  BY <1>1, StartedIs
<1> HIDE DEF r
<1>4. Here = r
  BY <1>1, <1>3, WholeIs DEF Here, Sane
<1> QED
  BY <1>1, <1>2, <1>3, <1>4 DEF MqttInv

LEMMA MqttStep == MqttInv /\ [M!Next]_(M!vars) => MqttInv'
<1> SUFFICES ASSUME MqttInv, [M!Next]_(M!vars) PROVE MqttInv'
  OBVIOUS
<1>1. CASE M!ChangeSettings
  BY <1>1, ChangeIsServed
<1>2. CASE M!Tick
  BY <1>2, TickIsServed
<1>3. CASE M!Join
  BY <1>3, JoinIsServed
<1>4. CASE M!Write
  BY <1>4, WriteIsServed
<1>5. CASE M!Read
  BY <1>5, ReadIsServed
<1>6. CASE M!Ended
  BY <1>6, EndedIsServed
<1>7. ASSUME NEW f \in Watchable, M!Watch(f) PROVE MqttInv'
  BY <1>7, WatchIsServed
<1>8. ASSUME NEW f \in Watchable, M!Forget(f) PROVE MqttInv'
  BY <1>8, ForgetIsServed
<1>9. CASE M!Send \/ M!Notice \/ M!Drop \/ M!LoseConnack \/ M!Recover
  BY <1>9, WorldIsServed
<1>10. CASE M!PowerCut \/ M!Restart
  BY <1>10, StartIsServed
<1>11. CASE UNCHANGED M!vars
  BY <1>11 DEF M!vars, MqttInv, Here
<1> QED
  BY <1>1, <1>2, <1>3, <1>4, <1>5, <1>6, <1>7, <1>8, <1>9, <1>10, <1>11 DEF M!Next, M!Poll

(* However connections break, are given up, begun again or answered late,  *)
(* whatever is switched or watched meanwhile and for every length of the   *)
(* queue: once what was queued has left and nothing was refused, the       *)
(* broker has the device's commands and every topic a script watches, and  *)
(* says that the device is online (MqttService::onConnected, tick,         *)
(* configure, ScriptGateway::resubscribe, MqttClient::enqueue).            *)
THEOREM SettledConnectionsAreServed == M!Spec => []SettledIsServed
<1>1. MqttInv => SettledIsServed
  <2> SUFFICES ASSUME MqttInv, M!Settled
               PROVE  {"commands"} \cup watches \subseteq broker.session /\ broker.availability = "online"
    BY DEF SettledIsServed, M!SettledIsServed, M!Commands
  <2>1. connection.queue = <<>> /\ connection.state = "connected" /\ broker.live /\ ~lost
    BY DEF M!Settled
  <2>2. \A x : ~Holds(connection.queue, x)
    BY <2>1 DEF Holds
  <2> QED
    BY <2>1, <2>2, HereIs DEF MqttInv, Held
<1> QED
  BY <1>1, MqttInitially, MqttStep, PTL DEF M!Spec

-----------------------------------------------------------------------------
(* Callers.                                                                *)

(* A caller and what the server keeps of it.                               *)
Visit ==
  [state: {"away", "waiting", "open", "answering"}, request: Sendable, sent: Nat, got: Nat,
   ends: {"open", "half", "reset"}, left: Nat, quiet: Nat,
   answer: {"none", "ok", "refused", "malformed", "too large", "denied"}]

IsConnected(visit) == visit.state \in {"open", "answering"}

(* Of a request that still arrives no more is kept than its ceiling, and   *)
(* nothing of one that waits.                                              *)
WithinCeiling(visit) ==
  /\ visit.state = "open" => visit.got <= H!Ceiling(visit.request)
  /\ visit.state = "waiting" => visit.got = 0

(* What the server and the callers may make of a visit.                    *)
IsSpared(before, after) ==
  /\ before.state = "open" /\ before.ends = "open" /\ before.sent > before.got
  /\ before.sent <= H!Ceiling(before.request)
  => after.state # "away"

PassesTheGate(before, after) ==
  after.answer = "ok" /\ before.answer = "none"
  => password \in {H!NoPassword, before.request.login}

IsProper(before, after) ==
  /\ after \in Visit /\ WithinCeiling(after)
  /\ IsSpared(before, after) /\ PassesTheGate(before, after)

HttpTypes ==
  /\ callers \in [Callers -> Visit]
  /\ elapsed \in Nat
  /\ due \subseteq H!Connected

HttpInv ==
  /\ HttpTypes
  /\ \A c \in Callers : WithinCeiling(callers[c])
  /\ H!Cardinality(H!Connected) <= Slots

-----------------------------------------------------------------------------
(* One visit.                                                              *)

LEMMA IdleIsAVisit ==
  ASSUME NEW request \in Sendable
  PROVE  /\ H!Idle(request) \in Visit
         /\ H!Idle(request).state = "away" /\ H!Idle(request).answer = "none"
         /\ H!Idle(request).got = 0
BY DEF H!Idle, Visit

LEMMA AbsentIsAVisit ==
  /\ H!Absent \in Visit /\ H!Absent.state = "away" /\ H!Absent.answer = "none"
  /\ WithinCeiling(H!Absent)
<1>1. Sendable # {}
  BY RequestsAssumption DEF H!HttpAssumption
<1>2. (CHOOSE request \in Sendable : TRUE) \in Sendable
  BY <1>1
<1> QED  BY <1>2, IdleIsAVisit DEF H!Absent, WithinCeiling

LEMMA CeilingsAreNumbers ==
  ASSUME NEW request
  PROVE  H!Ceiling(request) \in Nat
BY RequestsAssumption DEF H!HttpAssumption, H!Ceiling

(* An answer is pending: of the request nothing is kept.                   *)
LEMMA AnsweringIsAVisit ==
  ASSUME NEW visit \in Visit,
         NEW answer \in {"ok", "refused", "malformed", "too large", "denied"}
  PROVE  /\ H!Answering(visit, answer) \in Visit
         /\ H!Answering(visit, answer).state = "answering"
         /\ H!Answering(visit, answer).answer = answer
         /\ WithinCeiling(H!Answering(visit, answer))
<1> DEFINE base == H!Absent
<1>1. base \in Visit
  BY AbsentIsAVisit
<1>2. AnswerSize \in Nat
  BY RequestsAssumption DEF H!HttpAssumption
<1>3. visit.ends \in {"open", "half", "reset"}
  BY DEF Visit
<1> HIDE DEF base
<1>4. H!Answering(visit, answer) =
        [base EXCEPT !.state = "answering", !.left = AnswerSize, !.answer = answer,
                     !.ends = visit.ends]
  BY DEF H!Answering, base
<1> QED  BY <1>1, <1>2, <1>3, <1>4 DEF Visit, WithinCeiling

(* A visit is given up for its silence only if it has been silent.         *)
LEMMA AgedIsAVisit ==
  ASSUME NEW visit \in Visit, WithinCeiling(visit)
  PROVE  /\ H!Aged(visit) \in Visit /\ WithinCeiling(H!Aged(visit))
         /\ H!Aged(visit) = visit \/ H!Aged(visit) = H!Absent
         /\ visit.quiet = 0 => H!Aged(visit) = visit
<1>1. IdleLimit \in Nat
  BY RequestsAssumption DEF H!HttpAssumption
<1>2. H!Aged(visit) = IF visit.quiet > IdleLimit THEN H!Absent ELSE visit
  BY DEF H!Aged
<1>3. visit.quiet = 0 => ~(visit.quiet > IdleLimit)
  BY <1>1
<1>4. CASE visit.quiet > IdleLimit
  BY <1>2, <1>3, <1>4, AbsentIsAVisit
<1>5. CASE ~(visit.quiet > IdleLimit)
  BY <1>2, <1>5
<1> QED  BY <1>4, <1>5

LEMMA StayingIsProper ==
  ASSUME NEW visit \in Visit, WithinCeiling(visit)
  PROVE  IsProper(visit, visit)
BY DEF IsProper, IsSpared, PassesTheGate, Visit

-----------------------------------------------------------------------------
(* The callers.                                                            *)

(* One visit has changed and the others have not.                          *)
OnlyOneMoved(c, visit) ==
  /\ callers'[c] = visit
  /\ \A d \in Callers : d # c => callers'[d] = callers[d]

LEMMA OneMoves ==
  ASSUME HttpTypes, NEW c \in Callers, NEW visit \in Visit,
         callers' = [callers EXCEPT ![c] = visit]
  PROVE  callers' \in [Callers -> Visit] /\ OnlyOneMoved(c, visit)
BY DEF HttpTypes, OnlyOneMoved

LEMMA ConnectedAre ==
  /\ H!Connected = {c \in Callers : IsConnected(callers[c])}
  /\ H!Connected' = {c \in Callers : IsConnected(callers'[c])}
BY DEF H!Connected, IsConnected

(* Nobody new: as many places are taken as before, or fewer.               *)
LEMMA FewerFit ==
  ASSUME HttpInv, H!Connected' \subseteq H!Connected
  PROVE  H!Cardinality(H!Connected)' <= Slots
<1>1. IsFiniteSet(Callers) /\ Slots \in Nat
  BY RequestsAssumption DEF H!HttpAssumption, H!IsFiniteSet, IsFiniteSet
<1>2. IsFiniteSet(H!Connected)
  BY <1>1, FS_Subset, ConnectedAre
<1>3. /\ IsFiniteSet(H!Connected') /\ Cardinality(H!Connected') <= Cardinality(H!Connected)
      /\ Cardinality(H!Connected') \in Nat /\ Cardinality(H!Connected) \in Nat
  BY <1>2, FS_Subset, FS_CardinalityType
<1>4. Cardinality(H!Connected) <= Slots
  BY DEF HttpInv, H!Cardinality, Cardinality
<1>5. Cardinality(H!Connected') <= Slots
  BY <1>1, <1>3, <1>4
<1> QED  BY <1>5 DEF H!Cardinality, Cardinality

(* What a step does to every visit.                                        *)
StepIsProper == \A c \in Callers : IsProper(callers[c], callers'[c])

(* A step in which one visit changes and nobody new is connected.          *)
LEMMA OneVisitIsProper ==
  ASSUME HttpInv, NEW c \in Callers, NEW visit,
         callers' = [callers EXCEPT ![c] = visit],
         IsProper(callers[c], visit),
         IsConnected(visit) => IsConnected(callers[c])
  PROVE  /\ StepIsProper /\ callers' \in [Callers -> Visit] /\ OnlyOneMoved(c, visit)
         /\ \A d \in Callers : WithinCeiling(callers'[d])
         /\ H!Cardinality(H!Connected)' <= Slots
<1> USE DEF HttpInv
<1>1. visit \in Visit
  BY DEF IsProper
<1>2. callers' \in [Callers -> Visit] /\ OnlyOneMoved(c, visit)
  BY <1>1, OneMoves
<1>3. ASSUME NEW d \in Callers PROVE IsProper(callers[d], callers'[d])
  <2>1. callers[d] \in Visit /\ WithinCeiling(callers[d])
    BY DEF HttpTypes
  <2>2. IsProper(callers[d], callers[d])
    BY <2>1, StayingIsProper
  <2> QED  BY <1>2, <2>2 DEF OnlyOneMoved
<1>4. H!Connected' \subseteq H!Connected
  BY <1>2, ConnectedAre DEF OnlyOneMoved
<1>5. H!Cardinality(H!Connected)' <= Slots
  BY <1>4, FewerFit
<1> QED  BY <1>2, <1>3, <1>5 DEF StepIsProper, IsProper

(* What callers do.                                                        *)
LEMMA CallersAreProper ==
  ASSUME HttpInv, NEW c \in Callers, H!Caller(c)
  PROVE  HttpInv' /\ StepIsProper
<1>1. /\ callers[c] \in Visit /\ WithinCeiling(callers[c])
      /\ due' = due /\ elapsed' = elapsed /\ elapsed \in Nat
  BY DEF HttpInv, HttpTypes, H!Caller, H!Connect, H!Send,
         H!HalfClose, H!Reset, H!Become
<1>2. PICK visit : /\ callers' = [callers EXCEPT ![c] = visit]
                   /\ IsProper(callers[c], visit)
                   /\ IsConnected(visit) <=> IsConnected(callers[c])
  <2>1. CASE H!Connect(c)
    <3>1. PICK request \in Sendable :
            callers' = [callers EXCEPT ![c] = [H!Idle(request) EXCEPT !.state = "waiting"]]
      BY <2>1 DEF H!Connect, H!Become
    <3> DEFINE base == H!Idle(request)
               visit == [base EXCEPT !.state = "waiting"]
    <3>2. base \in Visit /\ base.answer = "none" /\ base.got = 0
      BY IdleIsAVisit
    <3>3. callers[c].state = "away"
      BY <2>1 DEF H!Connect
    <3>4. callers' = [callers EXCEPT ![c] = visit]
      BY <3>1
    <3> HIDE DEF base
    <3>5. visit \in Visit /\ visit.state = "waiting" /\ visit.answer = "none" /\ visit.got = 0
      BY <3>2 DEF Visit
    <3>6. IsProper(callers[c], visit)
      BY <3>3, <3>5 DEF IsProper, WithinCeiling, IsSpared, PassesTheGate
    <3>7. IsConnected(visit) <=> IsConnected(callers[c])
      BY <3>3, <3>5 DEF IsConnected
    <3> QED  BY <3>4, <3>6, <3>7
  <2>2. CASE H!Send(c)
    <3> DEFINE old == callers[c]
               more == old.sent + 1
               visit == [old EXCEPT !.sent = more]
    <3>1. callers' = [callers EXCEPT ![c] = visit] /\ old.state = "open"
      BY <2>2 DEF H!Send, H!Become
    <3>2. old \in Visit /\ WithinCeiling(old)
      BY <1>1
    <3>a. old.sent \in Nat
      BY <3>2 DEF Visit
    <3>b. more \in Nat
      BY <3>a
    <3> HIDE DEF old, more
    <3>3. /\ visit \in Visit /\ visit.state = "open" /\ visit.answer = old.answer
          /\ visit.got = old.got /\ visit.request = old.request
      BY <3>1, <3>2, <3>b DEF Visit
    <3>4. IsProper(old, visit) /\ IsConnected(visit) /\ IsConnected(old)
      BY <3>1, <3>2, <3>3 DEF IsProper, WithinCeiling, IsSpared, PassesTheGate, IsConnected
    <3> QED  BY <3>1, <3>4 DEF old
  <2>3. CASE H!HalfClose(c) \/ H!Reset(c)
    <3>0. PICK ends \in {"half", "reset"} :
            callers' = [callers EXCEPT ![c] = [callers[c] EXCEPT !.ends = ends]]
      BY <2>3 DEF H!HalfClose, H!Reset, H!Become
    <3> DEFINE old == callers[c]
               visit == [old EXCEPT !.ends = ends]
    <3>1. callers' = [callers EXCEPT ![c] = visit] /\ old.state \in {"open", "answering"}
      BY <2>3, <3>0 DEF H!HalfClose, H!Reset
    <3>2. old \in Visit /\ WithinCeiling(old)
      BY <1>1
    <3> HIDE DEF old
    <3>3. /\ visit \in Visit /\ visit.state = old.state /\ visit.answer = old.answer
          /\ visit.got = old.got /\ visit.request = old.request
      BY <3>2 DEF Visit
    <3>4. IsProper(old, visit) /\ IsConnected(visit) /\ IsConnected(old)
      BY <3>1, <3>2, <3>3 DEF IsProper, WithinCeiling, IsSpared, PassesTheGate, IsConnected
    <3> QED  BY <3>1, <3>4 DEF old
  <2> QED  BY <2>1, <2>2, <2>3 DEF H!Caller
<1>3. /\ StepIsProper /\ callers' \in [Callers -> Visit] /\ OnlyOneMoved(c, visit)
      /\ \A d \in Callers : WithinCeiling(callers'[d])
      /\ H!Cardinality(H!Connected)' <= Slots
  BY <1>2, OneVisitIsProper
<1>4. due' \subseteq H!Connected'
  BY <1>1, <1>2, <1>3, ConnectedAre DEF HttpInv, HttpTypes, OnlyOneMoved
<1> QED  BY <1>1, <1>3, <1>4 DEF HttpInv, HttpTypes

(* What the server does with one place.                                    *)
LEMMA WhoeverIsServed ==
  ASSUME HttpInv, NEW c \in due, NEW visit, H!Served(c, visit), IsProper(callers[c], visit)
  PROVE  HttpInv' /\ StepIsProper
<1>1. c \in Callers /\ IsConnected(callers[c])
  BY ConnectedAre DEF HttpInv, HttpTypes
<1>2. /\ callers' = [callers EXCEPT ![c] = visit]
      /\ due' = due \ {c} /\ elapsed' = elapsed /\ elapsed \in Nat
  BY DEF H!Served, HttpInv, HttpTypes
<1>3. /\ StepIsProper /\ callers' \in [Callers -> Visit] /\ OnlyOneMoved(c, visit)
      /\ \A d \in Callers : WithinCeiling(callers'[d])
      /\ H!Cardinality(H!Connected)' <= Slots
  BY <1>1, <1>2, OneVisitIsProper
<1>4. due' \subseteq H!Connected'
  BY <1>1, <1>2, <1>3, ConnectedAre DEF HttpInv, HttpTypes, OnlyOneMoved
<1> QED  BY <1>2, <1>3, <1>4 DEF HttpInv, HttpTypes

LEMMA WritingIsProper ==
  ASSUME HttpInv, NEW c \in due, H!Write(c)
  PROVE  HttpInv' /\ StepIsProper /\ password' = password
<1> DEFINE old == callers[c]
<1>1. PICK pieces \in 0..old.left :
        H!Served(c, IF pieces = old.left THEN H!Absent
                    ELSE H!Aged([old EXCEPT !.left = @ - pieces,
                                            !.quiet = IF pieces > 0 THEN 0 ELSE @]))
  BY DEF H!Write
<1>2. old.state = "answering" /\ password' = password
  BY DEF H!Write
<1>3. c \in Callers /\ old \in Visit
  BY ConnectedAre DEF HttpInv, HttpTypes
<1> DEFINE rest == old.left - pieces
           silence == IF pieces > 0 THEN 0 ELSE old.quiet
           written == [old EXCEPT !.left = rest, !.quiet = silence]
           visit == IF pieces = old.left THEN H!Absent ELSE H!Aged(written)
<1>4. H!Served(c, visit)
  BY <1>1
<1>a. old.left \in Nat /\ old.quiet \in Nat
  BY <1>3 DEF Visit
<1>5. rest \in Nat /\ silence \in Nat
  BY <1>a
<1> HIDE DEF old, rest, silence
<1>6. written \in Visit /\ WithinCeiling(written) /\ written.answer = old.answer
  BY <1>2, <1>3, <1>5 DEF Visit, WithinCeiling
<1> HIDE DEF written
<1>7. /\ visit \in Visit /\ WithinCeiling(visit)
      /\ visit.answer = old.answer \/ visit.answer = "none"
  BY <1>6, AgedIsAVisit, AbsentIsAVisit
<1> HIDE DEF visit
<1>8. IsProper(old, visit)
  BY <1>2, <1>7 DEF IsProper, IsSpared, PassesTheGate
<1> QED  BY <1>2, <1>4, <1>8, WhoeverIsServed DEF old

(* Whoever has closed, or broken off, has nothing to be spared for.        *)
LEMMA ClosingIsProper ==
  ASSUME HttpInv, NEW c \in due, H!Close(c), callers[c].ends # "open"
  PROVE  HttpInv' /\ StepIsProper /\ password' = password
<1>1. H!Served(c, H!Absent) /\ password' = password
  BY DEF H!Close
<1>2. IsProper(callers[c], H!Absent)
  BY AbsentIsAVisit DEF IsProper, IsSpared, PassesTheGate
<1> QED  BY <1>1, <1>2, WhoeverIsServed

LEMMA RefusingIsProper ==
  ASSUME HttpInv, NEW c \in due, H!Answer(c, "malformed")
  PROVE  HttpInv' /\ StepIsProper /\ password' = password
<1>1. H!Served(c, H!Answering(callers[c], "malformed")) /\ password' = password
  BY DEF H!Answer
<1>2. callers[c] \in Visit
  BY ConnectedAre DEF HttpInv, HttpTypes
<1>3. IsProper(callers[c], H!Answering(callers[c], "malformed"))
  BY <1>2, AnsweringIsAVisit DEF IsProper, IsSpared, PassesTheGate
<1> QED  BY <1>1, <1>3, WhoeverIsServed

(* Whoever sends too much is not spared.                                   *)
LEMMA OverflowIsProper ==
  ASSUME HttpInv, NEW c \in due, H!Overflow(c), callers[c].sent > H!Ceiling(callers[c].request)
  PROVE  HttpInv' /\ StepIsProper
<1> DEFINE old == callers[c]
           answer == H!Answering(old, "too large")
<1>1. c \in Callers /\ old \in Visit /\ H!Ceiling(old.request) \in Nat
  BY ConnectedAre, CeilingsAreNumbers DEF HttpInv, HttpTypes
<1>2. old.quiet \in Nat /\ old.sent \in Nat
  BY <1>1 DEF Visit
<1>3. PICK quiet \in Nat : H!Served(c, H!Aged([answer EXCEPT !.quiet = quiet]))
  <2>1. PICK quiet \in {old.quiet} \cup IF old.got < H!Ceiling(old.request) THEN {0} ELSE {} :
          H!Served(c, H!Aged([answer EXCEPT !.quiet = quiet]))
    BY DEF H!Overflow
  <2>2. quiet = old.quiet \/ quiet = 0
    <3> DEFINE got == old.got < H!Ceiling(old.request)
    <3>1. quiet \in {old.quiet} \cup IF got THEN {0} ELSE {}
      BY <2>1
    <3> HIDE DEF got
    <3> QED  BY <3>1
  <2>3. quiet \in Nat
    BY <1>2, <2>2
  <2> QED  BY <2>1, <2>3
<1>4. answer \in Visit /\ answer.state = "answering" /\ answer.answer = "too large"
  BY <1>1, AnsweringIsAVisit
<1> DEFINE visit == [answer EXCEPT !.quiet = quiet]
<1> HIDE DEF answer
<1>5. visit \in Visit /\ visit.state = "answering" /\ visit.answer = "too large"
  BY <1>4 DEF Visit
<1>6. H!Served(c, H!Aged(visit))
  BY <1>3
<1> HIDE DEF visit
<1>7. WithinCeiling(visit)
  BY <1>5 DEF WithinCeiling
<1>8. /\ H!Aged(visit) \in Visit /\ WithinCeiling(H!Aged(visit))
      /\ H!Aged(visit) = visit \/ H!Aged(visit) = H!Absent
  BY <1>5, <1>7, AgedIsAVisit
<1>9. H!Aged(visit).answer # "ok"
  BY <1>5, <1>8, AbsentIsAVisit
<1>10. ~(old.sent <= H!Ceiling(old.request))
  BY <1>1, <1>2
<1>11. IsProper(old, H!Aged(visit))
  BY <1>8, <1>9, <1>10 DEF IsProper, IsSpared, PassesTheGate
<1> QED  BY <1>6, <1>11, WhoeverIsServed DEF old

(* The gate is asked with the password of this moment.                     *)
LEMMA HandlingIsProper ==
  ASSUME HttpInv, NEW c \in due, H!Handle(c)
  PROVE  HttpInv' /\ StepIsProper
<1> DEFINE request == callers[c].request
<1>1. PICK answer \in IF ~H!Allowed(request) THEN {"denied"}
                      ELSE IF request.class = "page" THEN {"ok"} ELSE H!Routed(request) :
        H!Served(c, H!Answering(callers[c], answer))
  BY DEF H!Handle
<1>2. callers[c] \in Visit
  BY ConnectedAre DEF HttpInv, HttpTypes
<1>3. answer \in {"ok", "refused", "too large", "denied"}
  BY <1>1 DEF H!Routed
<1>4. answer = "ok" => password \in {H!NoPassword, request.login}
  BY <1>1 DEF H!Allowed
<1>5. IsProper(callers[c], H!Answering(callers[c], answer))
  BY <1>2, <1>3, <1>4, AnsweringIsAVisit DEF IsProper, IsSpared, PassesTheGate
<1> QED  BY <1>1, <1>5, WhoeverIsServed

(* What has arrived is looked at before the silence is.                    *)
LEMMA ReadingIsProper ==
  ASSUME HttpInv, NEW c \in due, H!Read(c), callers[c].ends # "reset"
  PROVE  HttpInv' /\ StepIsProper
<1> DEFINE old == callers[c]
<1>1. CASE H!Answer(c, "malformed")
  BY <1>1, RefusingIsProper
<1>5. CASE old.sent > H!Ceiling(old.request) /\ H!Overflow(c)
  BY <1>5, OverflowIsProper
<1>2. CASE old.ends = "half" /\ H!Close(c)
  BY <1>2, ClosingIsProper
<1>3. CASE H!Handle(c)
  BY <1>3, HandlingIsProper
<1>4. CASE /\ old.state = "open" /\ ~(old.sent > H!Ceiling(old.request))
           /\ H!Served(c, H!Aged([old EXCEPT !.got = old.sent,
                                     !.quiet = IF old.sent > old.got THEN 0 ELSE @]))
  <2>1. c \in Callers /\ old \in Visit /\ H!Ceiling(old.request) \in Nat
    BY ConnectedAre, CeilingsAreNumbers DEF HttpInv, HttpTypes
  <2> DEFINE silence == IF old.sent > old.got THEN 0 ELSE old.quiet
             read == [old EXCEPT !.got = old.sent, !.quiet = silence]
  <2>2. H!Served(c, H!Aged(read))
    BY <1>4
  <2>3. silence \in Nat /\ old.sent \in Nat /\ (old.sent > old.got => silence = 0)
    BY <2>1 DEF Visit
  <2> HIDE DEF old, silence
  <2>4. /\ read \in Visit /\ read.answer = old.answer /\ read.quiet = silence
        /\ read.state = "open" /\ read.got = old.sent /\ read.request = old.request
    BY <1>4, <2>1, <2>3 DEF Visit
  <2> HIDE DEF read
  <2>5. WithinCeiling(read)
    BY <1>4, <2>1, <2>3, <2>4 DEF WithinCeiling
  <2>6. /\ H!Aged(read) \in Visit /\ WithinCeiling(H!Aged(read))
        /\ H!Aged(read) = read \/ H!Aged(read) = H!Absent
        /\ read.quiet = 0 => H!Aged(read) = read
    BY <2>4, <2>5, AgedIsAVisit
  <2>7. PassesTheGate(old, H!Aged(read))
    BY <2>4, <2>6, AbsentIsAVisit DEF PassesTheGate
  <2>8. IsSpared(old, H!Aged(read))
    BY <2>3, <2>4, <2>6 DEF IsSpared
  <2>9. IsProper(old, H!Aged(read))
    BY <2>6, <2>7, <2>8 DEF IsProper
  <2> QED  BY <2>2, <2>9, WhoeverIsServed DEF old
<1> QED  BY <1>1, <1>2, <1>3, <1>4, <1>5 DEF H!Read

LEMMA ServingIsProper ==
  ASSUME HttpInv, NEW c \in Callers, H!Service(c)
  PROVE  HttpInv' /\ StepIsProper
<1>1. c \in due
  BY DEF H!Service
<1>2. CASE H!Broken(c)
  BY <1>1, <1>2, ClosingIsProper DEF H!Broken
<1>3. CASE H!Write(c)
  BY <1>1, <1>3, WritingIsProper
<1>4. CASE callers[c].ends # "reset" /\ H!Read(c)
  BY <1>1, <1>4, ReadingIsProper
<1> QED  BY <1>2, <1>3, <1>4 DEF H!Service

(* Those that wait come in as far as there is room, and are not among      *)
(* those that are in.                                                      *)
LEMMA AcceptingIsProper ==
  ASSUME HttpInv, H!Accept
  PROVE  HttpInv' /\ StepIsProper
<1>1. PICK taken \in SUBSET H!Waiting :
        /\ H!Cardinality(taken) + H!Cardinality(H!Connected) <= Slots
        /\ callers' = [c \in Callers |->
             IF c \in taken THEN [callers[c] EXCEPT !.state = "open"]
             ELSE IF c \in H!Waiting THEN H!Absent
             ELSE [callers[c] EXCEPT !.quiet = H!Min({@ + elapsed, IdleLimit + 1})]]
        /\ due' = H!Connected \cup taken
  BY DEF H!Accept
<1>2. elapsed' = 0 /\ elapsed \in Nat /\ IdleLimit \in Nat /\ callers \in [Callers -> Visit]
  BY RequestsAssumption DEF H!Accept, HttpInv, HttpTypes, H!HttpAssumption
<1>3. H!Waiting = {c \in Callers : callers[c].state = "waiting"}
  BY DEF H!Waiting
<1>4. ASSUME NEW c \in Callers
      PROVE  /\ callers'[c] \in Visit /\ IsProper(callers[c], callers'[c])
             /\ IsConnected(callers'[c]) <=> c \in H!Connected \/ c \in taken
  <2> DEFINE old == callers[c]
             sum == old.quiet + elapsed
             silence == H!Min({sum, IdleLimit + 1})
  <2>0. old \in Visit /\ WithinCeiling(old)
    BY <1>2 DEF HttpInv
  <2>a. old.quiet \in Nat
    BY <2>0 DEF Visit
  <2>1. old \in Visit /\ WithinCeiling(old) /\ sum \in Nat
    BY <1>2, <2>0, <2>a
  <2>2. silence \in Nat
    <3> HIDE DEF sum
    <3>1. \E x \in {sum, IdleLimit + 1} : \A y \in {sum, IdleLimit + 1} : x <= y
      BY <1>2, <2>1
    <3>2. silence \in {sum, IdleLimit + 1}
      BY <3>1 DEF H!Min
    <3> QED  BY <1>2, <2>1, <3>2
  <2>3. c \in H!Connected <=> IsConnected(old)
    BY ConnectedAre
  <2>4. c \in H!Waiting <=> old.state = "waiting"
    BY <1>3
  <2>5. callers'[c] = IF c \in taken THEN [old EXCEPT !.state = "open"]
                      ELSE IF c \in H!Waiting THEN H!Absent
                      ELSE [old EXCEPT !.quiet = silence]
    BY <1>1
  <2> HIDE DEF old, silence
  <2>6. CASE c \in taken
    <3>1. callers'[c] = [old EXCEPT !.state = "open"] /\ old.state = "waiting"
      BY <1>1, <2>4, <2>5, <2>6
    <3> DEFINE visit == [old EXCEPT !.state = "open"]
    <3>2. /\ visit \in Visit /\ visit.state = "open" /\ visit.answer = old.answer
          /\ visit.got = 0
      BY <2>1, <3>1 DEF Visit, WithinCeiling
    <3>3. H!Ceiling(visit.request) \in Nat
      BY CeilingsAreNumbers
    <3>4. IsProper(old, visit) /\ IsConnected(visit)
      BY <3>1, <3>2, <3>3 DEF IsProper, WithinCeiling, IsSpared, PassesTheGate, IsConnected
    <3> QED  BY <2>6, <3>1, <3>2, <3>4 DEF old
  <2>7. CASE c \notin taken /\ c \in H!Waiting
    <3>1. callers'[c] = H!Absent /\ old.state = "waiting"
      BY <2>4, <2>5, <2>7
    <3> QED  BY <2>3, <2>7, <3>1, AbsentIsAVisit
             DEF IsProper, IsSpared, PassesTheGate, IsConnected, old
  <2>8. CASE c \notin taken /\ c \notin H!Waiting
    <3> DEFINE visit == [old EXCEPT !.quiet = silence]
    <3>1. callers'[c] = visit
      BY <2>5, <2>8
    <3>2. /\ visit \in Visit /\ visit.state = old.state /\ visit.answer = old.answer
          /\ visit.got = old.got /\ visit.request = old.request
      BY <2>1, <2>2 DEF Visit
    <3>3. IsProper(old, visit) /\ (IsConnected(visit) <=> IsConnected(old))
      BY <2>1, <3>2 DEF IsProper, WithinCeiling, IsSpared, PassesTheGate, IsConnected, Visit
    <3> QED  BY <2>3, <2>8, <3>1, <3>2, <3>3 DEF old
  <2> QED  BY <2>6, <2>7, <2>8
<1>5. callers' \in [Callers -> Visit]
  BY <1>1, <1>4
<1>6. H!Connected' = H!Connected \cup taken
  BY <1>1, <1>3, <1>4, ConnectedAre
<1>7. H!Cardinality(H!Connected)' <= Slots
  <2>1. IsFiniteSet(Callers) /\ Slots \in Nat
    BY RequestsAssumption DEF H!HttpAssumption, H!IsFiniteSet, IsFiniteSet
  <2>2. IsFiniteSet(H!Connected) /\ IsFiniteSet(taken)
    BY <1>1, <1>3, <2>1, FS_Subset, ConnectedAre
  <2>3. H!Connected \cap taken = {}
    BY <1>1, <1>3 DEF H!Connected
  <2>4. /\ Cardinality(H!Connected \cup taken)
            = Cardinality(H!Connected) + Cardinality(taken) - Cardinality(H!Connected \cap taken)
      BY <2>2, FS_Union
  <2>5. Cardinality(H!Connected \cap taken) = 0
    BY <2>3, FS_EmptySet
  <2>6. Cardinality(H!Connected) \in Nat /\ Cardinality(taken) \in Nat
    BY <2>2, FS_CardinalityType
  <2>7. Cardinality(taken) + Cardinality(H!Connected) <= Slots
    BY <1>1 DEF H!Cardinality, Cardinality
  <2>8. Cardinality(H!Connected \cup taken) <= Slots
    BY <2>1, <2>4, <2>5, <2>6, <2>7
  <2> QED  BY <1>6, <2>8 DEF H!Cardinality, Cardinality
<1>8. elapsed' \in Nat /\ due' \subseteq H!Connected'
  BY <1>1, <1>2, <1>6
<1> QED  BY <1>4, <1>5, <1>7, <1>8 DEF HttpInv, HttpTypes, StepIsProper, IsProper

-----------------------------------------------------------------------------
LEMMA HttpBegins ==
  ASSUME H!Init
  PROVE  HttpInv
<1>1. callers = [c \in Callers |-> H!Absent] /\ due = {} /\ elapsed = 0
  BY DEF H!Init
<1>2. HttpTypes /\ \A c \in Callers : WithinCeiling(callers[c])
  BY <1>1, AbsentIsAVisit DEF HttpTypes
<1>3. H!Connected = {}
  BY <1>1, AbsentIsAVisit DEF H!Connected
<1>4. Cardinality({}) = 0 /\ Slots \in Nat
  BY FS_EmptySet, RequestsAssumption DEF H!HttpAssumption
<1>5. Cardinality(H!Connected) <= Slots
  BY <1>3, <1>4
<1>6. H!Cardinality(H!Connected) <= Slots
  BY <1>5 DEF H!Cardinality, Cardinality
<1> QED  BY <1>2, <1>6 DEF HttpInv

LEMMA HttpGoesOn ==
  ASSUME HttpInv, [H!Next]_(H!vars)
  PROVE  HttpInv' /\ StepIsProper
<1>1. CASE \E c \in Callers : H!Caller(c)
  BY <1>1, CallersAreProper
<1>2. CASE \E c \in Callers : H!Service(c)
  BY <1>2, ServingIsProper
<1>3. CASE H!Accept
  BY <1>3, AcceptingIsProper
<1>4. CASE H!Tick \/ H!Rescue \/ UNCHANGED H!vars
  <2>1. callers' = callers /\ due' \subseteq due
    BY <1>4 DEF H!Tick, H!Rescue, H!vars
  <2>2. elapsed' \in Nat
    BY <1>4, RequestsAssumption DEF H!Tick, H!Rescue, H!vars, HttpInv, HttpTypes, H!HttpAssumption
  <2>3. H!Connected' = H!Connected
    BY <2>1 DEF H!Connected
  <2>4. ASSUME NEW c \in Callers PROVE IsProper(callers[c], callers'[c])
    BY <2>1, StayingIsProper DEF HttpInv, HttpTypes
  <2>5. H!Cardinality(H!Connected)' <= Slots
    BY <2>3, FewerFit
  <2>6. HttpTypes' /\ \A c \in Callers : WithinCeiling(callers'[c])
    BY <2>1, <2>2, <2>3 DEF HttpInv, HttpTypes
  <2> QED  BY <2>4, <2>5, <2>6 DEF HttpInv, StepIsProper
<1> QED  BY <1>1, <1>2, <1>3, <1>4 DEF H!Next

LEMMA HttpInvariant == H!Spec => []HttpInv
<1>1. HttpInv /\ [H!Next]_(H!vars) => HttpInv'
  BY HttpGoesOn
<1> QED  BY HttpBegins, <1>1, PTL DEF H!Spec

(* However many callers come and whatever they send or leave unsent, the   *)
(* server holds no more of them than it has places, and of none more than  *)
(* the first line of its request allows (Tc002HttpServer::acceptPending,   *)
(* ceilingFor, service).                                                   *)
THEOREM CallersFillNoMoreThanPlaces == H!Spec => []H!HeldIsBounded
<1>1. HttpInv => H!HeldIsBounded
  BY DEF HttpInv, H!HeldIsBounded, WithinCeiling
<1> QED  BY HttpInvariant, <1>1, PTL

(* Whoever has sent something that was not read yet, and no more than may  *)
(* be kept, is not dropped for silence, for any patience of the server and *)
(* however long the device was away (Tc002HttpServer::poll: it serves      *)
(* first and counts the age after).                                        *)
THEOREM ProgressIsRead == H!Spec => H!ProgressIsNotPunished
<1>1. HttpInv /\ [H!Next]_(H!vars)
      => [\A c \in Callers :
            /\ callers[c].state = "open" /\ callers[c].ends = "open"
            /\ callers[c].sent > callers[c].got
            /\ callers[c].sent <= H!Ceiling(callers[c].request)
            => callers'[c].state # "away"]_(H!vars)
  BY HttpGoesOn DEF StepIsProper, IsProper, IsSpared
<1> QED  BY HttpInvariant, <1>1, PTL DEF H!Spec, H!ProgressIsNotPunished

(* Whatever callers send, and whoever sets or clears the password while a  *)
(* request is arriving: who is answered with success has named the one     *)
(* that is set at that moment (api/BasicAuth.cpp, ApplicationHost::handle).         *)
THEOREM EveryoneIsAsked == H!Spec => H!NoCarveOut
<1>1. HttpInv /\ [H!Next]_(H!vars)
      => [\A c \in Callers :
            (callers'[c].answer = "ok" /\ callers[c].answer = "none")
            => password \in {H!NoPassword, callers[c].request.login}]_(H!vars)
  BY HttpGoesOn DEF StepIsProper, IsProper, PassesTheGate
<1> QED  BY HttpInvariant, <1>1, PTL DEF H!Spec, H!NoCarveOut
=============================================================================
