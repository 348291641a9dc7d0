------------------------------ MODULE ScriptRun ------------------------------
(***************************************************************************)
(* Running scripts: each has an interpreter of its own, is called to draw  *)
(* the panel, to take a press and to say how long it wants, keeps values   *)
(* under keys, some of which its header declares as fields of a form, and  *)
(* is not called again once it has failed.                                 *)
(*                                                                         *)
(* Everything happens on one thread, a call at a time: while a script runs *)
(* nothing else does, and only a heartbeat of the interpreter can end one  *)
(* that does not return.  A source is which methods it has and what may    *)
(* come of them, what its header declares and which keys it writes itself; *)
(* a value is a kind and a number (a text is told by its length).          *)
(***************************************************************************)
EXTENDS Integers, FiniteSets, Sequences, Functions

CONSTANTS
  Ids,
  Sources,      \* what a script may be
  Values,       \* what a form may send, or a script write
  Width,        \* how many integers there are, 2^32
  TextLimit,    \* kMaxStoreTextBytes
  MaxKeys,      \* kMaxStoreKeys
  MaxScripts,   \* kMaxScripts
  Budget,       \* kInstructionBudget, in heartbeats
  MaxEdits      \* bound on requests

VARIABLES
  scripts,   \* the ScriptStore: for each id there is, a script and its host
  moved,     \* has the store's revision moved since it was written
  blob,      \* what flash holds
  app,       \* the app on the panel: a script's id, or "clock"
  paused,    \* the carousel
  panel,     \* what the app last drew: "nothing", "picture" or "error"
  call,      \* g_active: which script runs, in which method, and its heartbeats
  press,     \* what became of the last press
  form,      \* history: for each script, what its form last accepted
  edits

library == <<scripts, moved, blob>>
front == <<app, paused, panel>>
vars == <<library, front, call, press, form, edits>>

NoProblem == "none"
NoScripts == [id \in {} |-> 0]
Nothing == [field |-> [key |-> "none"], value |-> [kind |-> "none", n |-> 0]]
NoPress == [result |-> "none", by |-> "nobody"]

NoCall == [id |-> "nobody", method |-> "none", control |-> "none", beats |-> 0]

Controls == {"left", "right", "select", "minus", "plus"}

(* No script has the name of nobody, and a header is read or it is not.    *)
(* Half of the integers of the store are negative.                         *)
ASSUME ScriptRunAssumption ==
  /\ "nobody" \notin Ids
  /\ \A source \in Sources : source.compiles \in BOOLEAN
  /\ Values \subseteq [kind : STRING, n : Int]
  /\ TextLimit \in Nat
  /\ Width \in Nat \ {0} /\ Width % 2 = 0

-----------------------------------------------------------------------------
(* What is kept under keys.                                                *)
KeysOf(store) == {store[i].key : i \in 1..Len(store)}
At(store, key) == store[CHOOSE i \in 1..Len(store) : store[i].key = key].value

(* A text that is too long is cut. *)
Trimmed(value) ==
  IF value.kind = "text" /\ value.n > TextLimit THEN [value EXCEPT !.n = TextLimit] ELSE value

Fits(store, key) == key \in KeysOf(store) \/ Len(store) < MaxKeys

(* setStored and b_store_set: a key that is there keeps its place; when    *)
(* there is no room nothing is put out for it.                             *)
Stored(store, key, value) ==
  IF ~Fits(store, key) THEN store
  ELSE IF key \in KeysOf(store)
    THEN [i \in 1..Len(store) |->
            IF store[i].key = key THEN [key |-> key, value |-> Trimmed(value)] ELSE store[i]]
  ELSE Append(store, [key |-> key, value |-> Trimmed(value)])

(* What a number becomes in the 32 bits that keep it. *)
Narrow(n) == ((n + Width \div 2) % Width) - Width \div 2

(* Fault: the bounds are looked at after the number has been narrowed.     *)
AcceptNarrow(field, value) ==
  IF field.type # value.kind \/ (field.type = "text" /\ field.limit > 0 /\ value.n > field.limit)
     \/ (field.bounded /\ (Narrow(value.n) < field.min \/ Narrow(value.n) > field.max))
  THEN {}
  ELSE {[value EXCEPT !.n = IF field.type = "number" THEN Narrow(@) ELSE @]}

(* setSetting: what a field makes of a value, nothing when it refuses it.  *)
Accept(field, value) ==
  IF field.type # value.kind \/ (field.type = "text" /\ field.limit > 0 /\ value.n > field.limit)
     \/ (field.bounded /\ (value.n < field.min \/ value.n > field.max))
  THEN {}
  ELSE {[value EXCEPT !.n = IF field.type = "number" THEN Narrow(@) ELSE @]}

-----------------------------------------------------------------------------
Init ==
  /\ scripts = NoScripts /\ moved = FALSE /\ blob = NoScripts
  /\ app = "clock" /\ paused = FALSE /\ panel = "nothing"
  /\ call = NoCall /\ press = NoPress
  /\ form = [id \in Ids |-> Nothing]
  /\ edits = 0

(* ScriptHost::load in a fresh interpreter: nothing is kept yet, and what  *)
(* the source writes while it loads is not.                                *)
Loaded(source, store) ==
  [source |-> source, ready |-> source.compiles, store |-> store,
   problem |-> IF source.compiles THEN NoProblem ELSE "would not compile"]

With(id, script) == [other \in DOMAIN scripts \cup {id} |-> IF other = id THEN script ELSE scripts[other]]

Edit ==
  /\ call = NoCall
  /\ edits < MaxEdits
  /\ edits' = edits + 1
  /\ moved' = TRUE
  /\ UNCHANGED <<blob, front, call, press>>

(* put *)
Put(id, source) ==
  /\ id \in DOMAIN scripts \/ Cardinality(DOMAIN scripts) < MaxScripts
  /\ scripts' = With(id, Loaded(source, <<>>))
  /\ form' = [form EXCEPT ![id] = Nothing]
  /\ Edit

Remove(id) ==
  /\ id \in DOMAIN scripts
  /\ scripts' = [other \in DOMAIN scripts \ {id} |-> scripts[other]]
  /\ form' = [form EXCEPT ![id] = Nothing]
  /\ Edit

(* setSetting: one of the fields the header declares.                      *)
Set(id, field, value) ==
  /\ id \in DOMAIN scripts
  /\ field \in Range(scripts[id].source.fields)
  /\ Fits(scripts[id].store, field.key)
  /\ \E v \in Accept(field, value) :
       /\ scripts' = [scripts EXCEPT ![id].store = Stored(@, field.key, v)]
       /\ form' = [form EXCEPT ![id] = [field |-> field, value |-> value]]
  /\ Edit

-----------------------------------------------------------------------------
(* A call of a script: what it may reach is set for the call and cleared   *)
(* behind it.                                                              *)
Enter(id, method, control) ==
  /\ call = NoCall
  /\ call' = [id |-> id, method |-> method, control |-> control, beats |-> 0]

Running == call # NoCall
Source == scripts[call.id].source

(* Is there such a method to run? *)
Runs == Source[call.method] # {"undefined"}

(* b_store_set, of one of the keys the script writes.  The revision of the *)
(* store does not move.                                                    *)
Write(key, value) ==
  /\ Running /\ Runs
  /\ key \in Source.writes
  /\ scripts' = [scripts EXCEPT ![call.id].store = Stored(@, key, value)]
  /\ form' = [form EXCEPT ![call.id] = IF @.field.key = key THEN Nothing ELSE @]
  /\ UNCHANGED <<moved, blob, front, call, press, edits>>

(* The ordinary job of a control.                                          *)
Ordinary(control) ==
  /\ app' \in IF control \in {"left", "right"} THEN {"clock"} \cup DOMAIN scripts ELSE {app}
  /\ paused' = IF control = "select" THEN ~paused ELSE paused
  /\ panel' = IF app' # app THEN "nothing" ELSE panel

Failing(id, problem) == [scripts EXCEPT ![id] = [@ EXCEPT !.ready = FALSE, !.problem = problem]]

(* draw: without a method to draw with it has failed as well. *)
Drawn(id, result) ==
  /\ scripts' = CASE result = "failed" -> Failing(id, "raised")
                  [] result = "undefined" -> Failing(id, "has no draw")
                  [] OTHER -> scripts
  /\ panel' = IF result = "handled" THEN "picture" ELSE "error"
  /\ UNCHANGED <<app, paused, press>>

(* Fault: a handler that failed is offered the next press as well. *)
PressedLeniently(id, result) ==
  /\ scripts' = IF result = "failed" THEN [scripts EXCEPT ![id].problem = "raised"] ELSE scripts
  /\ press' = [result |-> result, by |-> IF result = "handled" THEN "script" ELSE "carousel"]
  /\ IF result = "handled" THEN UNCHANGED front ELSE Ordinary(call.control)

(* button: what the script does not take does its ordinary job. *)
Pressed(id, result) ==
  /\ scripts' = IF result = "failed" THEN Failing(id, "raised") ELSE scripts
  /\ press' = [result |-> result, by |-> IF result = "handled" THEN "script" ELSE "carousel"]
  /\ IF result = "handled" THEN UNCHANGED front ELSE Ordinary(call.control)

(* invoke comes back.  A failure to say how long is not held against it.   *)
Leave(result) ==
  /\ call' = NoCall
  /\ CASE call.method = "draw" -> Drawn(call.id, result)
       [] call.method = "button" -> Pressed(call.id, result)
       [] OTHER -> UNCHANGED <<scripts, front, press>>
  /\ UNCHANGED <<moved, blob, form, edits>>

Return ==
  /\ Running
  /\ \E result \in Source[call.method] : Leave(result)

(* Beyond the budget it does not matter by how much. *)
Counted(beats) == IF beats > Budget THEN Budget ELSE beats + 1

(* Fault: an overrun is noted for the diagnostics and not raised. *)
BeatNoted ==
  /\ Running /\ Runs
  /\ call' = [call EXCEPT !.beats = Counted(@)]
  /\ UNCHANGED <<library, front, press, form, edits>>

(* observe: a heartbeat.  Over its budget the script is raised out of, and *)
(* may catch that like any other error.                                    *)
Beat ==
  /\ Running /\ Runs
  /\ \/ call.beats + 1 >= Budget /\ Leave("failed")
     \/ /\ call.beats + 1 < Budget \/ Source.catches
        /\ call' = [call EXCEPT !.beats = Counted(@)]
        /\ UNCHANGED <<library, front, press, form, edits>>

-----------------------------------------------------------------------------
(* ApplicationHost::renderApp: a script that cannot run says so, and so    *)
(* does an app whose script is gone.                                       *)
Frame ==
  /\ app # "clock"
  /\ IF app \in DOMAIN scripts /\ scripts[app].ready
     THEN Enter(app, "draw", "none") /\ UNCHANGED panel
     ELSE call = NoCall /\ panel' = "error" /\ UNCHANGED call
  /\ UNCHANGED <<library, app, paused, press, form, edits>>

(* durationMillis *)
AskDuration(id) ==
  /\ id \in DOMAIN scripts /\ scripts[id].ready
  /\ Enter(id, "duration", "none")
  /\ UNCHANGED <<library, front, press, form, edits>>

Offered(id, control) ==
  /\ id \in DOMAIN scripts
  /\ scripts[id].source.input = "exclusive" \/ control = "select"
  /\ scripts[id].ready

(* offerToScript and the action press.  In exclusive mode a press of the   *)
(* knob that was not taken is offered a second time, with the same result. *)
Press(control) ==
  /\ IF Offered(app, control)
     THEN Enter(app, "button", control) /\ UNCHANGED <<front, press>>
     ELSE /\ call = NoCall /\ UNCHANGED call
          /\ press' = [result |-> "none", by |-> "carousel"]
          /\ Ordinary(control)
  /\ UNCHANGED <<library, form, edits>>

(* The middle key and a held knob are offered to nobody.                   *)
Back ==
  /\ call = NoCall
  /\ app' = "clock" /\ panel' = "nothing"
  /\ press' = [result |-> "none", by |-> "carousel"]
  /\ UNCHANGED <<library, paused, call, form, edits>>

-----------------------------------------------------------------------------
(* serialize: id, source and what is kept, of every script.                *)
Save ==
  /\ call = NoCall
  /\ moved
  /\ blob' = [id \in DOMAIN scripts |-> [source |-> scripts[id].source, store |-> scripts[id].store]]
  /\ moved' = FALSE
  /\ UNCHANGED <<scripts, front, call, press, form, edits>>

(* What comes of a restart: deserialize puts every script anew, and what   *)
(* it kept after that.                                                     *)
Restored(saved) == [id \in DOMAIN saved |-> Loaded(saved[id].source, saved[id].store)]

(* A blob that does not read as one is given up as a whole and removed.    *)
Boot(readable) ==
  /\ scripts' = IF readable THEN Restored(blob) ELSE NoScripts
  /\ blob' = IF readable THEN blob ELSE NoScripts
  /\ moved' = FALSE
  /\ app' = "clock" /\ paused' = FALSE /\ panel' = "nothing"
  /\ call' = NoCall /\ press' = NoPress
  /\ form' = IF readable /\ ~moved THEN form ELSE [id \in Ids |-> Nothing]
  /\ UNCHANGED edits

Keys == UNION {source.writes : source \in Sources}
Fields == UNION {Range(source.fields) : source \in Sources}

Next ==
  \/ \E id \in Ids :
       \/ \E source \in Sources : Put(id, source)
       \/ \E field \in Fields, value \in Values : Set(id, field, value)
       \/ Remove(id) \/ AskDuration(id)
  \/ \E control \in Controls : Press(control)
  \/ \E key \in Keys, value \in Values : Write(key, value)
  \/ Frame \/ Return \/ Beat \/ Back \/ Save
  \/ \E readable \in BOOLEAN : Boot(readable)

(* The interpreter goes on; a script need not return by itself, but a       *)
(* method that is not there is seen not to be.                             *)
Spec == Init /\ [][Next]_vars /\ WF_vars(Beat) /\ WF_vars(Running /\ ~Runs /\ Return)

-----------------------------------------------------------------------------
TypeOK ==
  /\ DOMAIN scripts \subseteq Ids /\ Cardinality(DOMAIN scripts) <= MaxScripts
  /\ \A id \in DOMAIN scripts : Len(scripts[id].store) <= MaxKeys
  /\ app \in Ids \cup {"clock"}
  /\ panel \in {"nothing", "picture", "error"}

(* A script that cannot run always has a reason, and until it is put anew  *)
(* (or the device starts) that is the first one: it is not entered again,  *)
(* and frames and presses do not bury the reason.                          *)
FirstErrorIsKept ==
  [][\A id \in DOMAIN scripts :
       /\ scripts[id].ready <=> scripts[id].problem = NoProblem
       /\ ~scripts[id].ready =>
            /\ call'.id # id
            /\ edits' = edits /\ id \in DOMAIN scripts' /\ ~Boot(TRUE) /\ ~Boot(FALSE)
               => scripts'[id].problem = scripts[id].problem]_vars

(* ScriptHost.h: a script that loops for ever loses its frame, in whichever *)
(* method it loops, as long as it does not catch what it is raised out with. *)
LoopsAreStopped == Running /\ ~Source.catches ~> ~Running

(* ScriptHost.h:30-31: "Every call is bounded by an instruction budget."   *)
EveryCallEnds == Running ~> ~Running

(* A text that flash has room for lasts, and a number that fits its type,  *)
(* as one does that has to be between bounds that fit it.                  *)
Sized(n) == n \in -(Width \div 2)..(Width \div 2 - 1)

Lasts(sent) ==
  /\ sent # Nothing
  /\ sent.value.kind = "text" => sent.value.n <= TextLimit
  /\ sent.value.kind = "number" =>
       \/ Sized(sent.value.n)
       \/ sent.field.bounded /\ Sized(sent.field.min) /\ Sized(sent.field.max)

Reads(store, sent) ==
  Lasts(sent) => /\ sent.field.key \in KeysOf(store)
                 /\ At(store, sent.field.key) = sent.value

(* What a form accepted, where it lasts, is what the script reads and the  *)
(* form shows, through presses, frames, saves and restarts, until the      *)
(* script writes that key itself.                                          *)
AcceptedIsRead == \A id \in DOMAIN scripts : Reads(scripts[id].store, form[id])

(* ScriptHost.h:70-76: "the second must not" let the press fall through.   *)
FailedPressGoesNoFurther == press.result = "failed" => press.by # "carousel"

(* docs/scripting.md:249: values outside min and max are refused, and so   *)
(* none of those inside.                                                   *)
InsideIsAccepted ==
  \A id \in DOMAIN scripts, value \in Values :
    \A field \in Range(scripts[id].source.fields) :
      /\ field.type = "number" /\ value.kind = "number"
      /\ field.hasMin => value.n >= field.min
      /\ field.hasMax => value.n <= field.max
      => Accept(field, value) # {}
=============================================================================
