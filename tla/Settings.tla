------------------------------ MODULE Settings ------------------------------
(***************************************************************************)
(* neolib::settings and setting<T>: values that are changed, applied and   *)
(* saved to a file, from which a setting gets its value when the program   *)
(* that runs next registers it.  Handlers of the events may call whatever  *)
(* the program may.  A key is its place in the order of the map.           *)
(***************************************************************************)
EXTENDS Integers, Sequences, SequencesExt

CONSTANTS Keys, Values,
          MaxChanges, \* bound: of values, over all runs of the program
          MaxRuns,    \* bound: runs of the program
          MaxDepth    \* bound: calls within calls

SettingsAssumption ==
  /\ Keys \subseteq Nat \ {0} /\ (Keys # {} => \E k \in Keys : \A j \in Keys : j <= k)
  /\ Values # {}
  /\ MaxChanges \in Nat /\ MaxRuns \in Nat /\ MaxDepth \in Nat

Unset == "unset"     \* a setting_value that is not set: the default
Nothing == "nothing" \* there is no new value
Behind == IF Keys = {} THEN 1 ELSE (CHOOSE k \in Keys : \A j \in Keys : j <= k) + 1 \* behind the last setting

VARIABLES
  registered, \* iSettings
  default,    \* iDefaultValue, iValue and iNewValue of each setting
  value,
  new,
  modified,   \* iModified
  calls,      \* the calls that are to save: where they are in iSettings
  saving,     \* the file is open for writing
  store,      \* iStore
  file,       \* what is in the file
  runs, changes,
  saved,      \* history: each setting's value when it was last saved
  fresh,      \* history: the settings no one has changed since they were registered
  forgotten,  \* history: the settings whose value in the file was lost
  unsaved     \* history: a handler has thrown out of apply_change()
vars == <<registered, default, value, new, modified, calls, saving, store, file, runs, changes, saved,
          fresh, forgotten, unsaved>>
history == <<saved, forgotten, unsaved, runs>>
setting == <<registered, default, value, new>>

Stored == [Keys -> Values \cup {Unset}]

TypeOK ==
  /\ registered \subseteq Keys /\ default \in [Keys -> Values] /\ value \in Stored
  /\ new \in [Keys -> Values \cup {Unset, Nothing}]
  /\ modified \in BOOLEAN /\ saving \in BOOLEAN /\ store \in Stored /\ file \in Stored
  /\ calls \in Seq(0 .. Behind) /\ Len(calls) <= MaxDepth
  /\ runs \in 0 .. MaxRuns /\ changes \in 0 .. MaxChanges
  /\ saved \in Stored /\ fresh \subseteq registered /\ forgotten \subseteq Keys /\ unsaved \in BOOLEAN
  /\ \A k \in Keys \ registered : value[k] = Unset /\ new[k] = Nothing

----------------------------------------------------------------------------
\* value(): what is set, or the default
ValueOf(k, v) == IF v = Unset THEN default[k] ELSE v

Changed == modified \/ \E k \in registered : new[k] # Nothing

\* Where the call that is to save, and began last, is
Place == calls[Len(calls)]

\* The program may call, and so may the handlers of a call that is to save.
MayCall ==
  /\ ~saving /\ Len(calls) < MaxDepth
  /\ calls # <<>> => Place # 0

Call(where) == calls' = Append(calls, where)

\* A new value for v: none when it is the value already.
NewFor(k, v) == IF ValueOf(k, value[k]) = v THEN Nothing ELSE v

\* set_value_from_string(), apply_change(): the handlers it calls change
\* nothing here.
Register(k, d) ==
  /\ MayCall /\ k \notin registered
  /\ registered' = registered \cup {k} /\ default' = [default EXCEPT ![k] = d]
  /\ value' = [value EXCEPT ![k] = IF store[k] = d THEN Unset ELSE store[k]]
  /\ fresh' = fresh \cup {k}
  /\ UNCHANGED <<new, modified, calls, saving, store, file, changes, history>>

SetValue(k, v) ==
  /\ MayCall /\ k \in registered /\ changes < MaxChanges /\ changes' = changes + 1
  /\ new' = [new EXCEPT ![k] = NewFor(k, v)] /\ fresh' = fresh \ {k}
  /\ UNCHANGED <<registered, default, value, modified, calls, saving, store, file, history>>

SetDefault(k, d) ==
  /\ MayCall /\ k \in registered /\ default[k] # d /\ changes < MaxChanges /\ changes' = changes + 1
  /\ default' = [default EXCEPT ![k] = d] /\ modified' = (modified \/ value[k] = Unset)
  /\ fresh' = fresh \ {k}
  /\ UNCHANGED <<registered, value, new, calls, saving, store, file, history>>

Clear(k) ==
  /\ MayCall /\ k \in registered /\ new[k] # Unset
  /\ new' = [new EXCEPT ![k] = IF value[k] = Unset THEN Nothing ELSE Unset] /\ fresh' = fresh \ {k}
  /\ UNCHANGED <<registered, default, value, modified, calls, saving, store, file, changes, history>>

SetEnabled(k) ==
  /\ MayCall /\ k \in registered /\ modified' = TRUE
  /\ UNCHANGED <<setting, calls, saving, store, file, changes, fresh, history>>

Discard ==
  /\ MayCall /\ new' = [k \in Keys |-> Nothing]
  /\ UNCHANGED <<registered, default, value, modified, calls, saving, store, file, changes, fresh, history>>

\* Mutant: a value that was not set before is not a change.
AppliedTo_First(k) ==
  /\ value' = [value EXCEPT ![k] = new[k]] /\ new' = [new EXCEPT ![k] = Nothing]
  /\ modified' = (modified \/ (value[k] # Unset /\ value[k] # new[k])) /\ UNCHANGED unsaved

\* apply_change() of a setting with a new value
AppliedTo(k) ==
  /\ value' = [value EXCEPT ![k] = new[k]] /\ new' = [new EXCEPT ![k] = Nothing]
  /\ modified' = (modified \/ value[k] # new[k]) /\ UNCHANGED unsaved

\* change_setting(), which is to be applied and saved at once
Change(k, v) ==
  /\ MayCall /\ k \in registered /\ changes < MaxChanges /\ changes' = changes + 1
  /\ LET to == NewFor(k, v) IN
     /\ value' = [value EXCEPT ![k] = IF to = Nothing THEN @ ELSE to]
     /\ new' = [new EXCEPT ![k] = Nothing] /\ modified' = (modified \/ value'[k] # value[k])
  /\ fresh' = fresh \ {k} /\ Call(Behind)
  /\ UNCHANGED <<registered, default, saving, store, file, history>>

\* A handler of a setting that iteration has come to deletes another.
Delete(k) ==
  /\ MayCall /\ k \in registered /\ k \notin ToSet(calls)
  /\ registered' = registered \ {k} /\ fresh' = fresh \ {k} /\ Call(Behind)
  /\ value' = [value EXCEPT ![k] = Unset] /\ new' = [new EXCEPT ![k] = Nothing]
  /\ forgotten' = forgotten \cup {k}
  /\ UNCHANGED <<default, modified, saving, store, file, changes, saved, unsaved, runs>>

Apply ==
  /\ MayCall /\ Changed /\ Call(0)
  /\ UNCHANGED <<setting, modified, saving, store, file, changes, fresh, history>>

Ahead == {k \in registered : k > Place /\ new[k] # Nothing}

\* It is the turn of the first.
Turn(k) == k \in Ahead /\ \A j \in Ahead : k <= j

ApplyNext(k) ==
  /\ ~saving /\ calls # <<>> /\ Turn(k) /\ AppliedTo(k)
  /\ calls' = [calls EXCEPT ![Len(calls)] = k]
  /\ UNCHANGED <<registered, default, saving, store, file, changes, saved, fresh, forgotten, runs>>

\* A handler throws: one of the setting's, before the settings hear of the
\* change, or one of theirs.
ApplyThrows(k) ==
  /\ ~saving /\ calls # <<>> /\ Turn(k) /\ value[k] # new[k] /\ calls' = <<>>
  /\ \/ AppliedTo(k)
     \/ /\ value' = [value EXCEPT ![k] = new[k]] /\ new' = [new EXCEPT ![k] = Nothing]
        /\ unsaved' = TRUE /\ UNCHANGED modified
  /\ UNCHANGED <<registered, default, saving, store, file, changes, saved, fresh, forgotten, runs>>

\* The settings changed are announced, and ...
Announce ==
  /\ ~saving /\ calls # <<>> /\ Place < Behind /\ Ahead = {}
  /\ calls' = [calls EXCEPT ![Len(calls)] = Behind]
  /\ UNCHANGED <<setting, modified, saving, store, file, changes, fresh, history>>

Kept(k) == IF k \in registered THEN value[k] ELSE Unset

\* ... the file is opened, which empties it, and then written.
Save ==
  /\ ~saving /\ calls # <<>> /\ Place = Behind /\ saving' = TRUE
  /\ file' = [k \in Keys |-> Unset] /\ store' = [k \in Keys |-> Kept(k)]
  /\ forgotten' = forgotten \cup (Keys \ registered)
  /\ UNCHANGED <<setting, modified, calls, changes, saved, fresh, unsaved, runs>>

Saved ==
  /\ saving /\ saving' = FALSE /\ file' = store /\ modified' = FALSE
  /\ calls' = Front(calls)
  /\ saved' = [k \in Keys |-> IF k \in registered THEN value[k] ELSE saved[k]]
  /\ forgotten' = forgotten \ registered /\ unsaved' = FALSE
  /\ UNCHANGED <<setting, store, changes, fresh, runs>>

\* The program ends, at any time, and is run again.
Restart ==
  /\ runs < MaxRuns /\ runs' = runs + 1
  /\ registered' = {} /\ value' = [k \in Keys |-> Unset] /\ new' = [k \in Keys |-> Nothing]
  /\ modified' = FALSE /\ calls' = <<>> /\ saving' = FALSE /\ store' = file /\ fresh' = {}
  /\ forgotten' = (IF saving THEN Keys ELSE forgotten) /\ unsaved' = FALSE
  /\ UNCHANGED <<default, file, changes, saved>>

Init ==
  /\ registered = {} /\ default = [k \in Keys |-> CHOOSE v \in Values : TRUE]
  /\ value = [k \in Keys |-> Unset] /\ new = [k \in Keys |-> Nothing] /\ modified = FALSE
  /\ calls = <<>> /\ saving = FALSE /\ store = value /\ file = value /\ runs = 0 /\ changes = 0
  /\ saved = value /\ fresh = {} /\ forgotten = {} /\ unsaved = FALSE

Next ==
  \/ \E k \in Keys, v \in Values : Register(k, v) \/ SetValue(k, v) \/ SetDefault(k, v) \/ Change(k, v)
  \/ \E k \in Keys : Clear(k) \/ SetEnabled(k) \/ Delete(k) \/ ApplyNext(k) \/ ApplyThrows(k)
  \/ Discard \/ Apply \/ Announce \/ Save \/ Saved \/ Restart

Spec == Init /\ [][Next]_vars

----------------------------------------------------------------------------
\* Settings that say that they are not modified are in the file as they are,
\* or not and the default is meant: apply_changes() may return at once.  Not so
\* after a handler has thrown out of apply_change().
CleanIsSaved ==
  calls = <<>> /\ ~Changed /\ ~unsaved =>
    \A k \in registered : ValueOf(k, file[k]) = ValueOf(k, value[k])

\* A setting that is registered has the value it had when it was last saved,
\* in whatever run of the program, unless it was not registered when others
\* were saved, was deleted, or the program ended while the file was written.
Remembered ==
  \A k \in fresh : k \notin forgotten =>
    ValueOf(k, value[k]) = ValueOf(k, saved[k])

=============================================================================
