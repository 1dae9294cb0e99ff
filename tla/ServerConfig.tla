---------------------------- MODULE ServerConfig ----------------------------
(***************************************************************************)
(* The server's configuration.  A part of it (the login methods, the mail  *)
(* server, notifications, ...) is a row of config and, if it is enabled,   *)
(* an instance in the cache.  set_dynamic_config writes the row with no    *)
(* lock and takes the lock for the instance only, so two administrators    *)
(* may write rows and instances in different orders.  The common settings  *)
(* are set field by field: the row is read, merged and written; they are   *)
(* always read from the row.  The parts do not meet: a behaviour is about  *)
(* one.                                                                    *)
(***************************************************************************)

CONSTANT
    Setter          \* requests that set the configuration

VARIABLES
    part,           \* the part this behaviour is about
    entry,          \* its row: an entry, or NoRow
    instance,       \* dynamic_config: the entry in use, Off if none
    setting,        \* per request: the entry it has written, NoRow before
    base,           \* per request: the entry it is going to merge with
    patched,        \* fields whose setting was answered
    crossed         \* the row was written while another set was under way

configVars == <<part, entry, instance, setting, base, patched, crossed>>

Part == {"login", "fcm", "smtp", "common"}

\* Entries, by the fields that are set; a part without any is disabled.
Field == {"one", "two"}
Off == {}
NoRow == {"no row"}
Entry == SUBSET Field

None == [a \in Setter |-> NoRow]

ConfigInit ==
    /\ part \in Part
    /\ entry = IF part = "login" THEN {"one"} ELSE NoRow
    /\ instance = IF part \in {"login", "fcm"} THEN {"one"} ELSE Off
    /\ setting = None /\ base = None
    /\ patched = {}
    /\ crossed = FALSE

-----------------------------------------------------------------------------
Idle(a) == setting[a] = NoRow /\ base[a] = NoRow

AllIdle == \A a \in Setter : Idle(a)

\* The row, with no lock.
WriteRow(a, e) ==
    /\ entry' = e
    /\ setting' = [setting EXCEPT ![a] = e]
    /\ crossed' = (\E b \in Setter \ {a} : ~Idle(b))

SetRow(a, e) ==
    /\ part # "common" /\ Idle(a)
    /\ WriteRow(a, e)
    /\ UNCHANGED <<part, instance, base, patched>>

\* put_common: the fields that are not in the request keep their values.
ReadBase(a) ==
    /\ part = "common" /\ Idle(a)
    /\ base' = [base EXCEPT ![a] = IF entry = NoRow THEN Off ELSE entry]
    /\ UNCHANGED <<part, entry, instance, setting, patched, crossed>>

Patch(a, f) ==
    /\ base[a] # NoRow
    /\ WriteRow(a, base[a] \cup {f})
    /\ base' = [base EXCEPT ![a] = NoRow]
    /\ UNCHANGED <<part, instance, patched>>

\* Mutant: a part that is switched off stays in use.
SetInstanceKeeping(a) ==
    /\ setting[a] # NoRow
    /\ instance' = IF setting[a] = Off THEN instance ELSE setting[a]
    /\ setting' = [setting EXCEPT ![a] = NoRow]
    /\ UNCHANGED <<part, entry, base, patched, crossed>>

\* The instance, or none if it is not enabled.
SetInstance(a) ==
    /\ setting[a] # NoRow
    /\ instance' = setting[a]
    /\ patched' = IF part = "common" THEN patched \cup setting[a] ELSE patched
    /\ setting' = [setting EXCEPT ![a] = NoRow]
    /\ UNCHANGED <<part, entry, base, crossed>>

\* The administrator hangs up before the lock is granted.
SetCut(a) ==
    /\ setting[a] # NoRow
    /\ setting' = [setting EXCEPT ![a] = NoRow]
    /\ crossed' = TRUE
    /\ UNCHANGED <<part, entry, instance, base, patched>>

\* initialize_dynamic_config_with: notifications are on until they are
\* configured, with the official service.  The common settings are not loaded.
Loaded(e) ==
    CASE part = "common" -> Off
      [] part = "fcm" /\ e = NoRow -> {"one"}
      [] part # "fcm" /\ e = NoRow -> Off
      [] OTHER -> e

\* create_state; the login methods are enabled again, with end-to-end
\* encryption ({"one"}), whatever was set.
RestartConfig ==
    /\ entry' = IF part = "login" THEN {"one"} ELSE entry
    /\ instance' = Loaded(entry')
    /\ setting' = None /\ base' = None
    /\ crossed' = FALSE
    /\ UNCHANGED <<part, patched>>

ConfigNext ==
    \/ \E a \in Setter :
        \/ \E e \in Entry : SetRow(a, e)
        \/ ReadBase(a) \/ \E f \in Field : Patch(a, f)
        \/ SetInstance(a) \/ SetCut(a)
    \/ RestartConfig

ConfigSpec == ConfigInit /\ [][ConfigNext]_configVars

-----------------------------------------------------------------------------
\* The row and the instance are entries, and requests hold what they have read
\* or written (DynamicConfigEntry).
ConfigTypeOK ==
    /\ part \in Part
    /\ entry \in Entry \cup {NoRow} /\ instance \in Entry
    /\ setting \in [Setter -> Entry \cup {NoRow}]
    /\ base \in [Setter -> Entry \cup {NoRow}]
    /\ patched \in SUBSET Field
    /\ crossed \in BOOLEAN

\* Once every set is over, the configuration in use is the one in the table,
\* which the administrators are shown and the next start loads; unless two of
\* them crossed or one hung up half way.
ConfigInUseIsStored ==
    part # "common" /\ ~crossed /\ AllIdle => instance = Loaded(entry)

\* The same without the exception: two administrators whose rows and instances
\* cross leave an instance in use that the table does not have.
ConfigAlwaysStored == part # "common" /\ AllIdle => instance = Loaded(entry)

\* A common setting whose change was answered is in the row.  Two
\* administrators who change different ones at the same time both read the row
\* before either writes it, and one of the changes is lost.
PatchesKept == part = "common" /\ AllIdle => patched \subseteq entry

\* The configuration in use is the one stored (set_dynamic_config).
ConfigAgrees == ConfigTypeOK /\ ConfigInUseIsStored
==============================================================================
