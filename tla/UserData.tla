------------------------------- MODULE UserData -------------------------------
(***************************************************************************)
(* What the server does for single users besides delivering messages:      *)
(* their settings and profiles, the API keys of bots, files and archives,  *)
(* the server's configuration; and the way of a direct message before and  *)
(* after its delivery: the ratchet of the devices, sending, and reading    *)
(* back.  The parts share no state, so a behaviour is about one of them,   *)
(* and the others rest.                                                    *)
(***************************************************************************)
EXTENDS Settings, Profiles, ApiKeys, ServerConfig, Uploads, Archives, Ratchet, Sending, History

VARIABLE
    about           \* the part this behaviour is about

dataVars == <<setVars, profVars, keyVars, configVars, uploadVars, archiveVars>>
messageVars == <<ratchetVars, sendVars, historyVars>>
userVars == <<about, dataVars, messageVars>>

\* A part that rests has one initial state only.
UserDataInit ==
    /\ about \in {"settings", "profiles", "keys", "config", "uploads", "archives", "ratchet",
                  "sending", "history"}
    /\ SettingsInit /\ ProfilesInit /\ ApiKeysInit /\ ConfigInit /\ UploadsInit /\ ArchivesInit
    /\ RatchetInit /\ SendingInit /\ HistoryInit
    /\ about # "settings" => kind = "mute"
    /\ about # "config" => part = "smtp"
    /\ about # "uploads" => image = "no"
    /\ about # "archives" => allowed

UserDataNext ==
    /\ UNCHANGED about
    /\ \/ /\ about = "settings" /\ SettingsNext
          /\ UNCHANGED <<profVars, keyVars, configVars, uploadVars, archiveVars, messageVars>>
       \/ /\ about = "profiles" /\ ProfilesNext
          /\ UNCHANGED <<setVars, keyVars, configVars, uploadVars, archiveVars, messageVars>>
       \/ /\ about = "keys" /\ ApiKeysNext
          /\ UNCHANGED <<setVars, profVars, configVars, uploadVars, archiveVars, messageVars>>
       \/ /\ about = "config" /\ ConfigNext
          /\ UNCHANGED <<setVars, profVars, keyVars, uploadVars, archiveVars, messageVars>>
       \/ /\ about = "uploads" /\ UploadsNext
          /\ UNCHANGED <<setVars, profVars, keyVars, configVars, archiveVars, messageVars>>
       \/ /\ about = "archives" /\ ArchivesNext
          /\ UNCHANGED <<setVars, profVars, keyVars, configVars, uploadVars, messageVars>>
       \/ about = "ratchet" /\ RatchetNext /\ UNCHANGED <<dataVars, sendVars, historyVars>>
       \/ about = "sending" /\ SendingNext /\ UNCHANGED <<dataVars, ratchetVars, historyVars>>
       \/ about = "history" /\ HistoryNext /\ UNCHANGED <<dataVars, ratchetVars, sendVars>>

UserDataSpec == UserDataInit /\ [][UserDataNext]_userVars
===============================================================================
