--------------------------- MODULE StartupProofs ---------------------------
(***************************************************************************)
(* What is proved of Startup, for all installations and ways to start.     *)
(***************************************************************************)
EXTENDS Startup, MigrationProofs

\* A process touches the database only through the steps of Migration.
LEMMA DbSteps ==
    /\ Init => DbInit
    /\ [Next]_vars => [DbNext]_dbvars
  <1>1. Init => DbInit
    BY DEF Init
  <1>2. ASSUME [Next]_vars PROVE DbNext \/ UNCHANGED dbvars
    <2>1. CASE UNCHANGED vars
      BY <2>1 DEF vars, dbvars
    <2>2. CASE \E f \in site.starts : Launch(f)
      BY <2>2 DEF Launch
    <2>3. CASE AdminSaved \/ Bootstrap \/ BootstrapSaved \/ Listen
      BY <2>3 DEF AdminSaved, Bootstrap, BootstrapSaved, Listen
    <2>4. CASE NewServer
      BY <2>4 DEF NewServer, DbNext
    <2>5. CASE Stop
      BY <2>5 DEF Stop, DbNext
    <2>6. CASE Console \/ SaveFails
      BY <2>6 DEF Console, SubmitSettings, SettingsSaved, SaveFails
    <2>7. CASE Requests
      BY <2>7 DEF Requests, DbNext
    <2> QED BY <1>2, <2>1, <2>2, <2>3, <2>4, <2>5, <2>6, <2>7 DEF Next, Main
  <1> QED BY <1>1, <1>2

\* So what is proved of Migration holds of every process.
THEOREM ProcessKeepsDatabase == Spec => DbSpec
  BY DbSteps, PTL DEF Spec, DbSpec

-----------------------------------------------------------------------------
(* config.yml is whole and says what was saved into it.                    *)

LEMMA FileFacts ==
    /\ Absent \notin Whole /\ Torn # Absent /\ Torn \notin Whole
    /\ DefaultConfig \in Config /\ NoFlags \in Flags
    /\ ~HasAdmin(NoAccounts)
    /\ \A f \in Whole \cup {Absent} : Loaded(f) \in Config
    /\ \A c \in Config :
          /\ Marshalled(c) \in Whole
          /\ Loaded(Marshalled(c)).admin = c.admin
          /\ Loaded(Marshalled(c)).set.url = c.set.url
          /\ Loaded(Marshalled(c)).set.register
  <1>1. Absent \notin Whole /\ Torn # Absent /\ Torn \notin Whole
    BY DEF Absent, Torn, Whole
  <1>2. NoAccounts \in Accounts /\ ~HasAdmin(NoAccounts)
    BY DEF NoAccounts, Accounts, HasAdmin
  <1>3. DefaultConfig \in Config
    BY <1>2 DEF DefaultConfig, Config, Settings
  <1>4. NoFlags \in Flags
    BY ConfigAssumption DEF NoFlags, Flags
  <1>5. ASSUME NEW f \in Whole \cup {Absent} PROVE Loaded(f) \in Config
    BY <1>1, <1>3, <1>5 DEF Loaded, Whole, Config, Settings
  <1>6. ASSUME NEW c \in Config
        PROVE  /\ Marshalled(c) \in Whole
               /\ Loaded(Marshalled(c)).admin = c.admin
               /\ Loaded(Marshalled(c)).set.url = c.set.url
               /\ Loaded(Marshalled(c)).set.register
    <2> DEFINE f == Marshalled(c)
    <2>1. /\ f \in Whole /\ f.admin = c.admin /\ f.url = c.set.url
          /\ f.register # "false"
      BY DEF Marshalled, Whole, Config, Settings
    <2> HIDE DEF f
    <2>2. Loaded(f) = [admin |-> f.admin,
                       set |-> [url |-> f.url, register |-> f.register # "false"]]
      BY <1>1, <2>1 DEF Loaded
    <2> DEFINE listed == f.register # "false"
    <2>3. listed = TRUE
      BY <2>1
    <2>4. Loaded(f) = [admin |-> f.admin, set |-> [url |-> f.url, register |-> TRUE]]
      BY <2>2, <2>3
    <2>5. /\ Loaded(f).admin = f.admin /\ Loaded(f).set.url = f.url
          /\ Loaded(f).set.register
      BY <2>4
    <2> QED BY <2>1, <2>5 DEF f
  <1> QED BY <1>1, <1>2, <1>3, <1>4, <1>5, <1>6

LEMMA SetAdminFields ==
    ASSUME NEW c \in Config, NEW a \in Admins, NEW password \in Passwords
    PROVE  /\ SetAdmin(c, a, password) \in Config
           /\ SetAdmin(c, a, password).admin = [c.admin EXCEPT ![a] = password]
           /\ SetAdmin(c, a, password).set = c.set
  BY DEF SetAdmin, Config, Accounts

LEMMA OverriddenFields ==
    ASSUME NEW c \in Config, NEW f \in Flags
    PROVE  /\ Overridden(c, f) \in Config
           /\ Overridden(c, f).admin = c.admin
           /\ Overridden(c, f).set.register = c.set.register
           /\ Overridden(c, f).set.url = IF f.url = NoUrl THEN c.set.url ELSE f.url
  BY DEF Overridden, Config, Settings, Flags

-----------------------------------------------------------------------------
(* The inductive invariant.                                                *)

\* Everything of TypeOK but the types of the database.
ConfigTypeOK ==
    /\ site \in Sites
    /\ proc \in {"off", "set-admin", "bootstrap", "bootstrap-save", "server",
                 "up", "settings"}
    /\ flags \in Flags /\ mem \in Config
    /\ file \in Whole \cup {Absent}
    /\ told \in Accounts /\ kept \in Settings /\ spoiled \in BOOLEAN
    /\ proc \in {"up", "settings"} => stage = "open"
    /\ proc \notin {"up", "settings", "server"} => stage = "closed"

\* What a process knows of the administrators before and after each save.
AdminInv ==
    /\ Loaded(file).admin = told
    /\ proc \in {"bootstrap", "server", "up", "settings"} => mem.admin = told
    /\ proc = "set-admin" =>
          /\ flags.password \in Passwords
          /\ mem.admin = [told EXCEPT ![flags.user] = flags.password]
    /\ proc = "bootstrap-save" =>
          /\ ~HasAdmin(told) /\ flags.bootstrap \in Passwords
          /\ mem.admin = [told EXCEPT ![BootstrapUser] = flags.bootstrap]
    /\ proc \in {"server", "up", "settings"} /\ flags.require =>
          HasAdmin(told)

\* What the file says of the settings, and the memory of the file.
SettingsInv ==
    /\ kept.url = Loaded(file).set.url
    /\ kept.register => Loaded(file).set.register
    /\ proc = "bootstrap" /\ flags.password = NoPassword =>
          /\ mem.set.url = IF flags.url = NoUrl THEN kept.url ELSE flags.url
          /\ kept.register => mem.set.register
    /\ proc \in {"bootstrap", "bootstrap-save", "server", "up"} /\ ~spoiled =>
          /\ mem.set.url \in {Loaded(file).set.url, flags.url}
          /\ mem.set.register => Loaded(file).set.register
    /\ spoiled => proc \in {"up", "settings"}

ConfigInv == ConfigTypeOK /\ AdminInv /\ SettingsInv

LEMMA ConfigInitInv == Init => ConfigInv
  <1> SUFFICES ASSUME Init PROVE ConfigInv
    OBVIOUS
  <1>1. file \in Whole \cup {Absent}
    BY SiteAssumption DEF Init, Site
  <1>2. Loaded(file) \in Config
    BY <1>1, FileFacts
  <1>3. Loaded(file).admin \in Accounts /\ Loaded(file).set \in Settings
    BY <1>2 DEF Config
  <1>4. ConfigTypeOK
    BY <1>1, <1>3, FileFacts DEF ConfigTypeOK, Init, DbInit
  <1>5. AdminInv /\ SettingsInv
    BY DEF AdminInv, SettingsInv, Init
  <1> QED BY <1>4, <1>5 DEF ConfigInv

LEMMA LaunchStep ==
    ASSUME ConfigInv, NEW f \in site.starts, Launch(f) PROVE ConfigInv'
  <1> DEFINE read == Overridden(Loaded(file), f)
  <1>1. f \in Flags
    BY SiteAssumption DEF ConfigInv, ConfigTypeOK, Site
  <1>2. Loaded(file) \in Config /\ file \in Whole \cup {Absent}
    BY FileFacts DEF ConfigInv, ConfigTypeOK
  <1>3. /\ read \in Config /\ read.admin = told
        /\ read.set.register = Loaded(file).set.register
        /\ read.set.url = IF f.url = NoUrl THEN Loaded(file).set.url ELSE f.url
    BY <1>1, <1>2, OverriddenFields DEF ConfigInv, AdminInv
  <1>4. /\ file' = file /\ flags' = f /\ ~spoiled /\ proc = "off"
        /\ UNCHANGED <<site, told, kept, spoiled>> /\ stage = "closed" /\ stage' = stage
    BY DEF Launch, WhileSaving, dbvars, ConfigInv, ConfigTypeOK, SettingsInv
  <1>5. CASE f.password = NoPassword
    <2>1. mem' = read /\ proc' = "bootstrap"
      BY <1>5 DEF Launch
    <2> HIDE DEF read
    <2>2. ConfigTypeOK'
      BY <1>1, <1>2, <1>3, <1>4, <2>1 DEF ConfigInv, ConfigTypeOK
    <2>3. AdminInv'
      BY <1>3, <1>4, <2>1 DEF ConfigInv, AdminInv
    <2>4. SettingsInv'
      BY <1>3, <1>4, <2>1 DEF ConfigInv, SettingsInv
    <2> QED BY <2>2, <2>3, <2>4 DEF ConfigInv
  <1>6. CASE f.password # NoPassword
    <2>1. mem' = SetAdmin(read, f.user, f.password) /\ proc' = "set-admin"
      BY <1>6 DEF Launch
    <2> HIDE DEF read
    <2>2. f.user \in Admins /\ f.password \in Passwords
      BY <1>1, <1>6 DEF Flags
    <2>3. mem' \in Config /\ mem'.admin = [told EXCEPT ![f.user] = f.password]
      BY <1>3, <2>1, <2>2, SetAdminFields
    <2>4. ConfigTypeOK'
      BY <1>1, <1>2, <1>4, <2>1, <2>3 DEF ConfigInv, ConfigTypeOK
    <2>5. AdminInv'
      BY <1>4, <2>1, <2>2, <2>3 DEF ConfigInv, AdminInv
    <2>6. SettingsInv'
      BY <1>4, <2>1 DEF ConfigInv, SettingsInv
    <2> QED BY <2>4, <2>5, <2>6 DEF ConfigInv
  <1> QED BY <1>5, <1>6

\* The process is over, and the file as it was.
LEMMA ExitStep ==
    ASSUME ConfigInv, Exit, UNCHANGED <<site, file, told, kept>>, stage' = "closed"
    PROVE  ConfigInv'
  BY FileFacts DEF ConfigInv, ConfigTypeOK, AdminInv, SettingsInv, Exit

\* What a save leaves behind.
LEMMA SavedFacts ==
    ASSUME ConfigInv, Saved
    PROVE  /\ file' \in Whole /\ kept' \in Settings
           /\ Loaded(file').admin = mem.admin
           /\ Loaded(file').set.url = mem.set.url /\ Loaded(file').set.register
           /\ kept' = mem.set
  BY FileFacts DEF ConfigInv, ConfigTypeOK, Saved, Config

LEMMA AdminSavedStep ==
    ASSUME ConfigInv, AdminSaved PROVE ConfigInv'
  <1>1. /\ proc = "set-admin" /\ Saved /\ stage' = stage /\ stage = "closed"
        /\ site' = site /\ told' = mem.admin /\ ~spoiled
    BY DEF AdminSaved, ConfigInv, ConfigTypeOK, AdminInv, SettingsInv, dbvars
  <1>2. /\ file' \in Whole /\ kept' \in Settings
        /\ Loaded(file').admin = mem.admin
        /\ Loaded(file').set.url = mem.set.url /\ Loaded(file').set.register
        /\ kept' = mem.set
    BY <1>1, SavedFacts
  <1>3. mem.admin \in Accounts /\ flags.password # NoPassword
    BY <1>1, ConfigAssumption DEF ConfigInv, ConfigTypeOK, AdminInv, Config
  <1>4. CASE Exit
    BY <1>1, <1>2, <1>3, <1>4, FileFacts
       DEF ConfigInv, ConfigTypeOK, AdminInv, SettingsInv, Exit
  <1>5. CASE ~flags.init
    <2>1. proc' = "bootstrap" /\ UNCHANGED <<flags, mem, spoiled>>
      BY <1>5 DEF AdminSaved
    <2>2. ConfigTypeOK'
      BY <1>1, <1>2, <1>3, <2>1 DEF ConfigInv, ConfigTypeOK
    <2>3. AdminInv' /\ SettingsInv'
      BY <1>1, <1>2, <1>3, <2>1 DEF AdminInv, SettingsInv
    <2> QED BY <2>2, <2>3 DEF ConfigInv
  <1> QED BY <1>4, <1>5 DEF AdminSaved

LEMMA BootstrapStep ==
    ASSUME ConfigInv, Bootstrap PROVE ConfigInv'
  <1>1. /\ proc = "bootstrap" /\ stage' = stage /\ stage = "closed"
        /\ UNCHANGED <<site, told, kept>> /\ file' = file
        /\ mem.admin = told
    BY DEF Bootstrap, WhileSaving, ConfigInv, ConfigTypeOK, AdminInv, dbvars
  <1>2. CASE Exit
    BY <1>1, <1>2, ExitStep
  <1>3. CASE /\ proc' = "server" /\ UNCHANGED <<flags, mem, spoiled>>
             /\ flags.require => HasAdmin(told)
    BY <1>1, <1>3 DEF ConfigInv, ConfigTypeOK, AdminInv, SettingsInv
  <1>4. CASE /\ MayBootstrap(mem.admin) /\ flags.bootstrap # NoPassword
             /\ mem' = SetAdmin(mem, BootstrapUser, flags.bootstrap)
             /\ proc' = "bootstrap-save" /\ UNCHANGED <<flags, spoiled>>
    <2>1. flags.bootstrap \in Passwords /\ ~HasAdmin(told) /\ mem \in Config
      BY <1>1, <1>4 DEF ConfigInv, ConfigTypeOK, Flags, MayBootstrap
    <2>2. /\ mem' \in Config /\ mem'.set = mem.set
          /\ mem'.admin = [told EXCEPT ![BootstrapUser] = flags.bootstrap]
      BY <1>1, <1>4, <2>1, ConfigAssumption, SetAdminFields
    <2>3. ConfigTypeOK'
      BY <1>1, <1>4, <2>2 DEF ConfigInv, ConfigTypeOK
    <2>4. AdminInv' /\ SettingsInv'
      BY <1>1, <1>4, <2>1, <2>2 DEF ConfigInv, AdminInv, SettingsInv
    <2> QED BY <2>3, <2>4 DEF ConfigInv
  <1> QED BY <1>1, <1>2, <1>3, <1>4 DEF Bootstrap, MayBootstrap

LEMMA BootstrapSavedStep ==
    ASSUME ConfigInv, BootstrapSaved PROVE ConfigInv'
  <1>1. /\ proc = "bootstrap-save" /\ proc' = "server" /\ Saved
        /\ UNCHANGED <<site, flags, mem, spoiled>> /\ stage' = stage
        /\ told' = mem.admin /\ ~spoiled /\ mem.admin \in Accounts
    BY DEF BootstrapSaved, ConfigInv, ConfigTypeOK, AdminInv, SettingsInv, dbvars, Config
  <1>2. /\ file' \in Whole /\ kept' \in Settings
        /\ Loaded(file').admin = mem.admin
        /\ Loaded(file').set.url = mem.set.url /\ Loaded(file').set.register
        /\ kept' = mem.set
    BY <1>1, SavedFacts
  <1>3. HasAdmin(told')
    <2>1. /\ told \in Accounts /\ flags.bootstrap \in Passwords
          /\ told' = [told EXCEPT ![BootstrapUser] = flags.bootstrap]
      BY <1>1 DEF ConfigInv, ConfigTypeOK, AdminInv
    <2>2. told'[BootstrapUser] # NoPassword
      BY <2>1, ConfigAssumption DEF Accounts
    <2> QED BY <2>2, ConfigAssumption DEF HasAdmin
  <1>4. ConfigTypeOK'
    BY <1>1, <1>2 DEF ConfigInv, ConfigTypeOK
  <1>5. AdminInv' /\ SettingsInv'
    BY <1>1, <1>2, <1>3 DEF AdminInv, SettingsInv
  <1> QED BY <1>4, <1>5 DEF ConfigInv

LEMMA NewServerStep ==
    ASSUME ConfigInv, NewServer PROVE ConfigInv'
  <1>1. UNCHANGED <<site, file, told, kept>> /\ proc = "server"
    BY DEF NewServer
  <1>2. CASE stage' = "closed"
    BY <1>1, <1>2, ExitStep DEF NewServer
  <1>3. CASE stage' # "closed"
    <2>1. UNCHANGED <<proc, flags, mem, spoiled>>
      BY <1>3 DEF NewServer
    <2> QED BY <1>1, <2>1 DEF ConfigInv, ConfigTypeOK, AdminInv, SettingsInv
  <1> QED BY <1>2, <1>3

LEMMA StopStep ==
    ASSUME ConfigInv, Stop PROVE ConfigInv'
  <1>1. stage' = "closed"
    BY DEF Stop, Close, Refuse, dbvars
  <1> QED BY <1>1, ExitStep DEF Stop

\* The settings form.
LEMMA ConsoleStep ==
    ASSUME ConfigInv, Console PROVE ConfigInv'
  <1>1. ASSUME NEW s \in site.forms, SubmitSettings(s) PROVE ConfigInv'
    <2>1. s \in Settings
      BY SiteAssumption DEF ConfigInv, ConfigTypeOK, Site
    <2>2. /\ proc = "up" /\ proc' = "settings" /\ file' = file /\ stage' = stage
          /\ UNCHANGED <<site, flags, told, kept, spoiled>>
          /\ mem' = [mem EXCEPT !.set = s]
      BY <1>1 DEF SubmitSettings, WhileSaving, dbvars
    <2>3. mem' \in Config /\ mem'.admin = mem.admin
      BY <2>1, <2>2 DEF ConfigInv, ConfigTypeOK, Config
    <2> QED BY <2>2, <2>3 DEF ConfigInv, ConfigTypeOK, AdminInv, SettingsInv
  <1>2. CASE SettingsSaved
    <2>1. /\ proc = "settings" /\ proc' = "up" /\ Saved /\ spoiled' = FALSE
          /\ UNCHANGED <<site, flags, mem, told>> /\ stage' = stage
      BY <1>2 DEF SettingsSaved, dbvars
    <2>2. /\ file' \in Whole /\ kept' \in Settings
          /\ Loaded(file').admin = mem.admin
          /\ Loaded(file').set.url = mem.set.url /\ Loaded(file').set.register
          /\ kept' = mem.set
      BY <2>1, SavedFacts
    <2>3. ConfigTypeOK'
      BY <2>1, <2>2 DEF ConfigInv, ConfigTypeOK
    <2>4. AdminInv' /\ SettingsInv'
      BY <2>1, <2>2 DEF ConfigInv, AdminInv, SettingsInv
    <2> QED BY <2>3, <2>4 DEF ConfigInv
  <1> QED BY <1>1, <1>2 DEF Console

LEMMA SaveFailsStep ==
    ASSUME ConfigInv, SaveFails PROVE ConfigInv'
  <1>1. UNCHANGED <<site, file, told, kept>> /\ stage' = stage
    BY DEF SaveFails, dbvars
  <1>2. CASE proc \in {"set-admin", "bootstrap-save"} /\ Exit
    <2>1. stage = "closed"
      BY <1>2 DEF ConfigInv, ConfigTypeOK
    <2> QED BY <1>1, <1>2, <2>1, ExitStep
  <1>3. CASE /\ proc = "settings" /\ proc' = "up" /\ spoiled' = TRUE
             /\ UNCHANGED <<flags, mem>>
    BY <1>1, <1>3 DEF ConfigInv, ConfigTypeOK, AdminInv, SettingsInv
  <1> QED BY <1>2, <1>3 DEF SaveFails

LEMMA ConfigStepInv == ConfigInv /\ [Next]_vars => ConfigInv'
  <1> SUFFICES ASSUME ConfigInv, [Next]_vars PROVE ConfigInv'
    OBVIOUS
  <1>1. CASE UNCHANGED vars
    BY <1>1 DEF vars, ConfigInv, ConfigTypeOK, AdminInv, SettingsInv
  <1>2. CASE Main
    <2>1. CASE Listen
      BY <2>1 DEF Listen, dbvars, ConfigInv, ConfigTypeOK, AdminInv, SettingsInv
    <2> QED BY <1>2, <2>1, LaunchStep, AdminSavedStep, BootstrapStep,
               BootstrapSavedStep, NewServerStep, StopStep DEF Main
  <1>3. CASE Console
    BY <1>3, ConsoleStep
  <1>4. CASE Requests
    <2>1. UNCHANGED config /\ stage' = stage
      BY <1>4 DEF Requests, Serve, Pair, Push, Pull, DropDevice, DeleteUser
    <2> QED BY <2>1 DEF config, ConfigInv, ConfigTypeOK, AdminInv, SettingsInv
  <1>5. CASE SaveFails
    BY <1>5, SaveFailsStep
  <1> QED BY <1>1, <1>2, <1>3, <1>4, <1>5 DEF Next

LEMMA ConfigInvariant == Spec => []ConfigInv
  BY ConfigInitInv, ConfigStepInv, PTL DEF Spec

-----------------------------------------------------------------------------
(* The theorems.                                                           *)

\* Types, and that requests are served from a migrated database only.
THEOREM TypeCorrect == Spec => []TypeOK
  <1>1. DbTypeOK /\ ConfigInv => TypeOK
    BY DEF ConfigInv, ConfigTypeOK, TypeOK
  <1> QED BY <1>1, ConfigInvariant, ProcessKeepsDatabase, DbTypeCorrect, PTL

\* No crash, failed save, restart or bootstrap password costs an administrator
\* the password that was set.
THEOREM AdministratorsAreKept == Spec => []AdminsKept
  <1>1. ConfigInv => AdminsKept
    BY FileFacts DEF ConfigInv, ConfigTypeOK, AdminInv, AdminsKept
  <1> QED BY <1>1, ConfigInvariant, PTL

\* A saved setting comes back, up to an override and the registration policy.
THEOREM SettingsAreKept == Spec => []SettingsKept
  <1>1. ConfigInv => SettingsKept
    BY DEF ConfigInv, SettingsInv, SettingsKept
  <1> QED BY <1>1, ConfigInvariant, PTL
=============================================================================
