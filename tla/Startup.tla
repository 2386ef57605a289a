------------------------------- MODULE Startup -------------------------------
(***************************************************************************)
(* The life of a server process: what main does between the command line   *)
(* and the first request, the configuration file it starts from, the       *)
(* administrators in that file, and the settings form that rewrites it     *)
(* while requests are served.  NewServer, in the middle of it, is          *)
(* Migration.                                                              *)
(*                                                                         *)
(* One process uses the directory at a time: docs/container.ru.md has the  *)
(* server stopped while --init-admin runs.  Memory ends with the process.  *)
(***************************************************************************)
EXTENDS Migration

CONSTANTS
    Admins, Passwords, NoPassword, \* names and passwords of administrators
    BootstrapUser,                 \* VERSTAK_BOOTSTRAP_ADMIN_USER
    Urls, NoUrl,                   \* values of public_url
    Sites                          \* what is installed, and how it is used

Accounts == [Admins -> Passwords \cup {NoPassword}]
Settings == [url : Urls \cup {NoUrl}, register : BOOLEAN]

\* Config, the part of it that is set from outside.  NoUrl is ''.
Config == [admin : Accounts, set : Settings]

\* config.yml as a whole; `register' is allow_registration, if it is there.
Absent == [kind |-> "absent"]
Torn == [kind |-> "torn"]
Whole == [kind : {"whole"}, admin : Accounts, url : Urls \cup {NoUrl},
          register : {"true", "false", "omitted"}]

\* The flags and variables of one start: --admin-user with a password source,
\* --init-admin, and the VERSTAK_ variables for the public URL, the bootstrap
\* password and the requirement that there be an administrator.
Flags == [user : Admins, password : Passwords \cup {NoPassword},
          init : BOOLEAN, url : Urls \cup {NoUrl},
          bootstrap : Passwords \cup {NoPassword}, require : BOOLEAN]

\* An installation: the database and configuration files found at the first
\* start, how the process is started, the settings administrators submit.
Site == [db : Databases, file : Whole \cup {Absent},
         starts : SUBSET Flags, forms : SUBSET Settings]

ASSUME ConfigAssumption == /\ NoPassword \notin Passwords /\ NoUrl \notin Urls
                           /\ BootstrapUser \in Admins
ASSUME SiteAssumption == Sites \subseteq Site

VARIABLES
    site,   \* which installation this is
    proc,   \* where main is, "off" when there is no process
    flags,  \* what the process was started with
    mem,    \* its Config
    file,   \* config.yml
    told,   \* the passwords the operators have set, and were told so
    kept,   \* the settings of the last save that was reported as done
    spoiled \* a form of this process changed the memory and was not saved

config == <<site, proc, flags, mem, file, told, kept, spoiled>>
vars == <<db, stage, at, cursor, got,
          site, proc, flags, mem, file, told, kept, spoiled>>

NoAccounts == [a \in Admins |-> NoPassword]
HasAdmin(accounts) == \E a \in Admins : accounts[a] # NoPassword

DefaultConfig == [admin |-> NoAccounts, set |-> [url |-> NoUrl, register |-> TRUE]]

\* A key that the file does not have keeps its default.
Loaded(f) ==
    IF f = Absent THEN DefaultConfig
    ELSE [admin |-> f.admin,
          set |-> [url |-> f.url, register |-> f.register # "false"]]

\* omitempty: a registration that is switched off is left out.
Marshalled(c) ==
    [kind |-> "whole", admin |-> c.admin, url |-> c.set.url,
     register |-> IF c.set.register THEN "true" ELSE "omitted"]

NoFlags == [user |-> BootstrapUser, password |-> NoPassword, init |-> FALSE,
            url |-> NoUrl, bootstrap |-> NoPassword, require |-> FALSE]

Init ==
    /\ site \in Sites
    /\ DbInit /\ db = site.db
    /\ file = site.file
    /\ proc = "off" /\ flags = NoFlags /\ mem = DefaultConfig
    /\ told = Loaded(file).admin /\ kept = Loaded(file).set
    /\ spoiled = FALSE

-----------------------------------------------------------------------------
(* saveLocked: the file is written under another name and renamed.         *)

\* A faulty WhileSaving: config.yml itself is written.
TornWhileSaving(f) == Torn

\* What config.yml holds from the first write to the rename.
WhileSaving(f) == f

Saved == file' = Marshalled(mem) /\ kept' = mem.set

Exit == proc' = "off" /\ flags' = NoFlags /\ mem' = DefaultConfig
            /\ spoiled' = FALSE

SetAdmin(c, a, password) == [c EXCEPT !.admin[a] = password]

-----------------------------------------------------------------------------
(* main                                                                    *)

\* A faulty Overridden: a start without the variable clears the address.
OverriddenAlways(c, f) == [c EXCEPT !.set.url = f.url]

Overridden(c, f) ==
    IF f.url = NoUrl THEN c ELSE [c EXCEPT !.set.url = f.url]

\* A start that cannot read the file, or lacks an administrator to set, ends
\* at once and leaves everything as it was.
Launch(f) ==
    /\ proc = "off" /\ file # Torn
    /\ f.init => f.password # NoPassword
    /\ flags' = f
    /\ LET read == Overridden(Loaded(file), f)
       IN IF f.password = NoPassword
          THEN mem' = read /\ proc' = "bootstrap" /\ UNCHANGED file
          ELSE /\ mem' = SetAdmin(read, f.user, f.password)
               /\ proc' = "set-admin"
               /\ file' = WhileSaving(file)
    /\ UNCHANGED <<dbvars, site, told, kept, spoiled>>

AdminSaved ==
    /\ proc = "set-admin"
    /\ Saved
    /\ told' = [told EXCEPT ![flags.user] = flags.password]
    /\ IF flags.init THEN Exit
       ELSE proc' = "bootstrap" /\ UNCHANGED <<flags, mem, spoiled>>
    /\ UNCHANGED <<dbvars, site>>

\* A faulty MayBootstrap: only the user of that name is looked for.
MayBootstrapUser(accounts) == accounts[BootstrapUser] = NoPassword

MayBootstrap(accounts) == ~HasAdmin(accounts)

Bootstrap ==
    /\ proc = "bootstrap"
    /\ \/ /\ ~MayBootstrap(mem.admin)
          /\ proc' = "server" /\ UNCHANGED <<flags, mem, file, spoiled>>
       \/ /\ MayBootstrap(mem.admin) /\ flags.bootstrap = NoPassword
          /\ IF flags.require THEN Exit
             ELSE proc' = "server" /\ UNCHANGED <<flags, mem, spoiled>>
          /\ UNCHANGED file
       \/ /\ MayBootstrap(mem.admin) /\ flags.bootstrap # NoPassword
          /\ mem' = SetAdmin(mem, BootstrapUser, flags.bootstrap)
          /\ file' = WhileSaving(file)
          /\ proc' = "bootstrap-save" /\ UNCHANGED <<flags, spoiled>>
    /\ UNCHANGED <<dbvars, site, told, kept>>

\* The first administrator is told; whoever has a password keeps it.
BootstrapSaved ==
    /\ proc = "bootstrap-save"
    /\ Saved
    /\ told' = IF HasAdmin(told) THEN told
               ELSE [told EXCEPT ![BootstrapUser] = flags.bootstrap]
    /\ proc' = "server"
    /\ UNCHANGED <<dbvars, site, flags, mem, spoiled>>

\* NewServer; when it returns an error the process ends.
NewServer ==
    /\ proc = "server"
    /\ Start
    /\ IF stage' = "closed" THEN Exit ELSE UNCHANGED <<proc, flags, mem, spoiled>>
    /\ UNCHANGED <<site, file, told, kept>>

Listen ==
    /\ proc = "server" /\ stage = "open"
    /\ proc' = "up"
    /\ UNCHANGED <<dbvars, site, flags, mem, file, told, kept, spoiled>>

\* The process ends: a signal, log.Fatal after NewServer, a crash.
Stop ==
    /\ proc # "off"
    /\ proc \in {"up", "settings"} \/ "crash" \in Events
    /\ IF stage = "closed" THEN UNCHANGED dbvars ELSE Close
    /\ Exit
    /\ UNCHANGED <<site, file, told, kept>>

-----------------------------------------------------------------------------
(* The running server: the requests of Migration, and the settings form.   *)

Requests ==
    /\ proc \in {"up", "settings"}
    /\ Serve
    /\ UNCHANGED config

\* The memory is changed first, for all requests to see, and then saved.
SubmitSettings(s) ==
    /\ proc = "up"
    /\ HasAdmin(mem.admin)
    /\ mem' = [mem EXCEPT !.set = s]
    /\ file' = WhileSaving(file)
    /\ proc' = "settings"
    /\ UNCHANGED <<dbvars, site, flags, told, kept, spoiled>>

SettingsSaved ==
    /\ proc = "settings"
    /\ Saved
    /\ proc' = "up" /\ spoiled' = FALSE
    /\ UNCHANGED <<dbvars, site, flags, mem, told>>

\* Any call of saveLocked fails.  A start ends there; the form is answered
\* with an error and the memory stays as it is.
SaveFails ==
    /\ "fail" \in Events
    /\ \/ proc \in {"set-admin", "bootstrap-save"} /\ Exit
       \/ proc = "settings" /\ proc' = "up" /\ spoiled' = TRUE
              /\ UNCHANGED <<flags, mem>>
    /\ UNCHANGED <<dbvars, site, file, told, kept>>

-----------------------------------------------------------------------------
Main ==
    \/ \E f \in site.starts : Launch(f)
    \/ AdminSaved \/ Bootstrap \/ BootstrapSaved
    \/ NewServer \/ Listen \/ Stop

Console ==
    \/ \E s \in site.forms : SubmitSettings(s)
    \/ SettingsSaved

Next == Main \/ Console \/ Requests \/ SaveFails

Spec == Init /\ [][Next]_vars

-----------------------------------------------------------------------------
(* Properties.                                                             *)

\* Every variable holds values of its type, and only a migrated database is
\* served.
TypeOK ==
    /\ DbTypeOK
    /\ site \in Sites
    /\ proc \in {"off", "set-admin", "bootstrap", "bootstrap-save", "server",
                 "up", "settings"}
    /\ flags \in Flags /\ mem \in Config
    /\ file \in Whole \cup {Absent}
    /\ told \in Accounts /\ kept \in Settings /\ spoiled \in BOOLEAN
    /\ proc \in {"up", "settings"} => stage = "open"
    /\ proc \notin {"up", "settings", "server"} => stage = "closed"

\* Whenever the process dies, in a save or between two, config.yml can be read
\* and holds the passwords that operators were told they had set: a bootstrap
\* password never replaces one, and a process that requires an administrator
\* serves only with one that the next process will know, too.
AdminsKept ==
    /\ file # Torn
    /\ Loaded(file).admin = told
    /\ proc \in {"up", "settings"} =>
          /\ mem.admin = told
          /\ flags.require => HasAdmin(told)

\* The settings a save was reported for come back at the next start, except
\* for an address that start overrides and a registration that is switched
\* off; and while a process serves it keeps to what the next one will read,
\* unless the form's last save failed.
SettingsKept ==
    /\ proc = "bootstrap" /\ flags.password = NoPassword =>
          /\ mem.set.url = IF flags.url = NoUrl THEN kept.url ELSE flags.url
          /\ kept.register => mem.set.register
    /\ proc = "up" /\ ~spoiled =>
          /\ mem.set.url \in {Loaded(file).set.url, flags.url}
          /\ mem.set.register => Loaded(file).set.register

\* A registration policy set through the console is the policy of the next
\* process, as README.md has it.  The code does not keep this.
RegistrationKept ==
    proc = "bootstrap" /\ flags.password = NoPassword =>
        mem.set.register = kept.register
=============================================================================
