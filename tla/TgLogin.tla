------------------------------ MODULE TgLogin ------------------------------
(***************************************************************************)
(* Login: auth.c and 2fa.c under the prompts of AppDelegate.m.             *)
(*                                                                         *)
(* authorize adds an operation that asks the server who the client is, in  *)
(* a loop while the client has a key.  Without one it has the main thread  *)
(* ask for the phone number; the handlers of the prompts then send the     *)
(* code, sign in and check the password, each waiting for its answers on   *)
(* the main thread.  A login that succeeds stores the key and the address, *)
(* with which the next process starts.                                     *)
(*                                                                         *)
(* The server (external) keeps which keys are logged in.  A key belongs to *)
(* the data centre it was made with.  The network comes and goes, and with *)
(* it an answer may be lost.  The account does not move to another data    *)
(* centre once a key is logged in (no USER_MIGRATE).                       *)
(***************************************************************************)
EXTENDS Naturals, Sequences

CONSTANTS
  DC,        \* data centres
  Default,   \* SERVER_IP: where a client without a stored address starts
  Op,        \* operations that one process may start
  MaxRun,    \* bound on the number of processes
  None

ASSUME LoginAssumption ==
  /\ Default \in DC /\ None \notin DC
  /\ MaxRun \in Nat \ {0}

VARIABLES
  home,      \* the data centre of the account
  hasPassword,
  granted,   \* the server: keys that are logged in
  pending,   \* the server: keys whose code was right, waiting for a password
  net,       \* the network can be reached
  run,       \* number of the process
  ip, key,   \* tg->ip and tg->key
  dbIp, dbKey,
  op,        \* per operation: where it is
  main,      \* where the main thread is
  good,      \* the text given to the handler is what it takes it for, and right
  alerts,    \* the prompts on the screen, the last on top
  onDone,    \* self.askInput_onDone
  own,       \* the code that a handler "code" is for was sent to the user
  user,      \* self.authorizedUser
  mixed,     \* history: a text was given to the handler of another prompt
  strayed    \* history: a client that was logged in was redirected

server == <<home, hasPassword, granted, pending>>
client == <<ip, key, dbIp, dbKey, strayed>>
screen == <<alerts, onDone, own, user, mixed>>
vars == <<home, hasPassword, granted, pending, net, run, ip, key, dbIp, dbKey,
          op, main, good, alerts, onDone, own, user, mixed, strayed>>

Key == [dc : DC, no : 1 .. MaxRun]
Prompt == {"phone", "code", "password"}
OpAt == {"idle", "check", "config", "users", "decide", "known", "unknown", "done"}
MainAt == {"idle", "config", "sendCode", "migrate", "signIn", "signInKey",
           "signInIp", "getPassword", "checkPassword", "passwordKey",
           "passwordIp"}

\* tg_new: the address a process starts with.
StartIp_stored(stored) == stored
StartIp(stored) == IF stored = None THEN Default ELSE stored

Init ==
  /\ home \in DC /\ hasPassword \in BOOLEAN
  /\ granted = {} /\ pending = {} /\ net = TRUE /\ run = 1
  /\ ip = StartIp(None) /\ key = None /\ dbIp = None /\ dbKey = None
  /\ op = [o \in Op |-> "idle"] /\ main = "idle" /\ good = FALSE
  /\ alerts = <<>> /\ onDone = None /\ own = FALSE /\ user = FALSE
  /\ mixed = FALSE /\ strayed = FALSE

Goto(o, l) == op' = [op EXCEPT ![o] = l]

\* A query sent now gets to a server that knows the key.
Served == net /\ key # None /\ key.dc = ip

\* It gets no answer: the data centre does not know the key, or the network
\* fails.
Unanswered ==
  \/ net /\ ~Served /\ UNCHANGED net
  \/ net' = FALSE

-----------------------------------------------------------------------------
(* authorize: at the launch, or a tap on the row of the settings, which an *)
(* alert would cover.                                                      *)

authorize(o) ==
  /\ op[o] = "idle" /\ main = "idle" /\ alerts = <<>>
  /\ net
  /\ Goto(o, "check")
  /\ UNCHANGED <<server, net, run, client, main, good, screen>>

\* tg_is_authorized: without a key there is nothing to ask.
IsAuthorized(o) ==
  /\ op[o] = "check"
  /\ Goto(o, IF key = None THEN "decide" ELSE "config")
  /\ UNCHANGED <<server, net, run, client, main, good, screen>>

GetConfig(o) ==
  /\ op[o] = "config"
  /\ Goto(o, IF Served THEN "users" ELSE "decide")
  /\ UNCHANGED <<server, net, run, client, main, good, screen>>

\* users.getUsers returns the user; to a key that is not logged in, an error.
Known_answered == Served
Known == Served /\ key \in granted

GetUsers(o) ==
  /\ op[o] = "users"
  /\ Goto(o, IF Known THEN "known" ELSE "decide")
  /\ UNCHANGED <<server, net, run, client, main, good, screen>>

\* No user was returned.  The key is looked at again: with one, sleep and
\* repeat until there is a user.
AfterNoUser_prompt == "unknown"
AfterNoUser == IF key # None THEN "check" ELSE "unknown"

Decide(o) ==
  /\ op[o] = "decide"
  /\ Goto(o, AfterNoUser)
  /\ UNCHANGED <<server, net, run, client, main, good, screen>>

-----------------------------------------------------------------------------
(* Prompts, on the main thread.                                            *)

\* The handler that is kept when a prompt is shown.
Handler_first(p) == IF onDone = None THEN p ELSE onDone
Handler(p) == p

askInput(p) ==
  /\ onDone' = Handler(p)
  /\ alerts' = Append(alerts, p)

\* The block that an operation leaves for the main thread.
AfterAuthorize(o) ==
  /\ main = "idle"
  /\ \/ /\ op[o] = "known"
        /\ user' = TRUE
        /\ UNCHANGED <<alerts, onDone>>
     \/ /\ op[o] = "unknown"
        /\ askInput("phone")
        /\ UNCHANGED user
  /\ Goto(o, "done")
  /\ UNCHANGED <<server, net, run, client, main, good, own, mixed>>

\* OK on the topmost alert: its text goes to the handler set last.
First(p) ==
  CASE p = "phone" -> "config" [] p = "code" -> "signIn" [] OTHER -> "getPassword"

clickedButton ==
  /\ main = "idle" /\ alerts # <<>>
  /\ LET p == alerts[Len(alerts)] IN
       /\ good' \in IF p = onDone /\ (p = "code" => own) THEN BOOLEAN ELSE {FALSE}
       /\ mixed' = (mixed \/ p # onDone)
  /\ alerts' = SubSeq(alerts, 1, Len(alerts) - 1)
  /\ main' = First(onDone)
  /\ UNCHANGED <<server, net, run, client, op, onDone, own, user>>

-----------------------------------------------------------------------------
(* sendCode.                                                               *)

\* tg_prepare_mtproto makes a key with the data centre at tg->ip when there
\* is none.
NewKey == [dc |-> ip, no |-> run]

\* getConfig, for which a key is made; the network may fail in between.
SendCodeConfig ==
  /\ main = "config"
  /\ LET k == IF key = None /\ net THEN NewKey ELSE key IN
       /\ key' = k
       /\ \/ net /\ k.dc = ip /\ main' = "sendCode" /\ UNCHANGED net
          \/ main' = "idle" /\ net' = FALSE
          \/ net /\ k.dc # ip /\ main' = "idle" /\ UNCHANGED net
  /\ UNCHANGED <<server, run, ip, dbIp, dbKey, strayed, op, good, screen>>

\* auth.sendCode: the code is on its way, for a mistyped number perhaps to
\* someone else ...
tg_auth_sendCode ==
  /\ main = "sendCode" /\ Served /\ (good => ip = home)
  /\ askInput("code")
  /\ own' = good
  /\ main' = "idle"
  /\ UNCHANGED <<server, net, run, client, op, good, user, mixed>>

\* ... or the number is no account's or there is no answer ...
SendCodeFails ==
  /\ main = "sendCode"
  /\ (Served /\ ~good /\ UNCHANGED net) \/ Unanswered
  /\ main' = "idle"
  /\ UNCHANGED <<server, run, client, op, good, screen>>

\* ... or PHONE_MIGRATE to the data centre of the number, which is any for a
\* mistyped one: catched_tl changes the address ...
PhoneMigrate ==
  /\ main = "sendCode" /\ Served
  /\ \E d \in (IF good THEN {home} ELSE DC) \ {ip} : ip' = d
  /\ main' = "migrate"
  /\ strayed' = (strayed \/ key \in granted)
  /\ UNCHANGED <<server, net, run, key, dbIp, dbKey, op, good, screen>>

\* ... stores it, and sends the query to a data centre that does not know the
\* key; the branch of tg_auth_sendCode that drops the key is not reached.
MigrateStored ==
  /\ main = "migrate"
  /\ dbIp' = ip
  /\ main' = "idle"
  /\ UNCHANGED <<server, net, run, ip, key, dbKey, strayed, op, good, screen>>

-----------------------------------------------------------------------------
(* signIn and chechPassword.                                               *)

\* What the server does with a code that is right.
AcceptCode ==
  IF hasPassword
  THEN pending' = pending \cup {key} /\ UNCHANGED granted
  ELSE granted' = granted \cup {key} /\ UNCHANGED pending

\* auth.signIn is answered with an authorization to be stored.
Authorized_anyCode == good
Authorized == good /\ ~hasPassword

tg_auth_signIn ==
  /\ main = "signIn" /\ Served /\ Authorized
  /\ AcceptCode
  /\ main' = "signInKey"
  /\ UNCHANGED <<home, hasPassword, net, run, client, op, good, screen>>

\* NULL: setup_password_required, SESSION_PASSWORD_NEEDED, a wrong code or no
\* answer, the code used or not.  The password is asked for.
SignInFails ==
  /\ main = "signIn"
  /\ \/ Served /\ good /\ AcceptCode /\ UNCHANGED net
     \/ Served /\ good /\ AcceptCode /\ net' = FALSE
     \/ Served /\ ~good /\ UNCHANGED <<granted, pending, net>>
     \/ Unanswered /\ UNCHANGED <<granted, pending>>
  /\ askInput("password")
  /\ main' = "idle"
  /\ UNCHANGED <<home, hasPassword, run, client, op, good, own, user, mixed>>

StoreKey(from, to) ==
  /\ main = from
  /\ dbKey' = key
  /\ main' = to
  /\ UNCHANGED <<server, net, run, ip, key, dbIp, strayed, op, good, screen>>

\* The address that is stored with the key.
StoredIp_default == Default
StoredIp == ip

SignInKey == StoreKey("signInKey", "signInIp")

\* The address is stored, the user is known, and the password is asked for.
SignInIp ==
  /\ main = "signInIp"
  /\ dbIp' = StoredIp
  /\ user' = TRUE
  /\ askInput("password")
  /\ main' = "idle"
  /\ UNCHANGED <<server, net, run, ip, key, dbKey, strayed, op, good, own, mixed>>

\* account.getPassword, answered to a key that is or may be logged in.  An
\* account without a password has no algorithm: see Crash.
tg_account_getPassword ==
  /\ main = "getPassword" /\ Served /\ key \in granted \cup pending
  /\ hasPassword
  /\ main' = "checkPassword"
  /\ UNCHANGED <<server, net, run, client, op, good, screen>>

GetPasswordFails ==
  /\ main = "getPassword"
  /\ \/ Served /\ key \notin granted \cup pending /\ UNCHANGED net
     \/ Unanswered
  /\ main' = "idle"
  /\ UNCHANGED <<server, run, client, op, good, screen>>

AcceptPassword ==
  /\ granted' = granted \cup {key}
  /\ pending' = pending \ {key}

tg_auth_check_password ==
  /\ main = "checkPassword" /\ Served /\ good /\ key \in pending
  /\ AcceptPassword
  /\ main' = "passwordKey"
  /\ UNCHANGED <<home, hasPassword, net, run, client, op, good, screen>>

CheckPasswordFails ==
  /\ main = "checkPassword"
  /\ \/ Served /\ ~(good /\ key \in pending) /\ UNCHANGED <<granted, pending, net>>
     \/ Served /\ good /\ key \in pending /\ AcceptPassword /\ net' = FALSE
     \/ Unanswered /\ UNCHANGED <<granted, pending>>
  /\ main' = "idle"
  /\ UNCHANGED <<home, hasPassword, run, client, op, good, screen>>

PasswordKey == StoreKey("passwordKey", "passwordIp")

PasswordIp ==
  /\ main = "passwordIp"
  /\ dbIp' = StoredIp
  /\ user' = TRUE
  /\ main' = "idle"
  /\ UNCHANGED <<server, net, run, ip, key, dbKey, strayed, op, good, alerts,
                 onDone, own, mixed>>

-----------------------------------------------------------------------------
\* A new process: loadTgLib and tg_new.
Restarted ==
  /\ run < MaxRun
  /\ run' = run + 1
  /\ ip' = StartIp(dbIp) /\ key' = dbKey
  /\ op' = [o \in Op |-> "idle"] /\ main' = "idle" /\ good' = FALSE
  /\ alerts' = <<>> /\ onDone' = None /\ own' = FALSE /\ user' = FALSE
  /\ mixed' = FALSE
  /\ UNCHANGED <<server, net, dbIp, dbKey, strayed>>

\* The process ends at any time ...
Restart == Restarted

\* ... or because tg_auth_check_password follows current_algo_, which is NULL.
Crash ==
  /\ main = "getPassword" /\ Served /\ key \in granted \cup pending
  /\ ~hasPassword
  /\ Restarted

Network ==
  /\ net' = ~net
  /\ UNCHANGED <<server, run, client, op, main, good, screen>>

\* The queries of an operation and of the main thread, which return when
\* they do, and what is done without waiting for anyone.
Query(o) == GetConfig(o) \/ GetUsers(o)
Operation(o) == IsAuthorized(o) \/ Decide(o) \/ AfterAuthorize(o)

MainQuery ==
  \/ SendCodeConfig \/ tg_auth_sendCode \/ SendCodeFails \/ PhoneMigrate
  \/ tg_auth_signIn \/ SignInFails
  \/ tg_account_getPassword \/ GetPasswordFails \/ tg_auth_check_password
  \/ CheckPasswordFails \/ Crash
MainThread ==
  MigrateStored \/ SignInKey \/ SignInIp \/ PasswordKey \/ PasswordIp

Next ==
  \/ \E o \in Op : authorize(o) \/ Query(o) \/ Operation(o)
  \/ clickedButton
  \/ MainQuery \/ MainThread
  \/ Restart
  \/ Network

Spec == Init /\ [][Next]_vars
\* Threads are scheduled; nothing is assumed of the queries, and the user may
\* do nothing.
FairSpec ==
  /\ Spec
  /\ \A o \in Op : WF_vars(Operation(o))
  /\ WF_vars(MainThread)

-----------------------------------------------------------------------------
(* Properties.                                                             *)

\* The type of the state.
LoginTypeOK ==
  /\ home \in DC /\ hasPassword \in BOOLEAN
  /\ granted \subseteq Key /\ pending \subseteq Key
  /\ net \in BOOLEAN /\ run \in 1 .. MaxRun
  /\ ip \in DC /\ key \in Key \cup {None}
  /\ dbIp \in DC \cup {None} /\ dbKey \in Key \cup {None}
  /\ op \in [Op -> OpAt] /\ main \in MainAt /\ good \in BOOLEAN
  /\ alerts \in Seq(Prompt) /\ onDone \in Prompt \cup {None}
  /\ own \in BOOLEAN /\ user \in BOOLEAN
  /\ mixed \in BOOLEAN /\ strayed \in BOOLEAN

\* A key is stored only when the server has logged it in, also when a code
\* was right but the password is missing: authorize of the next process
\* repeats its question for ever with any other key.
StoredKeyGranted == dbKey # None => dbKey \in granted

\* The next process finds the data centre of the stored key, whatever
\* redirects there were before the login and wherever the process ended.  A
\* client that is logged in can only be led away when a second authorize still
\* asks for a number and is given one of another data centre.
StoredAddressFits == dbKey # None => StartIp(dbIp) = dbKey.dc \/ strayed

\* A client that is shown as authorized has a key that the server has logged
\* in and, unless it was led away, talks to its own data centre.
UserIsGranted == user => key \in granted /\ (key.dc = ip \/ strayed)

Started == {o \in Op : op[o] # "idle"}

\* The text of a prompt goes to its own handler as long as authorize was
\* called once; askInput_onDone holds one handler only.
TextMeetsPrompt == mixed => \E o1, o2 \in Started : o1 # o2

\* With a key that is logged in authorize gets the user once the network is
\* back for good, however often its queries failed before, unless the process
\* ends or the client is led away.  Its queries have to return, and those of
\* the main thread: one that waits in recv when the network fails never does.
KnownClientLogsIn ==
  \A o \in Op :
    <>[]net /\ []<>(op[o] \notin {"config", "users"}) /\ []<>(main = "idle") =>
      ((op[o] = "check" /\ key \in granted) ~> (user \/ op[o] = "idle" \/ strayed))

-----------------------------------------------------------------------------
(* What makes them inductive.                                              *)

KeyGranted == key # None /\ key \in granted

\* Only the data centre of the account logs in.
GrantedAtHome == \A k \in granted \cup pending : k.dc = home

\* The code that the user gets is asked for, and a right one entered, at that
\* data centre.
CodeAtHome ==
  /\ onDone = "code" /\ own => ip = home
  /\ main = "signIn" /\ good => ip = home
  /\ main \in {"config", "sendCode", "migrate"} => onDone = "phone"

\* The address in use is the stored one, but in the middle of a redirect.
IpStored == main # "migrate" => ip = StartIp(dbIp)

\* A client that is logged in is not redirected, or it is known to be.
GrantedStays == KeyGranted => (ip = home /\ main # "migrate") \/ strayed

\* A stored key is in use.
StoredInUse == dbKey # None => key = dbKey /\ KeyGranted

\* Between an answer and the end of its handling the key is logged in.
AnswerGranted ==
  /\ main \in {"signInKey", "signInIp", "passwordKey", "passwordIp"} => KeyGranted
  /\ \A o \in Op : op[o] = "known" => KeyGranted
  /\ user => KeyGranted

LoginInv ==
  /\ GrantedAtHome /\ CodeAtHome /\ IpStored /\ GrantedStays
  /\ StoredInUse /\ AnswerGranted

\* After one call of authorize there is one prompt at a time: an operation, a
\* handler and a prompt exclude each other.
OnePrompt ==
  (\A o1, o2 \in Started : o1 = o2) =>
    /\ ~mixed
    /\ alerts = <<>> \/ alerts = <<onDone>>
    /\ main # "idle" => alerts = <<>>
    /\ \A o \in Op : op[o] \notin {"idle", "done"} => alerts = <<>> /\ main = "idle"
=============================================================================
