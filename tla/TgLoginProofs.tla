---------------------------- MODULE TgLoginProofs ----------------------------
(***************************************************************************)
(* Theorems about the login (module TgLogin), for every number of data     *)
(* centres, calls of authorize and processes.                              *)
(***************************************************************************)
EXTENDS TgLogin, TLAPS

\* A step is one of the actions.
LEMMA StepCases ==
  ASSUME Next
  PROVE  \/ \E o \in Op :
              \/ authorize(o) \/ IsAuthorized(o) \/ GetConfig(o) \/ GetUsers(o)
              \/ Decide(o) \/ AfterAuthorize(o)
         \/ clickedButton \/ SendCodeConfig \/ tg_auth_sendCode
         \/ SendCodeFails \/ PhoneMigrate \/ MigrateStored \/ tg_auth_signIn
         \/ SignInFails \/ SignInKey \/ SignInIp \/ tg_account_getPassword
         \/ GetPasswordFails \/ tg_auth_check_password \/ CheckPasswordFails
         \/ PasswordKey \/ PasswordIp \/ Crash \/ Restart \/ Network
BY DEF Next, Query, Operation, MainQuery, MainThread

\* The prompts on the screen stay prompts.
LEMMA AppendType ==
  ASSUME LoginTypeOK, NEW p \in Prompt
  PROVE  Append(alerts, p) \in Seq(Prompt)
BY DEF LoginTypeOK

\* A sequence without its last element.
LEMMA SubSeqFront ==
  ASSUME NEW S, NEW s \in Seq(S), NEW n \in Nat, n <= Len(s)
  PROVE  /\ SubSeq(s, 1, n) \in Seq(S)
         /\ Len(SubSeq(s, 1, n)) = n
         /\ \A i \in 1 .. n : SubSeq(s, 1, n)[i] = s[i]
<1>1. SubSeq(s, 1, n) \in Seq(S)
  OBVIOUS
<1>2. Len(SubSeq(s, 1, n)) = n
  OBVIOUS
<1>3. \A i \in 1 .. n : SubSeq(s, 1, n)[i] = s[i]
  OBVIOUS
<1> QED
  BY <1>1, <1>2, <1>3

\* Taking the topmost prompt off leaves the others as they were.
LEMMA PoppedType ==
  ASSUME LoginTypeOK, alerts # <<>>,
         alerts' = SubSeq(alerts, 1, Len(alerts) - 1)
  PROVE  /\ Len(alerts) \in 1 .. Len(alerts)
         /\ alerts' \in Seq(Prompt)
         /\ \A i \in 1 .. Len(alerts') : i \in 1 .. Len(alerts) /\ alerts'[i] = alerts[i]
<1>1. alerts \in Seq(Prompt) /\ Len(alerts) \in Nat \ {0}
  BY DEF LoginTypeOK
<1>2. Len(alerts) - 1 \in Nat /\ Len(alerts) - 1 <= Len(alerts)
  BY <1>1
<1>3. /\ alerts' \in Seq(Prompt)
      /\ Len(alerts') = Len(alerts) - 1
      /\ \A i \in 1 .. Len(alerts) - 1 : alerts'[i] = alerts[i]
  BY <1>1, <1>2, SubSeqFront
<1> QED
  BY <1>1, <1>3

\* A new process starts in a state of the right type.
LEMMA RestartType ==
  ASSUME LoginTypeOK, Restarted
  PROVE  LoginTypeOK'
<1> USE LoginAssumption DEF LoginTypeOK
<1>1. ip' \in DC /\ key' \in Key \cup {None} /\ run' \in 1 .. MaxRun
  BY DEF Restarted, StartIp
<1>2. op' \in [Op -> OpAt] /\ main' \in MainAt
  BY DEF Restarted, OpAt, MainAt
<1>3. alerts' \in Seq(Prompt) /\ onDone' \in Prompt \cup {None}
  BY DEF Restarted
<1>4. good' \in BOOLEAN /\ user' \in BOOLEAN /\ mixed' \in BOOLEAN
  BY DEF Restarted
<1> QED
  BY <1>1, <1>2, <1>3, <1>4 DEF Restarted, server

\* Every action keeps the type.
LEMMA TypeStep ==
  ASSUME LoginTypeOK, [Next]_vars
  PROVE  LoginTypeOK'
<1> USE LoginAssumption DEF LoginTypeOK, Key, Prompt, OpAt, MainAt, server,
        client, screen, Goto
<1>1. ASSUME NEW o \in Op, authorize(o) PROVE LoginTypeOK'
  BY <1>1 DEF authorize
<1>2. ASSUME NEW o \in Op, IsAuthorized(o) PROVE LoginTypeOK'
  BY <1>2 DEF IsAuthorized
<1>3. ASSUME NEW o \in Op, GetConfig(o) PROVE LoginTypeOK'
  BY <1>3 DEF GetConfig, Served
<1>4. ASSUME NEW o \in Op, GetUsers(o) PROVE LoginTypeOK'
  BY <1>4 DEF GetUsers, Known, Served
<1>5. ASSUME NEW o \in Op, Decide(o) PROVE LoginTypeOK'
  BY <1>5 DEF Decide, AfterNoUser
<1>6. ASSUME NEW o \in Op, AfterAuthorize(o) PROVE LoginTypeOK'
  <2>1. alerts' \in Seq(Prompt) /\ onDone' \in Prompt \cup {None}
    BY <1>6, AppendType DEF AfterAuthorize, askInput, Handler
  <2>2. user' \in BOOLEAN /\ op' \in [Op -> OpAt]
    BY <1>6 DEF AfterAuthorize
  <2> QED
    BY <2>1, <2>2, <1>6 DEF AfterAuthorize
<1>7. CASE clickedButton
  <2>1. good' \in BOOLEAN
    BY <1>7 DEF clickedButton
  <2>2. mixed' \in BOOLEAN
    BY <1>7 DEF clickedButton
  <2>3. alerts' \in Seq(Prompt)
    BY <1>7, PoppedType DEF clickedButton
  <2>4. main' \in MainAt
    BY <1>7 DEF clickedButton, First
  <2> QED
    BY <2>1, <2>2, <2>3, <2>4, <1>7 DEF clickedButton
<1>8. CASE SendCodeConfig
  <2>1. net' \in BOOLEAN /\ main' \in MainAt
    BY <1>8 DEF SendCodeConfig
  <2>2. key' \in Key \cup {None}
    BY <1>8 DEF SendCodeConfig, NewKey
  <2> QED
    BY <2>1, <2>2, <1>8 DEF SendCodeConfig
<1>9. CASE tg_auth_sendCode
  BY <1>9 DEF tg_auth_sendCode, askInput, Handler, Served
<1>10. CASE SendCodeFails
  <2>1. net' \in BOOLEAN
    BY <1>10 DEF SendCodeFails, Unanswered
  <2> QED
    BY <2>1, <1>10 DEF SendCodeFails
<1>11. CASE PhoneMigrate
  BY <1>11 DEF PhoneMigrate, Served
<1>12. CASE MigrateStored
  BY <1>12 DEF MigrateStored
<1>13. CASE tg_auth_signIn
  BY <1>13 DEF tg_auth_signIn, AcceptCode, Served, Authorized
<1>14. CASE SignInFails
  <2>1. granted' \subseteq Key /\ pending' \subseteq Key
    BY <1>14 DEF SignInFails, AcceptCode, Served, Unanswered
  <2>2. net' \in BOOLEAN
    BY <1>14 DEF SignInFails, Unanswered
  <2>3. alerts' \in Seq(Prompt) /\ onDone' \in Prompt \cup {None}
    BY <1>14, AppendType DEF SignInFails, askInput, Handler
  <2> QED
    BY <2>1, <2>2, <2>3, <1>14 DEF SignInFails
<1>15. CASE SignInKey
  BY <1>15 DEF SignInKey, StoreKey
<1>16. CASE SignInIp
  BY <1>16 DEF SignInIp, StoredIp, askInput, Handler
<1>17. CASE tg_account_getPassword
  BY <1>17 DEF tg_account_getPassword
<1>18. CASE GetPasswordFails
  <2>1. net' \in BOOLEAN
    BY <1>18 DEF GetPasswordFails, Unanswered
  <2> QED
    BY <2>1, <1>18 DEF GetPasswordFails
<1>19. CASE tg_auth_check_password
  BY <1>19 DEF tg_auth_check_password, AcceptPassword, Served
<1>20. CASE CheckPasswordFails
  <2>1. net' \in BOOLEAN
    BY <1>20 DEF CheckPasswordFails, Unanswered
  <2>2. granted' \subseteq Key /\ pending' \subseteq Key
    BY <1>20 DEF CheckPasswordFails, AcceptPassword, Served, Unanswered
  <2> QED
    BY <2>1, <2>2, <1>20 DEF CheckPasswordFails
<1>21. CASE PasswordKey
  BY <1>21 DEF PasswordKey, StoreKey
<1>22. CASE PasswordIp
  BY <1>22 DEF PasswordIp, StoredIp
<1>23. CASE Crash
  BY <1>23, RestartType DEF Crash
<1>24. CASE Restart
  BY <1>24, RestartType DEF Restart
<1>25. CASE Network
  BY <1>25 DEF Network
<1>26. CASE UNCHANGED vars
  BY <1>26 DEF vars
<1> QED
  BY StepCases, <1>1, <1>2, <1>3, <1>4, <1>5, <1>6, <1>7, <1>8, <1>9, <1>10, <1>11, <1>12, <1>13, <1>14, <1>15, <1>16, <1>17, <1>18, <1>19, <1>20, <1>21, <1>22, <1>23, <1>24, <1>25, <1>26

\* Every action keeps the invariant.
LEMMA InvStep ==
  ASSUME LoginTypeOK, LoginInv, [Next]_vars
  PROVE  LoginInv'
<1> USE LoginAssumption DEF LoginTypeOK, Key, server, client, screen, Goto,
        LoginInv, KeyGranted, GrantedAtHome, CodeAtHome, IpStored,
        GrantedStays, StoredInUse, AnswerGranted, StartIp
<1>1. ASSUME NEW o \in Op, authorize(o) PROVE LoginInv'
  BY <1>1 DEF authorize
<1>2. ASSUME NEW o \in Op, IsAuthorized(o) PROVE LoginInv'
  BY <1>2 DEF IsAuthorized
<1>3. ASSUME NEW o \in Op, GetConfig(o) PROVE LoginInv'
  BY <1>3 DEF GetConfig, Served
<1>4. ASSUME NEW o \in Op, GetUsers(o) PROVE LoginInv'
  BY <1>4 DEF GetUsers, Known, Served
<1>5. ASSUME NEW o \in Op, Decide(o) PROVE LoginInv'
  BY <1>5 DEF Decide, AfterNoUser
<1>6. ASSUME NEW o \in Op, AfterAuthorize(o) PROVE LoginInv'
  BY <1>6 DEF AfterAuthorize, askInput, Handler
<1>7. CASE clickedButton
  <2>1. main' = First(onDone)
    BY <1>7 DEF clickedButton
  <2>2. ASSUME main' = "signIn", good' PROVE ip' = home'
    <3>1. onDone = "code"
      BY <2>1, <2>2 DEF First, Prompt
    <3>2. alerts[Len(alerts)] = onDone /\ (alerts[Len(alerts)] = "code" => own)
      BY <2>2, <1>7, Zenon DEF clickedButton
    <3> QED
      BY <3>1, <3>2, <1>7 DEF clickedButton
  <2>3. CodeAtHome'
    BY <2>1, <2>2, <1>7 DEF clickedButton, First
  <2>4. main' \in {"config", "signIn", "getPassword"}
    BY <2>1 DEF First
  <2> QED
    BY <2>3, <2>4, <1>7 DEF clickedButton
<1>8. CASE SendCodeConfig
  BY <1>8 DEF SendCodeConfig, NewKey
<1>9. CASE tg_auth_sendCode
  BY <1>9 DEF tg_auth_sendCode, askInput, Handler, Served
<1>10. CASE SendCodeFails
  BY <1>10 DEF SendCodeFails, Unanswered
<1>11. CASE PhoneMigrate
  BY <1>11 DEF PhoneMigrate, Served
<1>12. CASE MigrateStored
  BY <1>12 DEF MigrateStored
<1>13. CASE tg_auth_signIn
  BY <1>13 DEF tg_auth_signIn, AcceptCode, Served, Authorized
<1>14. CASE SignInFails
  BY <1>14 DEF SignInFails, AcceptCode, Served, Unanswered, askInput, Handler
<1>15. CASE SignInKey
  BY <1>15 DEF SignInKey, StoreKey
<1>16. CASE SignInIp
  BY <1>16 DEF SignInIp, StoredIp, askInput, Handler
<1>17. CASE tg_account_getPassword
  BY <1>17 DEF tg_account_getPassword
<1>18. CASE GetPasswordFails
  BY <1>18 DEF GetPasswordFails, Unanswered
<1>19. CASE tg_auth_check_password
  BY <1>19 DEF tg_auth_check_password, AcceptPassword, Served
<1>20. CASE CheckPasswordFails
  BY <1>20 DEF CheckPasswordFails, AcceptPassword, Served, Unanswered
<1>21. CASE PasswordKey
  BY <1>21 DEF PasswordKey, StoreKey
<1>22. CASE PasswordIp
  BY <1>22 DEF PasswordIp, StoredIp
<1>23. CASE Crash
  BY <1>23 DEF Crash, Restarted, StartIp
<1>24. CASE Restart
  BY <1>24 DEF Restart, Restarted, StartIp
<1>25. CASE Network
  BY <1>25 DEF Network
<1>26. CASE UNCHANGED vars
  BY <1>26 DEF vars
<1> QED
  BY StepCases, <1>1, <1>2, <1>3, <1>4, <1>5, <1>6, <1>7, <1>8, <1>9, <1>10, <1>11, <1>12, <1>13, <1>14, <1>15, <1>16, <1>17, <1>18, <1>19, <1>20, <1>21, <1>22, <1>23, <1>24, <1>25, <1>26

\* The first state satisfies the invariant.
LEMMA InitInv ==
  ASSUME Init
  PROVE  LoginTypeOK /\ LoginInv
<1> USE LoginAssumption DEF Init, StartIp
<1>1. LoginTypeOK
  <2>1. alerts \in Seq(Prompt) /\ onDone \in Prompt \cup {None}
    OBVIOUS
  <2>2. op \in [Op -> OpAt] /\ main \in MainAt
    BY DEF OpAt, MainAt
  <2>3. run \in 1 .. MaxRun /\ ip \in DC
    OBVIOUS
  <2> QED
    BY <2>1, <2>2, <2>3 DEF LoginTypeOK
<1>2. LoginInv
  BY DEF LoginInv, KeyGranted, GrantedAtHome, CodeAtHome, IpStored,
         GrantedStays, StoredInUse, AnswerGranted
<1> QED
  BY <1>1, <1>2

\* The state of the login stays in its type, through any number of crashes
\* and restarts.
THEOREM LoginTypeCorrect == Spec => []LoginTypeOK
<1>1. Init => LoginTypeOK
  BY InitInv
<1>2. LoginTypeOK /\ [Next]_vars => LoginTypeOK'
  BY TypeStep
<1> QED
  BY <1>1, <1>2, PTL DEF Spec

\* The inductive invariant: only keys made with the data centre of the account
\* are ever logged in, and a client whose key is logged in keeps its address
\* unless a second prompt for a number leads it away.
THEOREM LoginCorrect == Spec => [](LoginTypeOK /\ LoginInv)
<1>1. Init => LoginTypeOK /\ LoginInv
  BY InitInv
<1>2. LoginTypeOK /\ LoginInv /\ [Next]_vars => (LoginTypeOK /\ LoginInv)'
  BY TypeStep, InvStep
<1> QED
  BY <1>1, <1>2, PTL DEF Spec

\* Whatever crashes, lost answers and redirects come in between, the key that
\* auth_key_to_database stored is one the server has logged in.
THEOREM StoredKeyGrantedHolds == Spec => []StoredKeyGranted
<1>1. LoginTypeOK /\ LoginInv => StoredKeyGranted
  BY DEF LoginInv, StoredInUse, KeyGranted, StoredKeyGranted
<1> QED
  BY <1>1, LoginCorrect, PTL

\* tg_new of the next process takes the stored key to the data centre it was
\* made with, although key and address are stored in two steps and redirects
\* store an address too, unless the client was logged in and led away.
THEOREM StoredAddressFitsHolds == Spec => []StoredAddressFits
<1>1. LoginTypeOK /\ LoginInv => StoredAddressFits
  BY DEF LoginInv, StoredInUse, KeyGranted, GrantedStays, GrantedAtHome,
         IpStored, StoredAddressFits
<1> QED
  BY <1>1, LoginCorrect, PTL

\* authorizedUser is only set on a client that is logged in, with a key of the
\* data centre it talks to unless it was led away.
THEOREM UserIsGrantedHolds == Spec => []UserIsGranted
<1>1. LoginTypeOK /\ LoginInv => UserIsGranted
  BY DEF LoginInv, AnswerGranted, KeyGranted, GrantedStays, GrantedAtHome,
         UserIsGranted
<1> QED
  BY <1>1, LoginCorrect, PTL

(***************************************************************************)
(* The handler of a prompt.                                                *)
(***************************************************************************)

\* What a step of the main thread does to the prompts.
LEMMA MainMoves ==
  ASSUME LoginTypeOK,
         \/ SendCodeConfig \/ tg_auth_sendCode \/ SendCodeFails \/ PhoneMigrate
         \/ MigrateStored \/ tg_auth_signIn \/ SignInFails \/ SignInKey
         \/ SignInIp \/ tg_account_getPassword \/ GetPasswordFails
         \/ tg_auth_check_password \/ CheckPasswordFails \/ PasswordKey
         \/ PasswordIp
  PROVE  /\ main # "idle" /\ UNCHANGED <<op, mixed>>
         /\ \/ UNCHANGED <<alerts, onDone>>
            \/ main' = "idle" /\ \E p \in Prompt : askInput(p)
<1>1. CASE tg_auth_sendCode \/ SignInFails \/ SignInIp
  BY <1>1 DEF tg_auth_sendCode, SignInFails, SignInIp, Prompt
<1>2. CASE \/ SendCodeConfig \/ SendCodeFails \/ PhoneMigrate \/ MigrateStored
           \/ tg_auth_signIn \/ SignInKey
  BY <1>2 DEF SendCodeConfig, SendCodeFails, PhoneMigrate, MigrateStored,
              tg_auth_signIn, SignInKey, StoreKey, screen
<1>3. CASE \/ tg_account_getPassword \/ GetPasswordFails
           \/ tg_auth_check_password \/ CheckPasswordFails \/ PasswordKey
           \/ PasswordIp
  BY <1>3 DEF tg_account_getPassword, GetPasswordFails, tg_auth_check_password,
              CheckPasswordFails, PasswordKey, PasswordIp, StoreKey, screen
<1> QED
  BY <1>1, <1>2, <1>3

\* A prompt on an empty screen is the only one and has the handler kept.
LEMMA AskFacts ==
  ASSUME alerts = <<>>, NEW p, askInput(p)
  PROVE  alerts' = <<onDone'>>
<1>1. Append(<<>>, p) = <<p>>
  OBVIOUS
<1> QED
  BY <1>1 DEF askInput, Handler

\* With one call of authorize every step leaves at most one prompt.
LEMMA PromptStep ==
  ASSUME LoginTypeOK, OnePrompt, [Next]_vars
  PROVE  OnePrompt'
<1> SUFFICES ASSUME \A o1, o2 \in Started' : o1 = o2
             PROVE  /\ ~mixed'
                    /\ alerts' = <<>> \/ alerts' = <<onDone'>>
                    /\ main' # "idle" => alerts' = <<>>
                    /\ \A o \in Op : op'[o] \notin {"idle", "done"} =>
                                       alerts' = <<>> /\ main' = "idle"
  BY DEF OnePrompt
<1> DEFINE Goal == /\ ~mixed'
                   /\ alerts' = <<>> \/ alerts' = <<onDone'>>
                   /\ main' # "idle" => alerts' = <<>>
                   /\ \A o \in Op : op'[o] \notin {"idle", "done"} =>
                                      alerts' = <<>> /\ main' = "idle"
<1>1. ASSUME Started \subseteq Started'
      PROVE  /\ ~mixed
             /\ alerts = <<>> \/ alerts = <<onDone>>
             /\ main # "idle" => alerts = <<>>
             /\ \A o \in Op : op[o] \notin {"idle", "done"} =>
                                alerts = <<>> /\ main = "idle"
  BY <1>1 DEF OnePrompt
<1>2. ASSUME NEW o \in Op, NEW l \in OpAt \ {"idle"}, Goto(o, l)
      PROVE  /\ Started' = Started \cup {o} /\ op'[o] = l
             /\ \A x \in Op : x # o => op'[x] = op[x] /\ op'[x] = "idle"
  <2>1. op'[o] = l /\ \A x \in Op : x # o => op'[x] = op[x]
    BY <1>2 DEF Goto, LoginTypeOK
  <2>2. Started' = Started \cup {o}
    BY <1>2, <2>1 DEF Started
  <2>3. \A x \in Op : x # o => x \notin Started'
    BY <2>2
  <2> QED
    BY <2>1, <2>2, <2>3 DEF Started
<1>3. ASSUME NEW o \in Op, authorize(o) PROVE Goal
  <2>1. alerts' = <<>> /\ main' = "idle" /\ UNCHANGED mixed /\ Goto(o, "check")
    BY <1>3 DEF authorize, screen
  <2>2. Started \subseteq Started'
    BY <1>2, <2>1 DEF OpAt
  <2> QED
    BY <1>1, <2>1, <2>2
<1>4. ASSUME NEW o \in Op,
             IsAuthorized(o) \/ GetConfig(o) \/ GetUsers(o) \/ Decide(o)
      PROVE  Goal
  <2>1. /\ \E l \in OpAt \ {"idle"} : Goto(o, l)
        /\ op[o] \in {"check", "config", "users", "decide"}
        /\ UNCHANGED <<alerts, onDone, mixed, main>>
    BY <1>4 DEF IsAuthorized, GetConfig, GetUsers, Decide, AfterNoUser, OpAt,
                screen
  <2>2. Started \subseteq Started'
    BY <1>2, <2>1
  <2>3. alerts = <<>> /\ main = "idle" /\ ~mixed
    BY <1>1, <2>1, <2>2
  <2> QED
    BY <2>1, <2>3
<1>5. ASSUME NEW o \in Op, AfterAuthorize(o) PROVE Goal
  <2>1. /\ Goto(o, "done") /\ op[o] \in {"known", "unknown"}
        /\ UNCHANGED <<alerts, onDone>> \/ askInput("phone")
        /\ UNCHANGED <<mixed, main>>
    BY <1>5 DEF AfterAuthorize
  <2>2. /\ Started \subseteq Started' /\ op'[o] = "done"
        /\ \A x \in Op : x # o => op'[x] = "idle"
    BY <1>2, <2>1 DEF OpAt
  <2>3. alerts = <<>> /\ main = "idle" /\ ~mixed
    BY <1>1, <2>1, <2>2
  <2>4. alerts' = <<>> \/ alerts' = <<onDone'>>
    BY <2>1, <2>3, AskFacts
  <2> QED
    BY <2>1, <2>2, <2>3, <2>4
<1>6. CASE clickedButton
  <2>1. /\ alerts # <<>> /\ alerts' = SubSeq(alerts, 1, Len(alerts) - 1)
        /\ UNCHANGED <<op, onDone>> /\ main = "idle"
        /\ mixed' <=> (mixed \/ alerts[Len(alerts)] # onDone)
    BY <1>6, Zenon DEF clickedButton
  <2>2. Started \subseteq Started'
    BY <2>1 DEF Started
  <2>3. alerts = <<onDone>> /\ ~mixed /\ \A o \in Op : op[o] \in {"idle", "done"}
    BY <1>1, <2>1, <2>2
  <2>4. Len(alerts) = 1 /\ alerts[1] = onDone
    BY <2>3
  <2>5. alerts' = <<>>
    BY <2>1, <2>4 DEF LoginTypeOK
  <2>6. ~mixed'
    BY <2>1, <2>3, <2>4
  <2> QED
    BY <2>1, <2>3, <2>5, <2>6
<1>7. ASSUME \/ SendCodeConfig \/ tg_auth_sendCode \/ SendCodeFails
             \/ PhoneMigrate \/ MigrateStored \/ tg_auth_signIn \/ SignInFails
             \/ SignInKey \/ SignInIp \/ tg_account_getPassword
             \/ GetPasswordFails \/ tg_auth_check_password
             \/ CheckPasswordFails \/ PasswordKey \/ PasswordIp
      PROVE  Goal
  <2>1. /\ main # "idle" /\ UNCHANGED <<op, mixed>>
        /\ \/ UNCHANGED <<alerts, onDone>>
           \/ main' = "idle" /\ \E p \in Prompt : askInput(p)
    BY <1>7, MainMoves
  <2>2. Started \subseteq Started'
    BY <2>1 DEF Started
  <2>3. ~mixed /\ alerts = <<>> /\ \A o \in Op : op[o] \in {"idle", "done"}
    BY <1>1, <2>1, <2>2
  <2>4. alerts' = <<>> \/ (alerts' = <<onDone'>> /\ main' = "idle")
    BY <2>1, <2>3, AskFacts
  <2> QED
    BY <2>1, <2>3, <2>4
<1>8. CASE Crash \/ Restart
  BY <1>8 DEF Crash, Restart, Restarted
<1>9. CASE Network \/ UNCHANGED vars
  <2>1. UNCHANGED <<op, mixed, alerts, onDone, main>>
    BY <1>9 DEF Network, vars, screen
  <2>2. Started \subseteq Started'
    BY <2>1 DEF Started
  <2> QED
    BY <1>1, <2>1, <2>2
<1> QED
  BY <1>3, <1>4, <1>5, <1>6, <1>7, <1>8, <1>9, StepCases

\* As long as authorize was called once, the text of a prompt goes to the
\* handler of that prompt, through any number of redirects and lost answers.
THEOREM TextMeetsPromptHolds == Spec => []TextMeetsPrompt
<1>1. Init => OnePrompt
  BY DEF Init, OnePrompt
<1>2. OnePrompt => TextMeetsPrompt
  BY DEF OnePrompt, TextMeetsPrompt
<1>3. LoginTypeOK /\ OnePrompt /\ [Next]_vars => OnePrompt'
  BY PromptStep
<1> QED
  BY <1>1, <1>2, <1>3, LoginTypeCorrect, PTL DEF Spec
=============================================================================
