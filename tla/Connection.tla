----------------------------- MODULE Connection -----------------------------
(***************************************************************************)
(* Signing in and out (app/app.cpp): the login fields, the worker thread   *)
(* that fetches the catalogue, the hand-over of its answer to the UI       *)
(* thread, the catalogue and the client that belong to one account, the    *)
(* saved portal, and closing and starting the application.                  *)
(*                                                                         *)
(* An account stands for portal URL, user name and password together.      *)
(* The provider, the portal file and the thread's speed are external.      *)
(***************************************************************************)
EXTENDS Integers

CONSTANTS Accounts, NoAccount

ASSUME AccountsAssumption == NoAccount \notin Accounts

VARIABLES
  stage,              \* Login, Connecting or Browsing; Closed between runs
  typed,              \* portal_url_, username_ and password_
  credentials,        \* credentials_
  worker,             \* connect_thread_: None, Fetching, Answering or Ended
  fetching,           \* the credentials the worker copied
  answer,             \* connect_catalog_, of an account, or connect_error_
  connect_done,       \* connect_done_
  client, catalog,    \* of which account client_ and channels_ are
  playing,            \* whose stream the player is given
  portal,              \* the portal file
  accepted            \* history: accounts a provider has accepted

uiVars      == <<typed, credentials, client, catalog, playing>>
threadVars  == <<worker, fetching, answer, connect_done>>
connectVars == <<stage, uiVars, threadVars, portal, accepted>>

Maybe == {NoAccount} \cup Accounts
Error == "Error"

ConnectInit ==
  /\ stage = "Login" /\ typed = NoAccount /\ credentials = NoAccount
  /\ client = NoAccount /\ catalog = NoAccount /\ playing = NoAccount
  /\ worker = "None" /\ fetching = NoAccount /\ answer = NoAccount
  /\ connect_done = FALSE
  /\ portal = NoAccount /\ accepted = {}

-----------------------------------------------------------------------------
(* The login screen, which is up while connecting too.                     *)

ScreenUp == stage \in {"Login", "Connecting"}

Edit ==
  /\ ScreenUp /\ typed' \in Maybe
  /\ UNCHANGED <<stage, credentials, client, catalog, playing, threadVars, portal, accepted>>

\* Mutant: Enter in a field submits while a connection is under way.
MaySubmitAgain == ScreenUp
MaySubmit == ScreenUp /\ stage # "Connecting"

\* begin_connect: the flag is cleared before an earlier thread is joined.
BeginConnect ==
  /\ MaySubmit /\ typed # NoAccount /\ worker # "Fetching"
  /\ credentials' = typed /\ stage' = "Connecting"
  /\ connect_done' = (worker = "Answering")
  /\ worker' = "Fetching" /\ fetching' = typed
  /\ UNCHANGED <<typed, client, catalog, playing, answer, portal, accepted>>

-----------------------------------------------------------------------------
(* The worker thread.                                                      *)

WorkerAnswers ==
  /\ worker = "Fetching" /\ worker' = "Answering"
  /\ answer' \in {fetching, Error}
  /\ accepted' = accepted \cup ({answer'} \cap Accounts)
  /\ UNCHANGED <<stage, uiVars, fetching, connect_done, portal>>

WorkerEnds ==
  /\ worker = "Answering" /\ worker' = "Ended" /\ connect_done' = TRUE
  /\ UNCHANGED <<stage, uiVars, fetching, answer, portal, accepted>>

-----------------------------------------------------------------------------
(* The UI thread takes the answer.                                         *)

\* save_portal, which may fail, once the provider has accepted.
Save(rejected) == IF rejected THEN UNCHANGED portal ELSE portal' \in {portal, typed}

\* Mutant: the client is made from the fields.
ClientFromFields == typed
ClientCredentials == credentials

\* finish_connect
FinishConnect ==
  /\ stage # "Closed" /\ connect_done
  /\ connect_done' = FALSE /\ worker' = "None"
  /\ IF answer = Error
     THEN stage' = "Login" /\ UNCHANGED <<client, catalog>>
     ELSE stage' = "Browsing" /\ client' = ClientCredentials /\ catalog' = answer
  /\ Save(answer = Error)
  /\ UNCHANGED <<typed, credentials, fetching, answer, playing, accepted>>

-----------------------------------------------------------------------------
(* Browsing.                                                               *)

\* play asks client_ for the URL.
Play ==
  /\ stage = "Browsing" /\ client # NoAccount /\ playing' = client
  /\ UNCHANGED <<stage, typed, credentials, client, catalog, threadVars, portal, accepted>>

\* Mutant: the channel goes on behind the login screen.
PlaysOn(account) == account
\* sign_out stops the player itself.
PlayingAfterSignOut(account) == NoAccount

\* sign_out; the file may resist.
SignOut ==
  /\ stage = "Browsing" /\ stage' = "Login"
  /\ typed' = NoAccount /\ client' = NoAccount /\ catalog' = NoAccount
  /\ playing' = PlayingAfterSignOut(playing)
  /\ portal' \in {portal, NoAccount}
  /\ UNCHANGED <<credentials, threadVars, accepted>>

-----------------------------------------------------------------------------
(* Closing and starting.                                                   *)

\* The window's close ends the loop; shutdown joins the worker.
Close ==
  /\ stage # "Closed" /\ worker \notin {"Fetching", "Answering"}
  /\ stage' = "Closed"
  /\ UNCHANGED <<uiVars, threadVars, portal, accepted>>

\* initialize: load_saved_portal, which may fail, fills the fields and
\* connects nothing.
Start ==
  /\ stage = "Closed" /\ stage' = "Login"
  /\ typed' \in {NoAccount, portal} /\ credentials' = NoAccount
  /\ client' = NoAccount /\ catalog' = NoAccount /\ playing' = NoAccount
  /\ worker' = "None" /\ fetching' = NoAccount /\ answer' = NoAccount
  /\ connect_done' = FALSE
  /\ UNCHANGED <<portal, accepted>>

\* The process is killed and started again.
Crash ==
  /\ stage # "Closed" /\ stage' = "Closed"
  /\ worker' = "None" /\ connect_done' = FALSE
  /\ UNCHANGED <<uiVars, fetching, answer, portal, accepted>>

Worker == WorkerAnswers \/ WorkerEnds

ConnectNext ==
  \/ Edit \/ BeginConnect \/ Worker \/ FinishConnect
  \/ Play \/ SignOut \/ Close \/ Start \/ Crash

ConnectSpec == ConnectInit /\ [][ConnectNext]_connectVars

-----------------------------------------------------------------------------
(* Properties.                                                             *)

\* Every variable keeps its type, and the worker's state fits the stage's.
ConnectTypeOK ==
  /\ stage \in {"Login", "Connecting", "Browsing", "Closed"}
  /\ {typed, credentials, client, catalog, playing, portal} \subseteq Maybe
  /\ worker \in {"None", "Fetching", "Answering", "Ended"} /\ fetching \in Maybe
  /\ connect_done \in BOOLEAN /\ accepted \subseteq Accounts
  /\ stage = "Connecting" <=> stage # "Closed" /\ worker # "None"
  /\ connect_done => worker = "Ended"

(* The catalogue on the screen, the client that resolves its channels and  *)
(* the stream that plays belong to one account, which its provider has     *)
(* accepted, whatever is typed while the worker is away; and behind the    *)
(* login screen nothing plays and no catalogue is left (credentials_ keeps *)
(* the account until the next attempt replaces it).                        *)
OneAccount ==
  /\ stage = "Browsing" =>
       /\ client = catalog /\ client \in accepted
       /\ playing \in {NoAccount, client}
  /\ ScreenUp => playing = NoAccount /\ catalog = NoAccount
=============================================================================
