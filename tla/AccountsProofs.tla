--------------------------- MODULE AccountsProofs ---------------------------
(***************************************************************************)
(* What holds of Accounts for every number of emails, machines and runs,   *)
(* with or without the foreign key and whatever fails: its types, that the *)
(* workspace of a user is the user's own, and that a client that has       *)
(* logged in has a user row, a workspace row and a directory.              *)
(*                                                                         *)
(* The rows of app_users are right because those of the threads that are   *)
(* about to insert one are; a login is right because the config is that of *)
(* an account whose "user_added" has arrived, and because no other run of  *)
(* the machine can change it meanwhile.                                    *)
(*                                                                         *)
(* The second part is about registrations that do not fail, of an email    *)
(* one at a time: a user who is told "user_added" can log in, and has one  *)
(* workspace.                                                              *)
(*                                                                         *)
(* The third part is about the hostname the login handler reads: where no  *)
(* call of the database fails, the thread of who has logged in knows it.   *)
(***************************************************************************)
EXTENDS Accounts, TLAPS

\* What a thread keeps for itself; most steps leave all or most of it alone.
USE DEF threadVars

\* A workspace row has this owner.
Owns(email) == \E i \in DOMAIN workspaces : workspaces[i] = email

\* An id as getWorkspaceIdByEmail returns it.
IdOf(id, email) == id = -1 \/ (id \in DOMAIN workspaces /\ workspaces[id] = email)

\* A user has a workspace, and the workspace_id belongs to it.
Users == \A e \in DOMAIN appUsers : Owns(e) /\ IdOf(appUsers[e].workspace, e)

\* So it is for a user who is about to be added.
Registrations ==
    \A r \in Runs :
        /\ thread[r] \in Registering => request[r] # None
        /\ thread[r] \in {"read_id", "add_user"} => Owns(request[r].email)
        /\ thread[r] = "add_user" => IdOf(workspace[r], request[r].email)

Idle == {"off", "exited"}

\* A run that has not begun has no thread and no message, and a machine has
\* one run at a time.
Processes ==
    /\ \A r \in Runs : client[r] = "off" =>
           thread[r] = "none" /\ toServer[r] = None /\ toClient[r] = None
    /\ \A r, s \in Runs :
           Home[r] = Home[s] /\ client[r] \notin Idle /\ client[s] \notin Idle => r = s

Choices == [email : Emails, password : Passwords]

\* The user knows the password, and "user_added" means a directory.
Remembered ==
    /\ \A m \in Machines : config[m] # None => memory[m] \in Choices /\ directory
    /\ \A r \in Runs : client[r] = "await_register" => memory[Home[r]] \in Choices
    /\ \A r \in Runs : toClient[r] = "user_added" => directory

\* A login asks for the account in the config, and gets in when it exists.
Logins ==
    \A r \in Runs :
        LET email == config[Home[r]]
        IN  /\ thread[r] = "check_credentials" => request[r] # None
            /\ client[r] = "await_login" =>
                   /\ email # None
                   /\ toServer[r] # None => toServer[r].email = email
                   /\ thread[r] = "check_credentials" => request[r].email = email
                   /\ toClient[r] = "password_correct" => Known(email)
            /\ client[r] = "started" => email # None /\ Known(email)

Tables == Users /\ Registrations
Clients == Processes /\ Remembered /\ Logins
IInv == TypeOK /\ Tables /\ Clients

LEMMA Initially == Init => IInv
<1> SUFFICES ASSUME Init PROVE IInv
  OBVIOUS
<1> USE AccountsAssumption
<1>1. TypeOK
  <2>1. DOMAIN appUsers = {} /\ workspaces \in Seq(Emails)
    BY DEF Init
  <2>2. /\ DOMAIN appUsers \subseteq Emails
        /\ \A e \in DOMAIN appUsers : appUsers[e] \in UserRow
    BY <2>1
  <2>3. /\ thread \in [Runs -> Registering \cup {"none", "poll", "check_credentials", "closed"}]
        /\ client \in [Runs -> {"off", "prompt", "await_register", "await_login",
                                "started", "exited"}]
    BY DEF Init
  <2>4. attempts \in 0..MaxAttempts /\ workspace \in [Runs -> Nat \cup {-1}]
    BY DEF Init
  <2> QED
    BY <2>1, <2>2, <2>3, <2>4 DEF Init, TypeOK
<1>2. Tables
  BY DEF Init, Tables, Users, Registrations, Registering
<1>3. Clients
  BY DEF Init, Clients, Processes, Remembered, Logins, Idle, Answers
<1> QED
  BY <1>1, <1>2, <1>3 DEF IInv

-----------------------------------------------------------------------------
(* The tables.                                                             *)

\* Rows of workspace stay: whoever owns one goes on owning it.
LEMMA WorkspacesStay ==
    ASSUME workspaces \in Seq(Emails), NEW email \in Emails,
           workspaces' = Append(workspaces, email) \/ UNCHANGED workspaces
    PROVE  /\ workspaces' \in Seq(Emails)
           /\ \A e \in Emails : Owns(e) => Owns(e)'
           /\ \A id, e : IdOf(id, e) => IdOf(id, e)'
           /\ workspaces' = Append(workspaces, email) => Owns(email)'
<1>1. CASE workspaces' = Append(workspaces, email)
  <2>1. /\ workspaces' \in Seq(Emails) /\ DOMAIN workspaces \subseteq DOMAIN workspaces'
        /\ \A i \in DOMAIN workspaces : workspaces'[i] = workspaces[i]
        /\ Len(workspaces) + 1 \in DOMAIN workspaces'
        /\ workspaces'[Len(workspaces) + 1] = email
    BY <1>1
  <2> QED
    BY <2>1 DEF Owns, IdOf
<1>2. CASE UNCHANGED workspaces
  <2>1. workspaces' # Append(workspaces, email)
    BY <1>2
  <2> QED
    BY <1>2, <2>1 DEF Owns, IdOf
<1> QED
  BY <1>1, <1>2

\* A step that changes neither table nor a thread that is registering.
LEMMA TablesStay ==
    ASSUME Tables, UNCHANGED <<tables, workspace>>,
           \A s \in Runs : thread'[s] \in Registering =>
               thread'[s] = thread[s] /\ request'[s] = request[s]
    PROVE  Tables'
<1>1. Users'
  BY DEF Tables, Users, Owns, IdOf, tables
<1>2. Registrations'
  BY DEF Tables, Registrations, Registering, Owns, IdOf, tables
<1> QED
  BY <1>1, <1>2 DEF Tables

-----------------------------------------------------------------------------
(* The clients, seen from the server.                                      *)

\* A step of the thread of r whose answers are true keeps what the clients
\* rely on.
LEMMA ClientsStay ==
    ASSUME IInv, NEW r \in Runs, thread[r] # "none",
           UNCHANGED <<config, memory, client>>,
           toServer' \in {toServer, [toServer EXCEPT ![r] = None]},
           \A s \in Runs \ {r} : thread'[s] = thread[s] /\ request'[s] = request[s]
                                 /\ toClient'[s] = toClient[s],
           thread'[r] # "check_credentials",
           directory => directory',
           DOMAIN appUsers \subseteq DOMAIN appUsers',
           toClient'[r] = "user_added" => directory',
           toClient'[r] = "password_correct" /\ client[r] = "await_login" =>
               Known(config[Home[r]])'
    PROVE  Clients'
<1>1. client[r] # "off"
  BY DEF IInv, Clients, Processes
<1>2. \A s \in Runs : toServer'[s] = toServer[s] \/ toServer'[s] = None
  BY DEF IInv, TypeOK
<1>3. Processes'
  BY <1>1, <1>2 DEF IInv, Clients, Processes
<1>4. Remembered'
  BY DEF IInv, Clients, Remembered
<1>5. Logins'
  <2> SUFFICES ASSUME NEW s \in Runs
               PROVE  /\ thread'[s] = "check_credentials" => request'[s] # None
                      /\ client[s] = "await_login" =>
                             /\ config[Home[s]] # None
                             /\ toServer'[s] # None => toServer'[s].email = config[Home[s]]
                             /\ thread'[s] = "check_credentials" =>
                                    request'[s].email = config[Home[s]]
                             /\ toClient'[s] = "password_correct" => Known(config[Home[s]])'
                      /\ client[s] = "started" =>
                             config[Home[s]] # None /\ Known(config[Home[s]])'
    BY DEF Logins, Known
  <2> QED
    BY <1>2 DEF IInv, Clients, Logins, Known
<1> QED
  BY <1>3, <1>4, <1>5 DEF Clients

\* A step of the thread that answers nothing.
LEMMA ClientsWait ==
    ASSUME IInv, NEW r \in Runs, thread[r] # "none",
           UNCHANGED <<config, memory, client, toClient, directory>>,
           toServer' \in {toServer, [toServer EXCEPT ![r] = None]},
           \A s \in Runs \ {r} : thread'[s] = thread[s] /\ request'[s] = request[s],
           thread'[r] # "check_credentials",
           DOMAIN appUsers \subseteq DOMAIN appUsers'
    PROVE  Clients'
<1>1. toClient[r] = "user_added" => directory
  BY DEF IInv, Clients, Remembered
<1>2. toClient[r] = "password_correct" /\ client[r] = "await_login" =>
          Known(config[Home[r]])'
  BY DEF IInv, Clients, Logins, Known
<1> QED
  BY <1>1, <1>2, ClientsStay

-----------------------------------------------------------------------------
(* The steps of the server.                                                *)

\* What arrives is a request.
LEMMA Arrives ==
    ASSUME TypeOK, NEW r \in Runs, NEW action, Arrived(r, action)
    PROVE  toServer[r] \in Requests /\ thread[r] = "poll"
BY DEF TypeOK, Arrived

LEMMA RefuseStep ==
    ASSUME IInv, NEW r \in Runs, RefuseRegistration(r)
    PROVE  IInv'
<1> USE AccountsAssumption DEF RefuseRegistration, Take, Reply
<1>1. toServer[r] \in Requests /\ thread[r] = "poll"
  BY Arrives DEF IInv
<1>2. TypeOK'
  BY <1>1 DEF IInv, TypeOK, tables, clientVars, Answers
<1>3. Tables'
  BY <1>1, TablesStay DEF IInv, TypeOK, Registering
<1>4. toClient'[r] = "user_exists"
  BY DEF IInv, TypeOK
<1>5. Clients'
  BY <1>1, <1>4, ClientsStay DEF tables, clientVars, IInv, TypeOK
<1> QED
  BY <1>2, <1>3, <1>5 DEF IInv

LEMMA BeginStep ==
    ASSUME IInv, NEW r \in Runs, BeginRegistration(r)
    PROVE  IInv'
<1> USE AccountsAssumption DEF BeginRegistration, Take, GoTo
<1>1. toServer[r] \in Requests /\ thread[r] = "poll"
  BY Arrives DEF IInv
<1>2. TypeOK'
  BY <1>1 DEF IInv, TypeOK, tables, clientVars, Registering
<1>3. Tables'
  <2>1. Users'
    BY DEF IInv, Tables, Users, Owns, IdOf, tables
  <2>2. Registrations'
    <3>1. request'[r] # None /\ thread'[r] = "add_workspace"
      BY <1>1 DEF IInv, TypeOK, Arrived
    <3>2. \A s \in Runs \ {r} : request'[s] = request[s] /\ thread'[s] = thread[s]
      BY DEF IInv, TypeOK
    <3> QED
      BY <3>1, <3>2 DEF IInv, Tables, Registrations, Owns, IdOf, tables
  <2> QED
    BY <2>1, <2>2 DEF Tables
<1>4. Clients'
  BY <1>1, ClientsWait DEF tables, clientVars, IInv, TypeOK
<1> QED
  BY <1>2, <1>3, <1>4 DEF IInv

LEMMA AddWorkspaceStep ==
    ASSUME IInv, NEW r \in Runs, AddWorkspace(r)
    PROVE  IInv'
<1> USE AccountsAssumption DEF AddWorkspace, GoTo
<1> DEFINE owner == request[r].email
<1>1. thread[r] = "add_workspace" /\ request[r] \in Requests /\ owner \in Emails
  <2>1. request[r] # None
    BY DEF IInv, Tables, Registrations, Registering
  <2> QED
    BY <2>1 DEF IInv, TypeOK, Requests
<1>2. workspaces' = Append(workspaces, owner) \/ UNCHANGED workspaces
  OBVIOUS
<1>3. /\ workspaces' \in Seq(Emails)
      /\ \A e \in Emails : Owns(e) => Owns(e)'
      /\ \A id, e : IdOf(id, e) => IdOf(id, e)'
      /\ workspaces' = Append(workspaces, owner) => Owns(owner)'
  BY <1>1, <1>2, WorkspacesStay DEF IInv, TypeOK
<1>4. /\ \A s \in Runs \ {r} : thread'[s] = thread[s]
      /\ \/ thread'[r] = "read_id" /\ Owns(owner)'
         \/ thread'[r] = "answer_added"
  BY <1>3 DEF IInv, TypeOK
<1>5. TypeOK'
  BY <1>3 DEF IInv, TypeOK, tables, clientVars, Registering
<1>6. Users'
  BY <1>3 DEF IInv, TypeOK, Tables, Users
<1>7. Registrations'
  <2> SUFFICES ASSUME NEW s \in Runs
               PROVE  /\ thread'[s] \in Registering => request[s] # None
                      /\ thread'[s] \in {"read_id", "add_user"} => Owns(request[s].email)'
                      /\ thread'[s] = "add_user" => IdOf(workspace[s], request[s].email)'
    BY DEF Registrations, Owns, IdOf
  <2>1. CASE s = r
    BY <1>1, <1>4, <2>1 DEF IInv, Tables, Registrations, Registering
  <2>2. CASE s # r
    <3>1. thread'[s] = thread[s]
      BY <1>4, <2>2
    <3>2. thread[s] \in Registering => request[s].email \in Emails
      BY DEF IInv, TypeOK, Tables, Registrations, Requests
    <3> QED
      BY <1>3, <3>1, <3>2 DEF IInv, Tables, Registrations, Registering
  <2> QED
    BY <2>1, <2>2
<1>8. Clients'
  BY <1>1, <1>4, ClientsWait DEF clientVars
<1> QED
  BY <1>5, <1>6, <1>7, <1>8 DEF IInv, Tables

LEMMA ReadIdStep ==
    ASSUME IInv, NEW r \in Runs, ReadWorkspaceId(r)
    PROVE  IInv'
<1> USE AccountsAssumption DEF ReadWorkspaceId, GoTo
<1>1. PICK id \in DOMAIN workspaces \cup {-1} :
          /\ id # -1 => workspaces[id] = request[r].email
          /\ workspace' = [workspace EXCEPT ![r] = id]
  OBVIOUS
<1>2. id \in Nat \cup {-1} /\ IdOf(id, request[r].email)
  BY <1>1 DEF IInv, TypeOK, IdOf
<1>3. /\ \A s \in Runs \ {r} : thread'[s] = thread[s] /\ workspace'[s] = workspace[s]
      /\ thread'[r] = "add_user" /\ workspace'[r] = id
  BY <1>1 DEF IInv, TypeOK
<1>4. TypeOK'
  BY <1>1, <1>2 DEF IInv, TypeOK, tables, clientVars, Registering
<1>5. Users'
  BY DEF IInv, Tables, Users, Owns, IdOf, tables
<1>6. Registrations'
  <2>1. request[r] # None /\ Owns(request[r].email)
    BY DEF IInv, Tables, Registrations, Registering
  <2> QED
    BY <1>2, <1>3, <2>1 DEF IInv, Tables, Registrations, Registering, Owns, IdOf, tables
<1>7. Clients'
  BY <1>3, ClientsWait DEF tables, clientVars
<1> QED
  BY <1>4, <1>5, <1>6, <1>7 DEF IInv, Tables

LEMMA AddUserStep ==
    ASSUME IInv, NEW r \in Runs, AddUser(r)
    PROVE  IInv'
<1> USE AccountsAssumption DEF AddUser, GoTo
<1> DEFINE user == request[r].email
           row == [password |-> request[r].password, workspace |-> workspace[r]]
<1>1. /\ request[r] \in Requests /\ user \in Emails /\ row \in UserRow
      /\ Owns(user) /\ IdOf(row.workspace, user)
  <2>1. request[r] # None /\ Owns(user) /\ IdOf(workspace[r], user)
    BY DEF IInv, Tables, Registrations, Registering
  <2> QED
    BY <2>1 DEF IInv, TypeOK, Requests, UserRow
<1>2. /\ DOMAIN appUsers \subseteq DOMAIN appUsers'
      /\ \A e \in DOMAIN appUsers' : \/ e \in DOMAIN appUsers /\ appUsers'[e] = appUsers[e]
                                     \/ e = user /\ appUsers'[e] = row
  <2>1. CASE UNCHANGED appUsers
    BY <2>1
  <2>2. CASE appUsers' = [e \in DOMAIN appUsers \cup {user} |->
                             IF e = user THEN row ELSE appUsers[e]]
    BY <2>2
  <2> QED
    BY <2>1, <2>2
<1>3. /\ \A s \in Runs \ {r} : thread'[s] = thread[s]
      /\ thread'[r] = "answer_added"
  BY DEF IInv, TypeOK
<1>4. TypeOK'
  <2>1. /\ DOMAIN appUsers' \subseteq Emails
        /\ \A e \in DOMAIN appUsers' : appUsers'[e] \in UserRow
    BY <1>1, <1>2 DEF IInv, TypeOK
  <2> QED
    BY <2>1 DEF IInv, TypeOK, clientVars, Registering
<1>5. Users'
  <2> SUFFICES ASSUME NEW e \in DOMAIN appUsers'
               PROVE  (Owns(e) /\ IdOf(appUsers[e].workspace, e))'
    BY DEF Users, Owns, IdOf
  <2>1. CASE e \in DOMAIN appUsers /\ appUsers'[e] = appUsers[e]
    BY <2>1 DEF IInv, Tables, Users, Owns, IdOf
  <2>2. CASE e = user /\ appUsers'[e] = row
    BY <1>1, <2>2 DEF Owns, IdOf
  <2> QED
    BY <1>2, <2>1, <2>2
<1>6. Registrations'
  BY <1>1, <1>3 DEF IInv, Tables, Registrations, Registering, Owns, IdOf
<1>7. Clients'
  BY <1>2, <1>3, ClientsWait DEF clientVars
<1> QED
  BY <1>4, <1>5, <1>6, <1>7 DEF IInv, Tables

LEMMA AnswerAddedStep ==
    ASSUME IInv, NEW r \in Runs, AnswerAdded(r)
    PROVE  IInv'
<1> USE AccountsAssumption DEF AnswerAdded, GoTo, Reply
<1>1. /\ \A s \in Runs \ {r} : thread'[s] = thread[s] /\ toClient'[s] = toClient[s]
      /\ thread'[r] = "poll" /\ toClient'[r] = "user_added"
  BY DEF IInv, TypeOK
<1>2. TypeOK'
  BY DEF IInv, TypeOK, tables, clientVars, Answers
<1>3. Tables'
  <2>1. \A s \in Runs : thread'[s] \in Registering =>
            thread'[s] = thread[s] /\ request'[s] = request[s]
    BY <1>1 DEF Registering
  <2> QED
    BY <2>1, TablesStay DEF IInv
<1>4. Clients'
  BY <1>1, ClientsStay DEF tables, clientVars
<1> QED
  BY <1>2, <1>3, <1>4 DEF IInv

LEMMA ReadHostnameStep ==
    ASSUME IInv, NEW r \in Runs, ReadHostname(r)
    PROVE  IInv'
<1> USE AccountsAssumption DEF ReadHostname, Take, GoTo
<1>1. toServer[r] \in Requests /\ thread[r] = "poll" /\ toServer[r] # None
  BY Arrives DEF IInv, Arrived
<1>2. TypeOK'
  <2>1. hostname' \in [Runs -> {"unread", "files"}]
    BY DEF IInv, TypeOK
  <2> QED
    BY <1>1, <2>1 DEF IInv, TypeOK, tables, clientVars
<1>3. /\ \A s \in Runs \ {r} : thread'[s] = thread[s] /\ request'[s] = request[s]
                              /\ toServer'[s] = toServer[s]
      /\ thread'[r] = "check_credentials" /\ request'[r] = toServer[r] /\ toServer'[r] = None
  BY DEF IInv, TypeOK
<1>4. Tables'
  <2>1. \A s \in Runs : thread'[s] \in Registering =>
            thread'[s] = thread[s] /\ request'[s] = request[s]
    BY <1>3 DEF Registering
  <2> QED
    BY <2>1, TablesStay DEF IInv
<1>5. Processes'
  BY <1>1, <1>3 DEF IInv, Clients, Processes, clientVars
<1>6. Remembered'
  BY DEF IInv, Clients, Remembered, clientVars
<1>7. Logins'
  BY <1>1, <1>3 DEF IInv, Clients, Logins, Known, tables, clientVars
<1> QED
  BY <1>2, <1>4, <1>5, <1>6, <1>7 DEF IInv, Clients

LEMMA CheckStep ==
    ASSUME IInv, NEW r \in Runs, CheckCredentials(r)
    PROVE  IInv'
<1> USE AccountsAssumption DEF CheckCredentials, GoTo, Reply
<1>1. thread[r] = "check_credentials" /\ request[r] \in Requests
  BY DEF IInv, TypeOK, Clients, Logins
<1>2. TypeOK'
  BY <1>1 DEF IInv, TypeOK, tables, clientVars, Answers
<1>3. /\ \A s \in Runs \ {r} : thread'[s] = thread[s] /\ toClient'[s] = toClient[s]
      /\ toClient'[r] \in {"password_correct", "password_incorrect"}
      /\ toClient'[r] = "password_correct" => Known(request[r].email)
      /\ thread'[r] = "poll"
  BY DEF IInv, TypeOK
<1>4. Tables'
  <2>1. \A s \in Runs : thread'[s] \in Registering =>
            thread'[s] = thread[s] /\ request'[s] = request[s]
    BY <1>3 DEF Registering
  <2> QED
    BY <2>1, TablesStay DEF IInv
<1>5. client[r] = "await_login" => request[r].email = config[Home[r]]
  BY <1>1 DEF IInv, Clients, Logins
<1>6. Known(config[Home[r]]) => Known(config[Home[r]])'
  BY DEF Known, tables, clientVars
<1>7. Clients'
  BY <1>1, <1>3, <1>5, <1>6, ClientsStay DEF tables, clientVars
<1> QED
  BY <1>2, <1>4, <1>7 DEF IInv

LEMMA CloseStep ==
    ASSUME IInv, NEW r \in Runs, CloseConnection(r)
    PROVE  IInv'
<1> USE AccountsAssumption DEF CloseConnection, GoTo
<1>1. /\ \A s \in Runs \ {r} : thread'[s] = thread[s]
      /\ thread'[r] = "closed"
  BY DEF IInv, TypeOK
<1>2. TypeOK'
  BY DEF IInv, TypeOK, tables, clientVars
<1>3. Tables'
  <2>1. \A s \in Runs : thread'[s] \in Registering =>
            thread'[s] = thread[s] /\ request'[s] = request[s]
    BY <1>1 DEF Registering
  <2> QED
    BY <2>1, TablesStay DEF IInv
<1>4. Clients'
  BY <1>1, ClientsWait DEF tables, clientVars
<1> QED
  BY <1>2, <1>3, <1>4 DEF IInv

\* The process ends, and whatever its threads were doing; the tables stay.
LEMMA KillStep == IInv /\ Kill => IInv'
<1> SUFFICES ASSUME IInv, Kill PROVE IInv'
  OBVIOUS
<1> USE AccountsAssumption DEF Kill
<1>1. \A r \in Runs : thread'[r] = (IF thread[r] = "none" THEN "none" ELSE "closed")
                      /\ toServer'[r] = None
  OBVIOUS
<1>2. TypeOK'
  BY DEF IInv, TypeOK, tables, clientVars
<1>3. Tables'
  <2>1. \A s \in Runs : thread'[s] \notin Registering
    BY <1>1 DEF Registering
  <2> QED
    BY <2>1, TablesStay DEF IInv
<1>4. Clients'
  BY <1>1 DEF IInv, Clients, Processes, Remembered, Logins, Known, tables, clientVars
<1> QED
  BY <1>2, <1>3, <1>4 DEF IInv

LEMMA RestartStep == IInv /\ Restart => IInv'
<1> SUFFICES ASSUME IInv, Restart PROVE IInv'
  OBVIOUS
<1> USE DEF Restart
<1>1. TypeOK'
  BY DEF IInv, TypeOK, tables, clientVars
<1>2. Tables'
  BY TablesStay DEF IInv
<1>3. Clients'
  BY DEF IInv, Clients, Processes, Remembered, Logins, Known, tables, clientVars
<1> QED
  BY <1>1, <1>2, <1>3 DEF IInv

-----------------------------------------------------------------------------
(* The steps of the clients.                                               *)

\* A run that is under way is the only one of its machine.
LEMMA AloneAtHome ==
    ASSUME IInv, NEW r \in Runs, client[r] \notin Idle
    PROVE  \A s \in Runs \ {r} : Home[s] = Home[r] => client[s] \in Idle
BY DEF IInv, Clients, Processes

\* A run that begins, or asks again, is the only one of its machine.
LEMMA Connects ==
    ASSUME IInv, NEW r \in Runs, Connect(r)
    PROVE  /\ thread' \in [Runs -> Registering \cup {"none", "poll", "check_credentials", "closed"}]
           /\ \A s \in Runs \ {r} : thread'[s] = thread[s]
           /\ thread'[r] \in Registering => thread'[r] = thread[r]
           /\ thread'[r] \in {thread[r], "poll"} /\ (client[r] = "off" => thread'[r] = "poll")
           /\ \A s \in Runs \ {r} : Home[s] = Home[r] => client[s] \in Idle
<1>1. CASE client[r] = "off"
  BY <1>1 DEF IInv, TypeOK, Connect, GoTo, Idle, Registering
<1>2. CASE client[r] = "prompt"
  BY <1>2, AloneAtHome DEF IInv, TypeOK, Connect, Idle
<1> QED
  BY <1>1, <1>2 DEF Connect

\* When run r goes on and the other runs of its machine are idle, there is
\* still one run at a time.
LEMMA ProcessesStay ==
    ASSUME IInv, NEW r \in Runs, client'[r] # "off",
           \A s \in Runs \ {r} : /\ client'[s] = client[s] /\ thread'[s] = thread[s]
                                 /\ toServer'[s] = toServer[s]
                                 /\ toClient'[s] = toClient[s],
           client'[r] \in Idle
           \/ \A s \in Runs \ {r} : Home[s] = Home[r] => client[s] \in Idle
    PROVE  Processes'
<1>1. \A s \in Runs : client'[s] = "off" =>
          thread'[s] = "none" /\ toServer'[s] = None /\ toClient'[s] = None
  BY DEF IInv, Clients, Processes
<1>2. \A s, t \in Runs :
          Home[s] = Home[t] /\ client'[s] \notin Idle /\ client'[t] \notin Idle => s = t
  BY DEF IInv, Clients, Processes
<1> QED
  BY <1>1, <1>2 DEF Processes

LEMMA RegisterStep ==
    ASSUME IInv, NEW r \in Runs, Register(r)
    PROVE  IInv'
<1> USE AccountsAssumption DEF Register, Send, BecomeClient
<1>1. PICK email \in Emails, password \in Passwords :
          /\ Send(r, "register", email, password)
          /\ memory' = [memory EXCEPT ![Home[r]] =
                            [email |-> email, password |-> password]]
  OBVIOUS
<1>2. /\ thread' \in [Runs -> Registering \cup {"none", "poll", "check_credentials", "closed"}]
      /\ \A s \in Runs \ {r} : thread'[s] = thread[s]
      /\ thread'[r] \in Registering => thread'[r] = thread[r]
      /\ thread'[r] \in {thread[r], "poll"} /\ (client[r] = "off" => thread'[r] = "poll")
      /\ \A s \in Runs \ {r} : Home[s] = Home[r] => client[s] \in Idle
  BY Connects
<1>3. /\ [action |-> "register", email |-> email, password |-> password] \in Requests
      /\ [email |-> email, password |-> password] \in Choices
      /\ Home[r] \in Machines
  BY DEF Requests, Choices
<1>4. /\ \A s \in Runs \ {r} : toServer'[s] = toServer[s] /\ client'[s] = client[s]
      /\ client'[r] = "await_register"
  BY <1>1 DEF IInv, TypeOK
<1>5. TypeOK'
  <2>1. attempts' \in 0..MaxAttempts
    BY <1>1 DEF IInv, TypeOK
  <2>2. toServer' \in [Runs -> Requests \cup {None}]
    BY <1>1, <1>3 DEF IInv, TypeOK
  <2>3. memory' \in [Machines -> Choices \cup {None}]
    BY <1>1, <1>3 DEF IInv, TypeOK, Choices
  <2>4. client' \in [Runs -> {"off", "prompt", "await_register", "await_login",
                              "started", "exited"}]
    BY DEF IInv, TypeOK
  <2> QED
    BY <1>1, <1>2, <2>1, <2>2, <2>3, <2>4 DEF IInv, TypeOK, tables, Choices
<1>6. Tables'
  BY <1>1, <1>2, TablesStay DEF IInv
<1>7. Processes'
  BY <1>1, <1>2, <1>4, ProcessesStay
<1>8. Remembered'
  <2>1. \A m \in Machines : memory[m] \in Choices => memory'[m] \in Choices
    BY <1>1, <1>3 DEF IInv, TypeOK
  <2>2. memory'[Home[r]] \in Choices
    BY <1>1, <1>3 DEF IInv, TypeOK
  <2> QED
    BY <1>1, <1>4, <2>1, <2>2 DEF IInv, Clients, Remembered
<1>9. Logins'
  BY <1>1, <1>2, <1>4 DEF IInv, Clients, Logins, Known, tables
<1> QED
  BY <1>5, <1>6, <1>7, <1>8, <1>9 DEF IInv, Clients

LEMMA StartStep ==
    ASSUME IInv, NEW r \in Runs, Start(r)
    PROVE  IInv'
<1> USE AccountsAssumption DEF Start, Send, BecomeClient
<1> DEFINE email == config[Home[r]]
           password == memory[Home[r]].password
<1>1. /\ thread' \in [Runs -> Registering \cup {"none", "poll", "check_credentials", "closed"}]
      /\ \A s \in Runs \ {r} : thread'[s] = thread[s]
      /\ thread'[r] \in Registering => thread'[r] = thread[r]
      /\ thread'[r] \in {thread[r], "poll"} /\ (client[r] = "off" => thread'[r] = "poll")
      /\ \A s \in Runs \ {r} : Home[s] = Home[r] => client[s] \in Idle
  BY Connects
<1>2. Home[r] \in Machines /\ email \in Emails /\ email # None /\ password \in Passwords
  BY DEF IInv, TypeOK, Clients, Remembered, Choices
<1>3. [action |-> "login", email |-> email, password |-> password] \in Requests
  BY <1>2 DEF Requests
<1>4. /\ \A s \in Runs \ {r} : toServer'[s] = toServer[s] /\ client'[s] = client[s]
      /\ client'[r] = "await_login"
  BY DEF IInv, TypeOK
<1>5. toServer[r] = None /\ toClient[r] = None
  BY DEF IInv, Clients, Processes
<1>6. TypeOK'
  <2>1. attempts' \in 0..MaxAttempts
    BY DEF IInv, TypeOK
  <2>2. toServer' \in [Runs -> Requests \cup {None}]
    BY <1>3 DEF IInv, TypeOK
  <2>3. client' \in [Runs -> {"off", "prompt", "await_register", "await_login",
                              "started", "exited"}]
    BY DEF IInv, TypeOK
  <2> QED
    BY <1>1, <2>1, <2>2, <2>3 DEF IInv, TypeOK, tables
<1>7. Tables'
  BY <1>1, TablesStay DEF IInv
<1>8. Processes'
  BY <1>1, <1>4, ProcessesStay
<1>9. Remembered'
  BY <1>4 DEF IInv, Clients, Remembered
<1>10. Logins'
  <2>1. toServer'[r] # None => toServer'[r].email = email
    BY <1>5 DEF IInv, TypeOK
  <2> QED
    BY <1>1, <1>2, <1>4, <1>5, <2>1 DEF IInv, Clients, Logins, Known, tables, Answers
<1> QED
  BY <1>6, <1>7, <1>8, <1>9, <1>10 DEF IInv, Clients

\* What an answer does to the messages.
LEMMA AnswerTaken ==
    ASSUME IInv, NEW r \in Runs, NEW answer, Answer(r, answer)
    PROVE  /\ toClient' \in [Runs -> Answers \cup {None}]
           /\ \A s \in Runs \ {r} : toClient'[s] = toClient[s]
           /\ toClient'[r] = None
BY DEF IInv, TypeOK, Answer

\* The config names the account the user chose, and the directory is there.
LEMMA UserAddedStep ==
    ASSUME IInv, NEW r \in Runs, OnUserAdded(r)
    PROVE  IInv'
<1> USE AccountsAssumption DEF OnUserAdded, BecomeClient
<1>1. /\ toClient' \in [Runs -> Answers \cup {None}]
      /\ \A s \in Runs \ {r} : toClient'[s] = toClient[s]
      /\ toClient'[r] = None
  BY AnswerTaken
<1>2. memory[Home[r]] \in Choices /\ Home[r] \in Machines /\ directory
  BY DEF IInv, Clients, Remembered, Answer
<1>3. /\ \A s \in Runs \ {r} : client'[s] = client[s]
      /\ client'[r] = "exited"
  BY DEF IInv, TypeOK
<1>4. TypeOK'
  <2>1. config' \in [Machines -> Emails \cup {None}]
    BY <1>2 DEF IInv, TypeOK, Choices
  <2> QED
    BY <1>1, <2>1 DEF IInv, TypeOK, serverVars, tables
<1>5. Tables'
  BY TablesStay DEF IInv, serverVars
<1>6. Processes'
  BY <1>1, <1>3, ProcessesStay DEF serverVars, Idle
<1>7. Remembered'
  <2>1. \A m \in Machines \ {Home[r]} : config'[m] = config[m]
    BY DEF IInv, TypeOK
  <2> QED
    BY <1>1, <1>2, <1>3, <2>1 DEF IInv, Clients, Remembered, serverVars, Answers
<1>8. Logins'
  <2> SUFFICES ASSUME NEW s \in Runs, client'[s] \in {"await_login", "started"}
               PROVE  /\ config'[Home[s]] = config[Home[s]]
                      /\ client'[s] = client[s] /\ toClient'[s] = toClient[s]
    BY DEF IInv, Clients, Logins, Known, serverVars, tables
  <2>1. s # r /\ Home[s] # Home[r]
    BY <1>3, AloneAtHome DEF Idle
  <2> QED
    BY <1>1, <1>3, <2>1 DEF IInv, TypeOK
<1> QED
  BY <1>4, <1>5, <1>6, <1>7, <1>8 DEF IInv, Clients

\* The other steps change nothing but where the client is.
LEMMA OtherSteps ==
    ASSUME IInv, NEW r \in Runs,
           \/ OnUserExists(r) \/ OnPasswordCorrect(r) \/ OnPasswordIncorrect(r)
           \/ OnClosed(r) \/ KillClient(r)
    PROVE  IInv'
<1> USE AccountsAssumption
<1>1. /\ UNCHANGED <<serverVars, config, memory, attempts, toServer>>
      /\ client[r] \notin Idle
      /\ \E state \in {"prompt", "started", "exited"} :
             /\ client' = [client EXCEPT ![r] = state]
             /\ state = "started" => client[r] = "await_login"
                                     /\ toClient[r] = "password_correct"
      /\ toClient' \in [Runs -> Answers \cup {None}]
      /\ \A s \in Runs \ {r} : toClient'[s] = toClient[s]
      /\ toClient'[r] = None
  <2>1. CASE OnClosed(r) \/ KillClient(r)
    BY <2>1 DEF IInv, TypeOK, OnClosed, KillClient, BecomeClient, Idle
  <2>2. CASE OnUserExists(r) \/ OnPasswordCorrect(r) \/ OnPasswordIncorrect(r)
    BY <2>2, AnswerTaken
    DEF OnUserExists, OnPasswordCorrect, OnPasswordIncorrect, BecomeClient, Idle, Answer
  <2> QED
    BY <2>1, <2>2
<1>2. /\ \A s \in Runs \ {r} : client'[s] = client[s]
      /\ client'[r] \in {"prompt", "started", "exited"}
      /\ client'[r] = "started" => client[r] = "await_login"
                                   /\ toClient[r] = "password_correct"
  BY <1>1 DEF IInv, TypeOK
<1>3. TypeOK'
  <2>1. client' \in [Runs -> {"off", "prompt", "await_register", "await_login",
                              "started", "exited"}]
    BY <1>1 DEF IInv, TypeOK
  <2> QED
    BY <1>1, <2>1 DEF IInv, TypeOK, serverVars, tables
<1>4. Tables'
  BY <1>1, TablesStay DEF IInv, serverVars
<1>5. Processes'
  BY <1>1, <1>2, AloneAtHome, ProcessesStay DEF serverVars
<1>6. Remembered'
  BY <1>1, <1>2 DEF IInv, Clients, Remembered, serverVars, Answers
<1>7. Logins'
  BY <1>1, <1>2 DEF IInv, Clients, Logins, Known, serverVars, tables, Answers
<1> QED
  BY <1>3, <1>4, <1>5, <1>6, <1>7 DEF IInv, Clients

-----------------------------------------------------------------------------
LEMMA Inductive == IInv /\ [Next]_vars => IInv'
<1> SUFFICES ASSUME IInv, [Next]_vars PROVE IInv'
  OBVIOUS
<1>1. ASSUME NEW r \in Runs, ServerStep(r) PROVE IInv'
  BY <1>1, RefuseStep, BeginStep, AddWorkspaceStep, ReadIdStep, AddUserStep,
     AnswerAddedStep, ReadHostnameStep, CheckStep, CloseStep DEF ServerStep
<1>2. ASSUME NEW r \in Runs, ClientStep(r) \/ Register(r) \/ Start(r) \/ KillClient(r)
      PROVE  IInv'
  BY <1>2, UserAddedStep, OtherSteps, RegisterStep, StartStep DEF ClientStep
<1>3. CASE Kill \/ Restart
  BY <1>3, KillStep, RestartStep
<1>4. CASE UNCHANGED vars
  <2> USE <1>4 DEF vars, serverVars, clientVars, tables
  <2>1. TypeOK'
    BY DEF IInv, TypeOK
  <2>2. Tables'
    BY TablesStay DEF IInv
  <2>3. Clients'
    BY DEF IInv, Clients, Processes, Remembered, Logins, Known
  <2> QED
    BY <2>1, <2>2, <2>3 DEF IInv
<1> QED
  BY <1>1, <1>2, <1>3, <1>4 DEF Next

LEMMA Invariance == Spec => []IInv
BY Initially, Inductive, PTL DEF Spec

\* Every variable of registration and login has its type: every table row,
\* message and config is well formed, whatever is cut off where.
THEOREM TypeCorrect == Spec => []TypeOK
<1>1. IInv => TypeOK
  BY DEF IInv
<1> QED
  BY <1>1, Invariance, PTL

\* The workspace_id of a user is that of a workspace of the user's own, however
\* many registrations interleave in addUser and whatever fails in it.
THEOREM OwnWorkspace == Spec => []WorkspaceOfUser
<1>1. IInv => WorkspaceOfUser
  BY DEF IInv, Tables, Users, IdOf, WorkspaceOfUser
<1> QED
  BY <1>1, Invariance, PTL

\* A client that has logged in has the rows and the directory that the sync
\* uses without asking, also when calls of the database fail.  The hostname of
\* its thread is another matter: see HostnameIsKnown.
THEOREM LoggedInIsReady == Spec => []ReadyToSync
<1>1. IInv => ReadyToSync
  <2> SUFFICES ASSUME IInv, NEW r \in Runs, client[r] = "started"
               PROVE  /\ Known(config[Home[r]])
                      /\ \E i \in DOMAIN workspaces : workspaces[i] = config[Home[r]]
                      /\ directory
    BY DEF ReadyToSync
  <2>1. config[Home[r]] # None /\ Known(config[Home[r]])
    BY DEF IInv, Clients, Logins
  <2>2. directory
    BY <2>1, AccountsAssumption DEF IInv, Clients, Remembered
  <2>3. Owns(config[Home[r]])
    BY <2>1 DEF IInv, Tables, Users, Known
  <2> QED
    BY <2>1, <2>2, <2>3 DEF Owns
<1> QED
  BY <1>1, Invariance, PTL

-----------------------------------------------------------------------------
(* Registrations of an email one at a time.  When nothing fails, the       *)
(* workspace table does not refer to a user who is not there yet and no    *)
(* two registrations of one email overlap, what a client is told is what   *)
(* has happened: the row it believes in has been inserted, and the         *)
(* workspace table has one row for it.                                     *)

Calm == ForeignKey = FALSE /\ Faults = {}

\* A run has one thing going on: a request, its thread at work, or an answer;
\* and it is what its client waits for.
OneThing(r) ==
    /\ toServer[r] # None => toClient[r] = None
    /\ thread[r] \in Registering =>
           client[r] = "await_register" /\ toServer[r] = None /\ toClient[r] = None
    /\ thread[r] = "check_credentials" =>
           client[r] = "await_login" /\ toServer[r] = None /\ toClient[r] = None
    /\ toServer[r] # None =>
           \/ client[r] = "await_register" /\ toServer[r].action = "register"
           \/ client[r] = "await_login" /\ toServer[r].action = "login"
    /\ toClient[r] # None =>
           \/ client[r] = "await_register" /\ toClient[r] \in {"user_added", "user_exists"}
           \/ /\ client[r] = "await_login"
              /\ toClient[r] \in {"password_correct", "password_incorrect"}
    /\ thread[r] = "closed" => client[r] = "exited"

\* The email of the user whom run r registers.
Mine(r) == memory[Home[r]].email

USE DEF Mine

\* Nobody else registers the email.
OneRegisters ==
    \A r, s \in Runs :
        client[r] = "await_register" /\ client[s] = "await_register" /\ Mine(r) = Mine(s) =>
            r = s

\* Email and password of a request are those the user of the machine chose.
Chosen(choice, r) ==
    /\ choice.email = memory[Home[r]].email
    /\ choice.password = memory[Home[r]].password

\* The account that the user of a machine chose is there.
HasAccount(m) ==
    Known(memory[m].email) /\ appUsers[memory[m].email].password = memory[m].password

Adding == {"add_workspace", "read_id", "add_user"}

\* A registration is about an account that is not there until it is added.
Registers(r) ==
    /\ client[r] = "await_register" /\ toServer[r] # None => Chosen(toServer[r], r)
    /\ thread[r] \in Registering => Chosen(request[r], r)
    /\ thread[r] \in Adding => ~ Known(Mine(r))
    /\ thread[r] = "answer_added" \/ toClient[r] = "user_added" => HasAccount(Home[r])

\* The email is that of a user who is being added, and has a workspace.
Between(r, email) == thread[r] \in {"read_id", "add_user"} /\ email = Mine(r)

\* Every workspace is that of a user, or of one who is being added.
WorkspacesOwned ==
    \A i \in DOMAIN workspaces :
        Known(workspaces[i]) \/ \E r \in Runs : Between(r, workspaces[i])

\* A config names the account that the user of the machine chose.
Configs ==
    \A m \in Machines : config[m] # None => config[m] = memory[m].email /\ HasAccount(m)

Orderly ==
    /\ \A r \in Runs : OneThing(r) /\ Registers(r)
    /\ OneRegisters /\ WorkspacesOwned /\ OneWorkspaceEach /\ Configs

OInv == IInv /\ Orderly

-----------------------------------------------------------------------------
\* A run goes on, and nothing else changes.
Alone(r) ==
    \A s \in Runs \ {r} :
        /\ thread'[s] = thread[s] /\ request'[s] = request[s] /\ client'[s] = client[s]
        /\ toServer'[s] = toServer[s] /\ toClient'[s] = toClient[s]

LEMMA RunGoesOn ==
    ASSUME OInv, NEW r \in Runs, Alone(r), UNCHANGED <<tables, memory, config>>,
           client'[r] = "await_register" => client[r] = "await_register",
           thread[r] \in {"read_id", "add_user"} => thread'[r] \in {"read_id", "add_user"},
           OneThing(r)', Registers(r)'
    PROVE  Orderly'
<1> USE DEF tables
<1>1. \A s \in Runs : OneThing(s)' /\ Registers(s)'
  <2> SUFFICES ASSUME NEW s \in Runs \ {r}
               PROVE  OneThing(s)' /\ Registers(s)'
    OBVIOUS
  <2>1. OneThing(s) /\ Registers(s)
    BY DEF OInv, Orderly
  <2>2. OneThing(s)'
    BY <2>1 DEF OneThing, Alone
  <2>3. Registers(s)'
    BY <2>1 DEF Registers, Alone, Chosen, HasAccount, Known
  <2> QED
    BY <2>2, <2>3
<1>2. OneRegisters'
  BY DEF OInv, Orderly, OneRegisters, Alone
<1>3. WorkspacesOwned'
  BY DEF OInv, Orderly, WorkspacesOwned, Known, Between, Alone
<1>4. OneWorkspaceEach' /\ Configs'
  BY DEF OInv, Orderly, OneWorkspaceEach, Configs, HasAccount, Known
<1> QED
  BY <1>1, <1>2, <1>3, <1>4 DEF Orderly

\* What holds of a run before its step.
LEMMA OfRun ==
    ASSUME OInv, NEW r \in Runs
    PROVE  /\ OneThing(r) /\ Registers(r) /\ Home[r] \in Machines
           /\ None \notin Answers /\ TypeOK
BY AccountsAssumption DEF OInv, Orderly, IInv

LEMMA RefuseOrderly ==
    ASSUME OInv, NEW r \in Runs, RefuseRegistration(r)
    PROVE  Orderly'
<1> USE DEF tables, clientVars
<1>1. /\ thread[r] = "poll" /\ toServer[r] # None /\ toServer[r].action = "register"
      /\ client[r] = "await_register"
  BY OfRun DEF RefuseRegistration, Arrived, OneThing
<1>2. /\ toServer'[r] = None /\ toClient'[r] = "user_exists" /\ Alone(r)
      /\ UNCHANGED <<tables, memory, config, client, thread>>
  BY OfRun DEF RefuseRegistration, Take, Reply, Alone, TypeOK
<1>3. OneThing(r)' /\ Registers(r)'
  BY <1>1, <1>2 DEF OneThing, Registers, Registering, Adding
<1> QED
  BY <1>1, <1>2, <1>3, RunGoesOn

LEMMA BeginOrderly ==
    ASSUME Calm, OInv, NEW r \in Runs, BeginRegistration(r)
    PROVE  Orderly'
<1> USE DEF tables, clientVars
<1>1. /\ thread[r] = "poll" /\ toServer[r] # None /\ toServer[r].action = "register"
      /\ client[r] = "await_register" /\ toClient[r] = None
  BY OfRun DEF BeginRegistration, Arrived, OneThing
<1>2. /\ toServer'[r] = None /\ request'[r] = toServer[r] /\ thread'[r] = "add_workspace"
      /\ UNCHANGED <<tables, memory, config, client, toClient>> /\ Alone(r)
  BY OfRun DEF BeginRegistration, Take, GoTo, Alone, TypeOK
<1>3. Chosen(toServer[r], r) /\ ~ Known(toServer[r].email)
  BY <1>1, OfRun DEF Registers, BeginRegistration, Calm, DbMayFail
<1>4. OneThing(r)'
  BY <1>1, <1>2 DEF OneThing
<1>5. Registers(r)'
  BY <1>1, <1>2, <1>3, AccountsAssumption DEF Registers, Chosen, Known, Adding, Answers
<1> QED
  BY <1>1, <1>2, <1>4, <1>5, RunGoesOn

\* The workspace is the first of its owner, who is no user yet.
LEMMA AddWorkspaceOrderly ==
    ASSUME Calm, OInv, NEW r \in Runs, AddWorkspace(r)
    PROVE  Orderly'
<1> USE DEF clientVars
<1>1. PICK email : email = memory[Home[r]].email
  OBVIOUS
<1>2. /\ thread[r] = "add_workspace" /\ request[r].email = email /\ ~ Known(email)
      /\ client[r] = "await_register" /\ toServer[r] = None /\ toClient[r] = None
      /\ Chosen(request[r], r)
  BY <1>1, OfRun DEF AddWorkspace, Registers, Chosen, OneThing, Adding, Registering
<1>3. /\ workspaces' = Append(workspaces, email) /\ thread'[r] = "read_id"
      /\ UNCHANGED <<appUsers, memory, config, client, request, toServer, toClient>>
      /\ Alone(r)
  BY <1>2, OfRun DEF AddWorkspace, GoTo, Alone, TypeOK, Calm, DbMayFail
<1>4. workspaces \in Seq(Emails) /\ Len(workspaces) \in Nat
  BY OfRun DEF TypeOK
<1>5. /\ DOMAIN workspaces' = DOMAIN workspaces \cup {Len(workspaces) + 1}
      /\ \A i \in DOMAIN workspaces : workspaces'[i] = workspaces[i]
      /\ workspaces'[Len(workspaces) + 1] = email
  BY <1>3, <1>4
<1>6. \A s \in Runs : ~ Between(s, email)
  BY <1>1, <1>2 DEF OInv, Orderly, OneThing, OneRegisters, Between, Registering
<1>7. \A i \in DOMAIN workspaces : workspaces[i] # email
  BY <1>2, <1>6 DEF OInv, Orderly, WorkspacesOwned
<1>8. OneWorkspaceEach'
  BY <1>5, <1>7 DEF OInv, Orderly, OneWorkspaceEach
<1>9. WorkspacesOwned'
  <2>1. Between(r, email)'
    BY <1>1, <1>3 DEF Between
  <2>2. \A s \in Runs : \A e : Between(s, e) => Between(s, e)'
    BY <1>2, <1>3 DEF Between, Alone
  <2>3. \A i \in DOMAIN workspaces :
            Known(workspaces[i]) \/ \E s \in Runs : Between(s, workspaces[i])
    BY DEF OInv, Orderly, WorkspacesOwned
  <2> QED
    BY <1>3, <1>5, <2>1, <2>2, <2>3 DEF WorkspacesOwned, Known
<1>10. \A s \in Runs : OneThing(s)' /\ Registers(s)'
  <2> SUFFICES ASSUME NEW s \in Runs
               PROVE  OneThing(s)' /\ Registers(s)'
    OBVIOUS
  <2>1. OneThing(s) /\ Registers(s)
    BY OfRun
  <2>2. CASE s = r
    BY <1>2, <1>3, <2>1, <2>2
    DEF OneThing, Registers, Registering, Adding, Chosen, HasAccount, Known
  <2>3. CASE s # r
    BY <1>3, <2>1, <2>3 DEF Alone, OneThing, Registers, Chosen, HasAccount, Known
  <2> QED
    BY <2>2, <2>3
<1>11. OneRegisters' /\ Configs'
  BY <1>3 DEF OInv, Orderly, OneRegisters, Configs, HasAccount, Known
<1> QED
  BY <1>8, <1>9, <1>10, <1>11 DEF Orderly

LEMMA ReadIdOrderly ==
    ASSUME OInv, NEW r \in Runs, ReadWorkspaceId(r)
    PROVE  Orderly'
<1> USE DEF tables, clientVars
<1>1. /\ thread[r] = "read_id" /\ thread'[r] = "add_user" /\ Alone(r)
      /\ UNCHANGED <<tables, memory, config, client, request, toServer, toClient>>
  BY OfRun DEF ReadWorkspaceId, GoTo, Alone, TypeOK
<1>2. OneThing(r)' /\ Registers(r)'
  BY <1>1, OfRun
  DEF OneThing, Registers, Registering, Adding, Chosen, HasAccount, Known
<1> QED
  BY <1>1, <1>2, RunGoesOn

\* The user is added, with the password of the user of the machine.
LEMMA AddUserOrderly ==
    ASSUME Calm, OInv, NEW r \in Runs, AddUser(r)
    PROVE  Orderly'
<1> USE DEF clientVars
<1>1. PICK email : email = memory[Home[r]].email
  OBVIOUS
<1>2. /\ thread[r] = "add_user" /\ ~ Known(email) /\ client[r] = "await_register"
      /\ toServer[r] = None /\ toClient[r] = None
      /\ request[r].email = email /\ request[r].password = memory[Home[r]].password
  BY <1>1, OfRun DEF AddUser, Registers, Chosen, OneThing, Adding, Registering
<1>3. /\ thread'[r] = "answer_added" /\ Alone(r)
      /\ UNCHANGED <<workspaces, memory, config, client, request, toServer, toClient>>
  BY OfRun DEF AddUser, GoTo, Alone, TypeOK
<1>4. /\ DOMAIN appUsers' = DOMAIN appUsers \cup {email}
      /\ appUsers'[email].password = memory[Home[r]].password
      /\ \A e \in DOMAIN appUsers : appUsers'[e] = appUsers[e]
  <2>1. appUsers' = [e \in DOMAIN appUsers \cup {email} |->
                        IF e = email THEN [password |-> request[r].password,
                                           workspace |-> workspace[r]]
                                     ELSE appUsers[e]]
    BY <1>2 DEF AddUser, Calm, DbMayFail
  <2> QED
    BY <1>2, <2>1 DEF Known
<1>5. /\ \A e : Known(e) => Known(e)'
      /\ Known(email)'
      /\ \A m : HasAccount(m) => HasAccount(m)'
  BY <1>3, <1>4 DEF Known, HasAccount
<1>6. HasAccount(Home[r])'
  BY <1>1, <1>3, <1>4 DEF HasAccount, Known
<1>7. \A s \in Runs : thread[s] \in Registering /\ Mine(s) = email => s = r
  BY <1>1, <1>2 DEF OInv, Orderly, OneThing, OneRegisters
<1>8. \A s \in Runs : OneThing(s)' /\ Registers(s)'
  <2> SUFFICES ASSUME NEW s \in Runs
               PROVE  OneThing(s)' /\ Registers(s)'
    OBVIOUS
  <2>1. OneThing(s) /\ Registers(s)
    BY OfRun
  <2>2. CASE s = r
    BY <1>2, <1>3, <1>6, <2>1, <2>2
    DEF OneThing, Registers, Registering, Adding, Chosen
  <2>3. CASE s # r
    <3>1. thread[s] \in Adding => ~ Known(Mine(s))'
      BY <1>3, <1>4, <1>7, <2>1, <2>3 DEF Registering, Adding, Registers, Known
    <3>2. OneThing(s)'
      BY <1>3, <2>1, <2>3 DEF Alone, OneThing
    <3>3. Registers(s)'
      BY <1>3, <1>5, <2>1, <2>3, <3>1 DEF Alone, Registers, Chosen
    <3> QED
      BY <3>2, <3>3
  <2> QED
    BY <2>2, <2>3
<1>9. WorkspacesOwned'
  <2>1. \A s \in Runs : \A e : Between(s, e) => e = email \/ Between(s, e)'
    BY <1>1, <1>3 DEF Between, Alone
  <2>2. \A i \in DOMAIN workspaces :
            Known(workspaces[i]) \/ \E s \in Runs : Between(s, workspaces[i])
    BY DEF OInv, Orderly, WorkspacesOwned
  <2> QED
    BY <1>3, <1>5, <2>1, <2>2 DEF WorkspacesOwned
<1>10. OneRegisters' /\ OneWorkspaceEach' /\ Configs'
  BY <1>3, <1>5 DEF OInv, Orderly, OneRegisters, OneWorkspaceEach, Configs
<1> QED
  BY <1>8, <1>9, <1>10 DEF Orderly

LEMMA AnswerAddedOrderly ==
    ASSUME OInv, NEW r \in Runs, AnswerAdded(r)
    PROVE  Orderly'
<1> USE DEF tables, clientVars
<1>1. /\ thread[r] = "answer_added" /\ thread'[r] = "poll" /\ toClient'[r] = "user_added"
      /\ UNCHANGED <<tables, memory, config, client, request, toServer>> /\ Alone(r)
  BY OfRun DEF AnswerAdded, GoTo, Reply, Alone, TypeOK
<1>2. OneThing(r)' /\ Registers(r)'
  BY <1>1, OfRun
  DEF OneThing, Registers, Registering, Adding, Chosen, HasAccount, Known
<1> QED
  BY <1>1, <1>2, RunGoesOn

LEMMA ReadHostnameOrderly ==
    ASSUME OInv, NEW r \in Runs, ReadHostname(r)
    PROVE  Orderly'
<1> USE DEF tables, clientVars
<1>1. /\ thread[r] = "poll" /\ toServer[r] # None /\ toServer[r].action = "login"
      /\ client[r] = "await_login" /\ toClient[r] = None
  BY OfRun DEF ReadHostname, Arrived, OneThing
<1>2. /\ toServer'[r] = None /\ thread'[r] = "check_credentials"
      /\ UNCHANGED <<tables, memory, config, client, toClient>> /\ Alone(r)
  BY OfRun DEF ReadHostname, Take, GoTo, Alone, TypeOK
<1>3. OneThing(r)' /\ Registers(r)'
  BY <1>1, <1>2, AccountsAssumption DEF OneThing, Registers, Registering, Adding, Answers
<1> QED
  BY <1>1, <1>2, <1>3, RunGoesOn

LEMMA CheckOrderly ==
    ASSUME OInv, NEW r \in Runs, CheckCredentials(r)
    PROVE  Orderly'
<1> USE DEF tables, clientVars
<1>1. thread[r] = "check_credentials" /\ client[r] = "await_login" /\ toServer[r] = None
  BY OfRun DEF CheckCredentials, OneThing
<1>2. /\ toClient'[r] \in {"password_correct", "password_incorrect"} /\ thread'[r] = "poll"
      /\ UNCHANGED <<tables, memory, config, client, toServer>> /\ Alone(r)
  BY OfRun DEF CheckCredentials, GoTo, Reply, Alone, TypeOK
<1>3. OneThing(r)' /\ Registers(r)'
  BY <1>1, <1>2 DEF OneThing, Registers, Registering, Adding
<1> QED
  BY <1>1, <1>2, <1>3, RunGoesOn

LEMMA CloseOrderly ==
    ASSUME OInv, NEW r \in Runs, CloseConnection(r)
    PROVE  Orderly'
<1> USE DEF tables, clientVars
<1>1. /\ thread[r] = "poll" /\ thread'[r] = "closed" /\ client[r] = "exited"
      /\ UNCHANGED <<tables, memory, config, client, request, toServer, toClient>> /\ Alone(r)
  BY OfRun DEF CloseConnection, GoTo, Alone, TypeOK
<1>2. OneThing(r)' /\ Registers(r)'
  BY <1>1, OfRun
  DEF OneThing, Registers, Registering, Adding, Chosen, HasAccount, Known
<1> QED
  BY <1>1, <1>2, RunGoesOn

-----------------------------------------------------------------------------
\* A run that begins, or asks again, has nothing going on, and no other run of
\* the machine has.
LEMMA Quiet ==
    ASSUME Calm, OInv, NEW r \in Runs, Connect(r)
    PROVE  /\ \A s \in Runs : Home[s] = Home[r] =>
                  toServer[s] = None /\ toClient[s] = None /\ thread[s] \notin Registering
           /\ \A s \in Runs \ {r} : thread'[s] = thread[s]
           /\ thread'[r] \notin Registering \cup {"check_credentials", "closed"}
           /\ client[r] \in {"off", "prompt"}
           /\ \A s \in Runs \ {r} : Home[s] = Home[r] => client[s] \in Idle
<1>1. \A s \in Runs \ {r} : Home[s] = Home[r] => client[s] \in Idle
  BY Connects DEF OInv
<1>2. client[r] \in {"off", "prompt"}
  BY DEF Connect
<1>3. \A s \in Runs : Home[s] = Home[r] =>
          toServer[s] = None /\ toClient[s] = None /\ thread[s] \notin Registering
  BY <1>1, <1>2 DEF OInv, Orderly, OneThing, Idle
<1>4. /\ \A s \in Runs \ {r} : thread'[s] = thread[s]
      /\ thread'[r] \in {thread[r], "poll"}
      /\ client[r] = "off" => thread'[r] = "poll"
  BY OfRun DEF Connect, GoTo, TypeOK
<1>5. client[r] = "prompt" => thread[r] \notin {"check_credentials", "closed"}
  BY OfRun DEF OneThing
<1> QED
  BY <1>1, <1>2, <1>3, <1>4, <1>5 DEF Registering

LEMMA RegisterOrderly ==
    ASSUME Calm, OInv, NEW r \in Runs, Register(r)
    PROVE  Orderly'
<1> USE DEF tables
<1>1. PICK email \in Emails, password \in Passwords :
          /\ Undisturbed(email)
          /\ Send(r, "register", email, password)
          /\ memory' = [memory EXCEPT ![Home[r]] =
                            [email |-> email, password |-> password]]
  BY DEF Register
<1>2. Connect(r) /\ config[Home[r]] = None
  BY DEF Register
<1>3. /\ \A s \in Runs : Home[s] = Home[r] =>
             toServer[s] = None /\ toClient[s] = None /\ thread[s] \notin Registering
      /\ thread'[r] \notin Registering \cup {"check_credentials", "closed"}
      /\ client[r] \in {"off", "prompt"}
  BY <1>2, Quiet
<1>4. /\ \A s \in Runs : client[s] = "await_register" => Mine(s) # email
      /\ \A s \in Runs \ {r} : Home[s] = Home[r] => client[s] # "await_register"
  BY <1>1, <1>2, Quiet DEF Undisturbed, Calm, Idle
<1>5. /\ UNCHANGED <<tables, config, request, toClient>> /\ Alone(r)
      /\ client'[r] = "await_register"
      /\ toServer'[r] = [action |-> "register", email |-> email, password |-> password]
  BY <1>1, <1>2, <1>3, Quiet, OfRun DEF Register, Send, BecomeClient, Alone, TypeOK
<1>6. /\ \A m \in Machines \ {Home[r]} : memory'[m] = memory[m]
      /\ memory'[Home[r]] = [email |-> email, password |-> password]
  BY <1>1, OfRun DEF TypeOK
<1>7. \A s \in Runs : OneThing(s)' /\ Registers(s)'
  <2> SUFFICES ASSUME NEW s \in Runs
               PROVE  OneThing(s)' /\ Registers(s)'
    OBVIOUS
  <2>1. OneThing(s) /\ Registers(s) /\ Home[s] \in Machines
    BY OfRun
  <2>2. CASE s = r
    <3>1. /\ toClient'[r] = None
          /\ thread'[r] \notin Registering \cup {"check_credentials", "closed"}
      BY <1>3, <1>5
    <3>2. OneThing(r)'
      BY <1>5, <3>1 DEF OneThing
    <3>3. Registers(r)'
      BY <1>5, <1>6, <3>1, AccountsAssumption
      DEF Registers, Chosen, Registering, Adding, Answers
    <3> QED
      BY <2>2, <3>2, <3>3
  <2>3. CASE s # r
    <3>1. OneThing(s)'
      BY <1>5, <2>1, <2>3 DEF Alone, OneThing
    <3>2. Registers(s)'
      <4>1. CASE Home[s] = Home[r]
        BY <1>3, <1>5, <2>3, <4>1, AccountsAssumption
        DEF Alone, Registers, Registering, Adding, Answers
      <4>2. CASE Home[s] # Home[r]
        BY <1>5, <1>6, <2>1, <2>3, <4>2
        DEF Alone, Registers, Chosen, HasAccount, Known
      <4> QED
        BY <4>1, <4>2
    <3> QED
      BY <3>1, <3>2
  <2> QED
    BY <2>2, <2>3
<1>8. OneRegisters'
  <2>1. \A s \in Runs \ {r} : client'[s] = "await_register" =>
            client[s] = "await_register" /\ Mine(s)' = Mine(s) /\ Mine(s)' # email
    BY <1>4, <1>5, <1>6, OfRun DEF Alone
  <2>2. Mine(r)' = email
    BY <1>6, OfRun
  <2> QED
    BY <2>1, <2>2 DEF OInv, Orderly, OneRegisters
<1>9. WorkspacesOwned'
  <2>1. \A s \in Runs : \A e : Between(s, e) => Between(s, e)'
    <3> SUFFICES ASSUME NEW s \in Runs, NEW e, Between(s, e)
                 PROVE  Between(s, e)'
      OBVIOUS
    <3>1. Home[s] # Home[r] /\ Home[s] \in Machines
      BY <1>3, OfRun DEF Between, Registering
    <3> QED
      BY <1>5, <1>6, <3>1 DEF Between, Alone
  <2> QED
    BY <1>5, <2>1 DEF OInv, Orderly, WorkspacesOwned, Known
<1>10. OneWorkspaceEach'
  BY <1>5 DEF OInv, Orderly, OneWorkspaceEach
<1>11. Configs'
  BY <1>2, <1>5, <1>6 DEF OInv, Orderly, Configs, HasAccount, Known
<1> QED
  BY <1>7, <1>8, <1>9, <1>10, <1>11 DEF Orderly

LEMMA StartOrderly ==
    ASSUME Calm, OInv, NEW r \in Runs, Start(r)
    PROVE  Orderly'
<1> USE DEF tables
<1>1. /\ \A s \in Runs : Home[s] = Home[r] =>
             toServer[s] = None /\ toClient[s] = None /\ thread[s] \notin Registering
      /\ thread'[r] \notin Registering \cup {"check_credentials", "closed"}
      /\ client[r] \in {"off", "prompt"}
      /\ \A s \in Runs \ {r} : thread'[s] = thread[s]
  BY Quiet DEF Start
<1>2. /\ UNCHANGED <<tables, memory, config, request, toClient>> /\ Alone(r)
      /\ client'[r] = "await_login" /\ toServer'[r].action = "login"
  BY <1>1, OfRun DEF Start, Send, BecomeClient, Alone, TypeOK
<1>3. /\ toClient'[r] = None
      /\ thread'[r] \notin Registering \cup {"check_credentials", "closed"}
  BY <1>1, <1>2
<1>4. OneThing(r)'
  BY <1>2, <1>3 DEF OneThing
<1>5. Registers(r)'
  BY <1>2, <1>3, AccountsAssumption DEF Registers, Registering, Adding, Answers
<1>6. thread[r] \notin {"read_id", "add_user"}
  BY <1>1 DEF Registering
<1> QED
  BY <1>2, <1>4, <1>5, <1>6, RunGoesOn

\* The config is written when the account is there.
LEMMA UserAddedOrderly ==
    ASSUME OInv, NEW r \in Runs, OnUserAdded(r)
    PROVE  Orderly'
<1> USE DEF tables, serverVars
<1>1. /\ toClient[r] = "user_added" /\ HasAccount(Home[r]) /\ Home[r] \in Machines
      /\ toServer[r] = None
      /\ thread[r] \notin Registering \cup {"check_credentials", "closed"}
  BY OfRun, AccountsAssumption DEF OnUserAdded, Answer, Registers, OneThing, Answers
<1>2. /\ UNCHANGED <<tables, memory, request, thread, toServer>> /\ Alone(r)
      /\ client'[r] = "exited" /\ toClient'[r] = None
      /\ \A m \in Machines \ {Home[r]} : config'[m] = config[m]
      /\ config'[Home[r]] = memory[Home[r]].email
  BY OfRun DEF OnUserAdded, Answer, BecomeClient, Alone, TypeOK
<1>3. \A s \in Runs : OneThing(s)' /\ Registers(s)'
  <2> SUFFICES ASSUME NEW s \in Runs
               PROVE  OneThing(s)' /\ Registers(s)'
    OBVIOUS
  <2>1. OneThing(s) /\ Registers(s)
    BY OfRun
  <2>2. CASE s = r
    BY <1>1, <1>2, <2>2, AccountsAssumption
    DEF OneThing, Registers, Registering, Adding, Answers
  <2>3. CASE s # r
    BY <1>2, <2>1, <2>3 DEF Alone, OneThing, Registers, Chosen, HasAccount, Known
  <2> QED
    BY <2>2, <2>3
<1>4. OneRegisters'
  BY <1>2 DEF OInv, Orderly, OneRegisters, Alone
<1>5. WorkspacesOwned' /\ OneWorkspaceEach'
  BY <1>2 DEF OInv, Orderly, WorkspacesOwned, OneWorkspaceEach, Known, Between, Alone
<1>6. Configs'
  BY <1>1, <1>2 DEF OInv, Orderly, Configs, HasAccount, Known
<1> QED
  BY <1>3, <1>4, <1>5, <1>6 DEF Orderly

LEMMA OthersOrderly ==
    ASSUME Calm, OInv, NEW r \in Runs,
           \/ OnUserExists(r) \/ OnPasswordCorrect(r) \/ OnPasswordIncorrect(r)
           \/ OnClosed(r) \/ KillClient(r)
    PROVE  Orderly'
<1> USE DEF tables, serverVars
<1>1. /\ toClient[r] \in {"user_exists", "password_correct", "password_incorrect"}
      /\ UNCHANGED <<tables, memory, config, request, thread, toServer>> /\ Alone(r)
      /\ client'[r] \in {"prompt", "started", "exited"} /\ toClient'[r] = None
  <2>1. ~ KillClient(r) /\ ~ OnClosed(r)
    BY OfRun DEF Calm, KillClient, OnClosed, OneThing
  <2> QED
    BY <2>1, OfRun
    DEF OnUserExists, OnPasswordCorrect, OnPasswordIncorrect, Answer, BecomeClient, Alone,
        TypeOK
<1>2. /\ toServer[r] = None
      /\ thread[r] \notin Registering \cup {"check_credentials", "closed"}
  BY <1>1, OfRun, AccountsAssumption DEF OneThing, Answers
<1>3. OneThing(r)' /\ Registers(r)'
  BY <1>1, <1>2, AccountsAssumption DEF OneThing, Registers, Registering, Adding, Answers
<1>4. thread[r] \notin {"read_id", "add_user"}
  BY <1>2 DEF Registering
<1> QED
  BY <1>1, <1>3, <1>4, RunGoesOn

-----------------------------------------------------------------------------
LEMMA OrderlyFirst == Init => Orderly
<1> SUFFICES ASSUME Init PROVE Orderly
  OBVIOUS
<1>1. \A r \in Runs : OneThing(r) /\ Registers(r)
  BY AccountsAssumption DEF Init, OneThing, Registers, Registering, Adding, Answers
<1>2. OneRegisters /\ WorkspacesOwned /\ OneWorkspaceEach /\ Configs
  BY DEF Init, OneRegisters, WorkspacesOwned, OneWorkspaceEach, Configs
<1> QED
  BY <1>1, <1>2 DEF Orderly

LEMMA OrderlyNext ==
    ASSUME Calm
    PROVE  OInv /\ [Next]_vars => OInv'
<1> SUFFICES ASSUME OInv, [Next]_vars PROVE Orderly'
  BY Inductive DEF OInv
<1>1. ASSUME NEW r \in Runs, ServerStep(r) PROVE Orderly'
  BY <1>1, RefuseOrderly, BeginOrderly, AddWorkspaceOrderly, ReadIdOrderly,
     AddUserOrderly, AnswerAddedOrderly, ReadHostnameOrderly, CheckOrderly, CloseOrderly
  DEF ServerStep
<1>2. ASSUME NEW r \in Runs, ClientStep(r) \/ Register(r) \/ Start(r) \/ KillClient(r)
      PROVE  Orderly'
  BY <1>2, UserAddedOrderly, OthersOrderly, RegisterOrderly, StartOrderly DEF ClientStep
<1>3. ~ Kill
  BY DEF Calm, Kill
<1>4. CASE Restart \/ UNCHANGED vars
  <2> USE DEF tables, serverVars, clientVars, vars
  <2>1. UNCHANGED <<tables, memory, config, thread, request, client, toServer, toClient>>
    BY <1>4 DEF Restart
  <2>2. \A r \in Runs : OneThing(r)' /\ Registers(r)'
    BY <2>1 DEF OInv, Orderly, OneThing, Registers, Chosen, HasAccount, Known
  <2>3. OneRegisters' /\ WorkspacesOwned' /\ OneWorkspaceEach' /\ Configs'
    BY <2>1 DEF OInv, Orderly, OneRegisters, WorkspacesOwned, OneWorkspaceEach, Configs,
                HasAccount, Known, Between
  <2> QED
    BY <2>2, <2>3 DEF Orderly
<1> QED
  BY <1>1, <1>2, <1>3, <1>4 DEF Next

LEMMA OrderlyAlways ==
    ASSUME Calm
    PROVE  Spec => []OInv
<1>1. Init => OInv
  BY Initially, OrderlyFirst DEF OInv
<1> QED
  BY <1>1, OrderlyNext, PTL DEF Spec

\* Whoever is told "user_added" can log in with the password chosen then, on
\* any number of machines with any number of accounts that are registered at
\* once: as long as no two registrations of one email overlap, nothing fails,
\* and the workspace table does not refer to a user who is not there yet.
\* Where it does, this fails: see MCAccountsForeignKey.
THEOREM ToldIsTrue ==
    ASSUME ForeignKey = FALSE, Faults = {}
    PROVE  Spec => []RegisteredCanLogIn
<1>1. OInv => RegisteredCanLogIn
  BY DEF OInv, Orderly, Configs, HasAccount, RegisteredCanLogIn
<1> QED
  BY <1>1, OrderlyAlways, PTL DEF Calm

\* Under the same conditions every account has one workspace: the workspace is
\* inserted before the user, but for a user who is not there, and who gets
\* there before the next registration of the email begins.
THEOREM OneRowEach ==
    ASSUME ForeignKey = FALSE, Faults = {}
    PROVE  Spec => []OneWorkspaceEach
<1>1. OInv => OneWorkspaceEach
  BY DEF OInv, Orderly
<1> QED
  BY <1>1, OrderlyAlways, PTL DEF Calm

-----------------------------------------------------------------------------
(* The hostname.  The login handler asks for it before it checks the       *)
(* credentials, and goes on without one.  Whoever gets in has a config     *)
(* and so was told "user_added"; when the calls of the database do not     *)
(* fail, the row was there by then, whichever registration had inserted    *)
(* it, and no row is ever removed.  Registrations may overlap and          *)
(* processes may be killed.                                                *)

Working == ForeignKey = FALSE /\ "db" \notin Faults

\* A run has one thing going on: a request, its thread at work, or an answer.
Busy(r) ==
    /\ toServer[r] # None => thread[r] = "poll" /\ toClient[r] = None
    /\ toClient[r] # None => thread[r] \in {"poll", "closed"}
    /\ client[r] \in {"prompt", "started"} =>
           thread[r] \in {"poll", "closed"} /\ toServer[r] = None /\ toClient[r] = None

\* Who is told "user_added" is a user, and who gets in has a thread that knows
\* the hostname.
Promised(r) ==
    /\ client[r] = "await_register" =>
           /\ toServer[r] # None => toServer[r].email = Mine(r)
           /\ thread[r] \in Registering => request[r].email = Mine(r)
           /\ toClient[r] = "user_added" => Known(Mine(r))
    /\ thread[r] = "answer_added" => Known(request[r].email)
    /\ client[r] = "await_login" =>
           (thread[r] = "check_credentials" \/ toClient[r] = "password_correct" =>
                hostname[r] = "files")
    /\ client[r] = "started" => hostname[r] = "files"

Configured == \A m \in Machines : config[m] # None => Known(config[m])

Promises == Configured /\ \A r \in Runs : Busy(r) /\ Promised(r)

HInv == IInv /\ Promises

\* What holds of a run before its step.
LEMMA PromisedTo ==
    ASSUME HInv, NEW r \in Runs
    PROVE  /\ Busy(r) /\ Promised(r) /\ Home[r] \in Machines
           /\ None \notin Answers /\ TypeOK
BY AccountsAssumption DEF HInv, Promises, IInv

\* A run goes on, and the users who are there stay.
LEMMA PromisesStay ==
    ASSUME HInv, NEW r \in Runs, Alone(r), UNCHANGED <<config, memory>>,
           \A s \in Runs \ {r} : hostname'[s] = hostname[s],
           DOMAIN appUsers \subseteq DOMAIN appUsers',
           Busy(r)', Promised(r)'
    PROVE  Promises'
<1>1. Configured'
  BY DEF HInv, Promises, Configured, Known
<1>2. ASSUME NEW s \in Runs \ {r}
      PROVE  Busy(s)' /\ Promised(s)'
  <2>1. Busy(s) /\ Promised(s)
    BY DEF HInv, Promises
  <2> QED
    BY <2>1 DEF Alone, Busy, Promised, Known
<1> QED
  BY <1>1, <1>2 DEF Promises

LEMMA ServerPromises ==
    ASSUME Working, HInv, NEW r \in Runs, ServerStep(r)
    PROVE  Promises'
<1> USE DEF tables, clientVars
<1>0. Busy(r) /\ Promised(r) /\ TypeOK /\ None \notin Answers
  BY PromisedTo
<1>1. CASE RefuseRegistration(r)
  <2>1. /\ toServer[r] # None /\ thread[r] = "poll" /\ Alone(r) /\ toServer'[r] = None
        /\ toClient'[r] = "user_exists"
        /\ UNCHANGED <<tables, config, memory, client, thread, hostname>>
    BY <1>0, <1>1 DEF RefuseRegistration, Arrived, Take, Reply, Alone, TypeOK
  <2> QED
    BY <1>0, <2>1, PromisesStay DEF Busy, Promised, Registering
<1>2. CASE BeginRegistration(r)
  <2>1. /\ toServer[r] # None /\ Alone(r) /\ toServer'[r] = None
        /\ request'[r] = toServer[r] /\ thread'[r] = "add_workspace"
        /\ UNCHANGED <<tables, config, memory, client, toClient, hostname>>
    BY <1>0, <1>2 DEF BeginRegistration, Arrived, Take, GoTo, Alone, TypeOK
  <2> QED
    BY <1>0, <2>1, AccountsAssumption, PromisesStay DEF Busy, Promised, Answers
<1>3. CASE AddWorkspace(r)
  <2>1. /\ thread[r] = "add_workspace" /\ Alone(r) /\ thread'[r] = "read_id"
        /\ UNCHANGED <<appUsers, config, memory, client, toClient, toServer, request, hostname>>
    BY <1>0, <1>3 DEF AddWorkspace, GoTo, Alone, TypeOK, Working, DbMayFail
  <2> QED
    BY <1>0, <2>1, PromisesStay DEF Busy, Promised, Known, Registering
<1>4. CASE ReadWorkspaceId(r)
  <2>1. /\ thread[r] = "read_id" /\ Alone(r) /\ thread'[r] = "add_user"
        /\ UNCHANGED <<tables, config, memory, client, toClient, toServer, request, hostname>>
    BY <1>0, <1>4 DEF ReadWorkspaceId, GoTo, Alone, TypeOK
  <2> QED
    BY <1>0, <2>1, PromisesStay DEF Busy, Promised, Known, Registering
<1>5. CASE AddUser(r)
  <2>1. /\ thread[r] = "add_user" /\ Alone(r) /\ thread'[r] = "answer_added"
        /\ UNCHANGED <<config, memory, client, toClient, toServer, request, hostname>>
    BY <1>0, <1>5 DEF AddUser, GoTo, Alone, TypeOK
  <2>2. DOMAIN appUsers' = DOMAIN appUsers \cup {request[r].email}
    BY <1>5 DEF AddUser, Known, Working, DbMayFail
  <2> QED
    BY <1>0, <2>1, <2>2, PromisesStay DEF Busy, Promised, Known, Registering
<1>6. CASE AnswerAdded(r)
  <2>1. /\ thread[r] = "answer_added" /\ Alone(r) /\ thread'[r] = "poll"
        /\ toClient'[r] = "user_added"
        /\ UNCHANGED <<tables, config, memory, client, toServer, request, hostname>>
    BY <1>0, <1>6 DEF AnswerAdded, GoTo, Reply, Alone, TypeOK
  <2> QED
    BY <1>0, <2>1, PromisesStay DEF Busy, Promised, Known, Registering
<1>7. CASE ReadHostname(r)
  <2>1. /\ toServer[r] # None /\ thread[r] = "poll" /\ Alone(r) /\ toServer'[r] = None
        /\ thread'[r] = "check_credentials"
        /\ Known(toServer[r].email) => hostname'[r] = "files"
        /\ \A s \in Runs \ {r} : hostname'[s] = hostname[s]
        /\ UNCHANGED <<tables, config, memory, client, toClient>>
    BY <1>0, <1>7
    DEF ReadHostname, Arrived, Take, GoTo, Alone, TypeOK, Working, DbMayFail
  <2>2. client[r] = "await_login" => Known(toServer[r].email)
    <3>1. client[r] = "await_login" =>
              toServer[r].email = config[Home[r]] /\ config[Home[r]] # None
      BY <2>1 DEF HInv, IInv, Clients, Logins
    <3> QED
      BY <3>1, PromisedTo DEF HInv, Promises, Configured
  <2> QED
    BY <1>0, <2>1, <2>2, AccountsAssumption, PromisesStay
    DEF Busy, Promised, Registering, Answers
<1>8. CASE CheckCredentials(r)
  <2>1. /\ thread[r] = "check_credentials" /\ Alone(r) /\ thread'[r] = "poll"
        /\ toClient'[r] \in {"password_correct", "password_incorrect"}
        /\ UNCHANGED <<tables, config, memory, client, toServer, hostname>>
    BY <1>0, <1>8 DEF CheckCredentials, GoTo, Reply, Alone, TypeOK
  <2> QED
    BY <1>0, <2>1, PromisesStay DEF Busy, Promised, Registering
<1>9. CASE CloseConnection(r)
  <2>1. /\ toServer[r] = None /\ client[r] = "exited" /\ Alone(r) /\ thread'[r] = "closed"
        /\ UNCHANGED <<tables, config, memory, client, toClient, toServer, request, hostname>>
    BY <1>0, <1>9 DEF CloseConnection, GoTo, Alone, TypeOK
  <2> QED
    BY <1>0, <2>1, PromisesStay DEF Busy, Promised, Registering
<1> QED
  BY <1>1, <1>2, <1>3, <1>4, <1>5, <1>6, <1>7, <1>8, <1>9 DEF ServerStep

\* The user of a machine chooses when no run there waits for an answer.
LEMMA RegisterPromises ==
    ASSUME HInv, NEW r \in Runs, Register(r)
    PROVE  Promises'
<1> USE DEF tables
<1>1. PICK email \in Emails, password \in Passwords :
          /\ Send(r, "register", email, password)
          /\ memory' = [memory EXCEPT ![Home[r]] =
                            [email |-> email, password |-> password]]
  BY DEF Register
<1>2. Connect(r) /\ config' = config
  BY <1>1 DEF Register, Send
<1>3. /\ \A s \in Runs \ {r} : thread'[s] = thread[s]
      /\ thread'[r] \in {thread[r], "poll"} /\ (client[r] = "off" => thread'[r] = "poll")
      /\ \A s \in Runs \ {r} : Home[s] = Home[r] => client[s] \in Idle
  BY <1>2, Connects DEF HInv
<1>4. toServer[r] = None /\ toClient[r] = None /\ thread'[r] \in {"poll", "closed"}
  <2>1. CASE client[r] = "off"
    BY <1>3, <2>1 DEF HInv, IInv, Clients, Processes
  <2>2. CASE client[r] = "prompt"
    BY <1>3, <2>2, PromisedTo DEF Busy
  <2> QED
    BY <1>2, <2>1, <2>2 DEF Connect
<1>5. /\ UNCHANGED <<tables, request, toClient, hostname>> /\ Alone(r)
      /\ client'[r] = "await_register"
      /\ toServer'[r] = None \/ (thread'[r] = "poll" /\ toServer'[r].email = email)
  BY <1>1, <1>3, <1>4, PromisedTo DEF Register, Send, BecomeClient, Alone, TypeOK
<1>6. memory'[Home[r]].email = email /\ \A m \in Machines \ {Home[r]} : memory'[m] = memory[m]
  BY <1>1, PromisedTo DEF TypeOK
<1>7. Busy(r)' /\ Promised(r)'
  BY <1>4, <1>5, <1>6, AccountsAssumption
  DEF Busy, Promised, Registering, Answers
<1>8. ASSUME NEW s \in Runs \ {r}
      PROVE  Busy(s)' /\ Promised(s)'
  <2>1. Busy(s) /\ Promised(s) /\ Home[s] \in Machines
    BY PromisedTo
  <2>2. client[s] = "await_register" => Mine(s)' = Mine(s)
    BY <1>3, <1>6, <2>1 DEF Idle
  <2> QED
    BY <1>5, <2>1, <2>2 DEF Alone, Busy, Promised, Known
<1>9. Configured'
  BY <1>2, <1>5 DEF HInv, Promises, Configured, Known
<1> QED
  BY <1>7, <1>8, <1>9 DEF Promises

LEMMA StartPromises ==
    ASSUME HInv, NEW r \in Runs, Start(r)
    PROVE  Promises'
<1> USE DEF tables
<1>1. client[r] = "off" /\ thread[r] = "none" /\ toServer[r] = None /\ toClient[r] = None
  BY DEF Start, HInv, IInv, Clients, Processes
<1>2. /\ \A s \in Runs \ {r} : thread'[s] = thread[s]
      /\ thread'[r] = "poll"
  BY <1>1, Connects DEF Start, HInv
<1>3. /\ UNCHANGED <<tables, memory, config, request, toClient, hostname>> /\ Alone(r)
      /\ client'[r] = "await_login"
  BY <1>2, PromisedTo DEF Start, Send, BecomeClient, Alone, TypeOK
<1>4. Busy(r)' /\ Promised(r)'
  BY <1>1, <1>2, <1>3, AccountsAssumption DEF Busy, Promised, Registering, Answers
<1> QED
  BY <1>3, <1>4, PromisesStay

LEMMA ClientPromises ==
    ASSUME HInv, NEW r \in Runs, ClientStep(r) \/ KillClient(r)
    PROVE  Promises'
<1> USE DEF tables, serverVars
<1>0. /\ Busy(r) /\ Promised(r) /\ TypeOK /\ Home[r] \in Machines
      /\ None \notin Answers
  BY PromisedTo
<1>1. /\ UNCHANGED <<tables, memory, request, thread, hostname, toServer>> /\ Alone(r)
      /\ toClient'[r] = None
  BY <1>0 DEF ClientStep, OnUserAdded, OnUserExists, OnPasswordCorrect, OnPasswordIncorrect,
     OnClosed, KillClient, Answer, BecomeClient, Alone, TypeOK
<1>2. CASE OnUserAdded(r)
  <2>1. /\ client[r] = "await_register" /\ toClient[r] = "user_added"
        /\ client'[r] = "exited" /\ config'[Home[r]] = Mine(r)
        /\ \A m \in Machines \ {Home[r]} : config'[m] = config[m]
    BY <1>0, <1>2 DEF OnUserAdded, Answer, BecomeClient, TypeOK
  <2>2. Known(Mine(r))
    BY <1>0, <2>1 DEF Promised
  <2>3. Configured'
    BY <1>1, <2>1, <2>2 DEF HInv, Promises, Configured, Known
  <2>4. Busy(r)' /\ Promised(r)'
    BY <1>0, <1>1, <2>1 DEF Busy, Promised, Known
  <2>5. ASSUME NEW s \in Runs \ {r}
        PROVE  Busy(s)' /\ Promised(s)'
    <3>1. Busy(s) /\ Promised(s)
      BY PromisedTo
    <3> QED
      BY <1>1, <3>1 DEF Alone, Busy, Promised, Known
  <2> QED
    BY <2>3, <2>4, <2>5 DEF Promises
<1>3. CASE OnUserExists(r) \/ OnPasswordCorrect(r) \/ OnPasswordIncorrect(r)
  <2>1. /\ toClient[r] \in Answers /\ client'[r] \in {"prompt", "started", "exited"}
        /\ client'[r] = "started" =>
               client[r] = "await_login" /\ toClient[r] = "password_correct"
        /\ config' = config
    BY <1>0, <1>3 DEF OnUserExists, OnPasswordCorrect, OnPasswordIncorrect, Answer,
       BecomeClient, TypeOK, Answers
  <2>2. toServer[r] = None /\ thread[r] \in {"poll", "closed"}
    BY <1>0, <2>1 DEF Busy
  <2>3. client'[r] = "started" => hostname[r] = "files"
    BY <1>0, <2>1 DEF Promised
  <2>4. Busy(r)' /\ Promised(r)'
    BY <1>1, <2>1, <2>2, <2>3 DEF Busy, Promised
  <2> QED
    BY <1>1, <2>1, <2>4, PromisesStay
<1>4. CASE OnClosed(r) \/ KillClient(r)
  <2>1. client'[r] = "exited" /\ config' = config
    BY <1>0, <1>4 DEF OnClosed, KillClient, BecomeClient, TypeOK
  <2>2. Busy(r)' /\ Promised(r)'
    BY <1>0, <1>1, <2>1 DEF Busy, Promised, Known
  <2> QED
    BY <1>1, <2>1, <2>2, PromisesStay
<1> QED
  BY <1>2, <1>3, <1>4 DEF ClientStep

LEMMA ProcessPromises ==
    ASSUME HInv, Kill \/ Restart \/ UNCHANGED vars
    PROVE  Promises'
<1> USE DEF tables, clientVars, serverVars, vars
<1>1. /\ UNCHANGED <<tables, memory, config, request, hostname, client, toClient>>
      /\ \A r \in Runs : \/ thread'[r] = thread[r] /\ toServer'[r] = toServer[r]
                         \/ thread'[r] \in {"none", "closed"} /\ toServer'[r] = None
                            /\ (thread'[r] = "none" => thread[r] = "none")
  BY DEF Kill, Restart
<1>2. ASSUME NEW r \in Runs
      PROVE  Busy(r)' /\ Promised(r)'
  BY <1>1, PromisedTo DEF Busy, Promised, Known, Registering
<1>3. Configured'
  BY <1>1 DEF HInv, Promises, Configured, Known
<1> QED
  BY <1>2, <1>3 DEF Promises

\* The thread of a client that has logged in knows the hostname, although
\* nobody looks at what the call for it returns: when no call of the database
\* fails and the workspace table does not refer to a user who is not there yet,
\* however the registrations overlap and whichever process is killed.  Where
\* a call fails this is not so, and Sync goes on from there.
THEOREM HostnameIsKnown ==
    ASSUME ForeignKey = FALSE, "db" \notin Faults
    PROVE  Spec => []KnowsHostname
<1>1. Init => HInv
  <2> SUFFICES ASSUME Init PROVE Promises
    BY Initially DEF HInv
  <2>1. ASSUME NEW r \in Runs
        PROVE  Busy(r) /\ Promised(r)
    BY AccountsAssumption DEF Init, Busy, Promised, Registering, Answers
  <2> QED
    BY <2>1 DEF Init, Promises, Configured
<1>2. HInv /\ [Next]_vars => HInv'
  <2> SUFFICES ASSUME HInv, [Next]_vars PROVE Promises'
    BY Inductive DEF HInv
  <2>1. Working
    BY DEF Working
  <2> QED
    BY <2>1, ServerPromises, RegisterPromises, StartPromises, ClientPromises, ProcessPromises
    DEF Next
<1>3. HInv => KnowsHostname
  BY DEF HInv, Promises, Promised, KnowsHostname
<1> QED
  BY <1>1, <1>2, <1>3, PTL DEF Spec
=============================================================================
