------------------------------ MODULE Accounts ------------------------------
(***************************************************************************)
(* Registration and login: what comes before Sync.                         *)
(*                                                                         *)
(* A run is one `bongo register' or `bongo start' on a machine, with its   *)
(* connection and the server thread that serves it.  The server keeps the  *)
(* tables app_users (email is UNIQUE) and workspace (no such constraint),  *)
(* and the directory "files", the hostname every client registers with.    *)
(* A machine keeps the email of its account in ~/.bongo/config.json; the   *)
(* password is in its user's memory only.                                  *)
(***************************************************************************)
EXTENDS Integers, Sequences, FiniteSets

CONSTANTS
    Emails, Passwords,
    Machines,       \* client computers
    Runs,           \* runs of the client, at most one at a time per machine
    Home,           \* the machine of each run
    None,           \* no config, no password, no message
    ForeignKey,     \* workspace.owner_email REFERENCES app_users(email)
    MaxAttempts,    \* how often a user registers or logs in: a bound only
    Faults          \* what the environment does, see below

Answers == {"user_exists", "user_added", "password_correct", "password_incorrect"}

\* "overlap"  two registrations of one email may be in progress at once
\* "db"       a call of the database may fail, see Sync
\* "crash"    clients and the server may be killed, the server restarted
ASSUME AccountsAssumption ==
    /\ Home \in [Runs -> Machines]
    /\ None \notin Emails \cup Passwords \cup Answers
    /\ ForeignKey \in BOOLEAN
    /\ MaxAttempts \in Nat
    /\ Faults \subseteq {"overlap", "db", "crash"}

VARIABLES
    running,    \* the server process is up
    appUsers,   \* app_users: the password hash and the workspace id per email
    workspaces, \* workspace: the owner of each row, by workspace_id
    directory,  \* the directory "files" exists on the server
    thread,     \* where the thread of each run is in handleClient
    request,    \* the message each thread works on
    workspace,  \* the id each thread has read for the user it adds
    hostname,   \* the hostname each thread read at login, "unread" for ""
    config,     \* the email in the config of each machine
    memory,     \* the email and the password each machine's user chose last
    client,     \* where each run is in HandleRegister or HandleStart
    attempts,   \* registrations and logins so far
    toServer,   \* the message on its way to the server, or None
    toClient    \* the answer on its way to the client, or None

tables == <<appUsers, workspaces>>
threadVars == <<request, workspace, hostname>>
serverVars == <<running, tables, directory, thread, threadVars>>
clientVars == <<config, memory, client, attempts>>
vars == <<serverVars, clientVars, toServer, toClient>>

Registering == {"add_workspace", "read_id", "add_user", "answer_added"}
Requests == [action : {"register", "login"}, email : Emails, password : Passwords]

Init ==
    /\ running = TRUE
    /\ appUsers = << >>
    /\ workspaces = << >>
    /\ directory = FALSE
    /\ thread = [r \in Runs |-> "none"]
    /\ request = [r \in Runs |-> None]
    /\ workspace = [r \in Runs |-> -1]
    /\ hostname = [r \in Runs |-> "unread"]
    /\ config = [m \in Machines |-> None]
    /\ memory = [m \in Machines |-> None]
    /\ client = [r \in Runs |-> "off"]
    /\ attempts = 0
    /\ toServer = [r \in Runs |-> None]
    /\ toClient = [r \in Runs |-> None]

-----------------------------------------------------------------------------
(* The server's thread for run r.                                          *)

GoTo(r, state) == thread' = [thread EXCEPT ![r] = state]

Arrived(r, action) ==
    thread[r] = "poll" /\ toServer[r] # None /\ toServer[r].action = action

Take(r) ==
    /\ request' = [request EXCEPT ![r] = toServer[r]]
    /\ toServer' = [toServer EXCEPT ![r] = None]

Reply(r, answer) == toClient' = [toClient EXCEPT ![r] = answer]

DbMayFail == "db" \in Faults

Known(email) == email \in DOMAIN appUsers

\* getUser finds a row, or its second query fails with a text that is taken
\* for one.
RefuseRegistration(r) ==
    /\ Arrived(r, "register")
    /\ Known(toServer[r].email)
    /\ Take(r)
    /\ Reply(r, "user_exists")
    /\ UNCHANGED <<running, tables, directory, thread, workspace, hostname, clientVars>>

\* Mutation of BeginRegistration: registers without asking getUser first.
BeginRegistrationUnchecked(r) ==
    /\ Arrived(r, "register")
    /\ Take(r)
    /\ GoTo(r, "add_workspace")
    /\ UNCHANGED <<running, tables, directory, workspace, hostname, toClient, clientVars>>

\* getUser finds no row, or its first query fails.
BeginRegistration(r) ==
    /\ Arrived(r, "register")
    /\ ~Known(toServer[r].email) \/ DbMayFail
    /\ Take(r)
    /\ GoTo(r, "add_workspace")
    /\ UNCHANGED <<running, tables, directory, workspace, hostname, toClient, clientVars>>

\* Mutation of AddWorkspace: addUser does not return when it fails.
AddWorkspaceGoesOn(r) ==
    /\ thread[r] = "add_workspace"
    /\ \/ workspaces' = Append(workspaces, request[r].email)
       \/ DbMayFail /\ UNCHANGED workspaces
    /\ GoTo(r, "read_id")
    /\ UNCHANGED <<running, appUsers, directory, threadVars, toServer,
                   toClient, clientVars>>

\* addUser creates the workspace first, whose owner is no user yet; when that
\* fails it adds no user, and handleRegistration does not look.
AddWorkspace(r) ==
    /\ thread[r] = "add_workspace"
    /\ LET owner == request[r].email
       IN  \/ /\ ForeignKey => Known(owner)
              /\ workspaces' = Append(workspaces, owner)
              /\ GoTo(r, "read_id")
           \/ /\ (ForeignKey /\ ~Known(owner)) \/ DbMayFail
              /\ GoTo(r, "answer_added")
              /\ UNCHANGED workspaces
    /\ UNCHANGED <<running, appUsers, directory, threadVars, toServer,
                   toClient, clientVars>>

\* Mutation of ReadWorkspaceId: the id of the last row inserted.
ReadLastWorkspaceId(r) ==
    /\ thread[r] = "read_id"
    /\ workspace' = [workspace EXCEPT ![r] = Len(workspaces)]
    /\ GoTo(r, "add_user")
    /\ UNCHANGED <<running, tables, directory, request, hostname, toServer, toClient,
                   clientVars>>

\* getWorkspaceIdByEmail: std::stoi takes the first of the ids it is given.
ReadWorkspaceId(r) ==
    /\ thread[r] = "read_id"
    /\ \E id \in DOMAIN workspaces \cup {-1} :
         /\ \/ /\ id # -1 /\ workspaces[id] = request[r].email
               /\ \A i \in 1..(id - 1) : workspaces[i] # request[r].email
            \/ id = -1 /\ DbMayFail
         /\ workspace' = [workspace EXCEPT ![r] = id]
    /\ GoTo(r, "add_user")
    /\ UNCHANGED <<running, tables, directory, request, hostname, toServer, toClient,
                   clientVars>>

\* The INSERT INTO app_users, which a row with this email makes fail.
AddUser(r) ==
    /\ thread[r] = "add_user"
    /\ LET user == request[r].email
           row == [password |-> request[r].password, workspace |-> workspace[r]]
       IN  \/ /\ ~Known(user)
              /\ appUsers' = [e \in DOMAIN appUsers \cup {user} |->
                                 IF e = user THEN row ELSE appUsers[e]]
           \/ (Known(user) \/ DbMayFail) /\ UNCHANGED appUsers
    /\ GoTo(r, "answer_added")
    /\ UNCHANGED <<running, workspaces, directory, threadVars, toServer,
                   toClient, clientVars>>

\* Mutation of AnswerAdded: no answer when the directory was there before.
AnswerAddedOnce(r) ==
    /\ thread[r] = "answer_added"
    /\ directory' = TRUE
    /\ IF directory THEN UNCHANGED toClient ELSE Reply(r, "user_added")
    /\ GoTo(r, "poll")
    /\ UNCHANGED <<running, tables, threadVars, toServer, clientVars>>

\* "User added successfully", whatever addUser returned.
AnswerAdded(r) ==
    /\ thread[r] = "answer_added"
    /\ directory' = TRUE
    /\ Reply(r, "user_added")
    /\ GoTo(r, "poll")
    /\ UNCHANGED <<running, tables, threadVars, toServer, clientVars>>

\* Mutation of ReadHostname: the hostname is a variable of the branch, as that
\* of the register branch is, and not the thread's.
ReadHostnameShadowed(r) ==
    /\ Arrived(r, "login")
    /\ Take(r)
    /\ GoTo(r, "check_credentials")
    /\ UNCHANGED <<running, tables, directory, workspace, hostname, toClient, clientVars>>

\* The login handler reads the hostname first, for all that the thread does
\* later, and does not look whether there was a row or the call failed.
ReadHostname(r) ==
    /\ Arrived(r, "login")
    /\ \/ /\ Known(toServer[r].email)
          /\ hostname' = [hostname EXCEPT ![r] = "files"]
       \/ /\ ~Known(toServer[r].email) \/ DbMayFail
          /\ hostname' = [hostname EXCEPT ![r] = "unread"]
    /\ Take(r)
    /\ GoTo(r, "check_credentials")
    /\ UNCHANGED <<running, tables, directory, workspace, toClient, clientVars>>

\* checkCredentials.
CheckCredentials(r) ==
    /\ thread[r] = "check_credentials"
    /\ LET email == request[r].email
           match == Known(email) /\ appUsers[email].password = request[r].password
       IN  \/ match /\ Reply(r, "password_correct")
           \/ (~match \/ DbMayFail) /\ Reply(r, "password_incorrect")
    /\ GoTo(r, "poll")
    /\ UNCHANGED <<running, tables, directory, threadVars, toServer, clientVars>>

CloseConnection(r) ==
    /\ thread[r] = "poll" /\ toServer[r] = None
    /\ client[r] = "exited"
    /\ GoTo(r, "closed")
    /\ UNCHANGED <<running, tables, directory, threadVars, toServer,
                   toClient, clientVars>>

Kill ==
    /\ "crash" \in Faults /\ running
    /\ running' = FALSE
    /\ thread' = [r \in Runs |-> IF thread[r] = "none" THEN "none" ELSE "closed"]
    /\ toServer' = [r \in Runs |-> None]
    /\ UNCHANGED <<tables, directory, threadVars, toClient, clientVars>>

Restart ==
    /\ ~running
    /\ running' = TRUE
    /\ UNCHANGED <<tables, directory, thread, threadVars, toServer,
                   toClient, clientVars>>

-----------------------------------------------------------------------------
(* The client.                                                             *)

BecomeClient(r, state) == client' = [client EXCEPT ![r] = state]

\* A new process connects; a process that was refused keeps its connection.
Connect(r) ==
    \/ /\ client[r] = "off" /\ running
       /\ \A s \in Runs : Home[s] = Home[r] => client[s] \in {"off", "exited"}
       /\ GoTo(r, "poll")
    \/ client[r] = "prompt" /\ UNCHANGED thread

Send(r, action, email, password) ==
    /\ attempts < MaxAttempts
    /\ attempts' = attempts + 1
    /\ toServer' = IF thread'[r] = "closed" THEN toServer
                   ELSE [toServer EXCEPT ![r] =
                            [action |-> action, email |-> email, password |-> password]]
    /\ UNCHANGED <<running, tables, directory, threadVars, toClient, config>>

\* Without "overlap", nobody asks for an email that is being registered.
Undisturbed(email) ==
    \/ "overlap" \in Faults
    \/ \A r \in Runs :
          /\ client[r] = "await_register" => memory[Home[r]].email # email
          /\ thread[r] \in Registering => request[r].email # email

\* initiateRegistration with an email and a password of the user's choice.
Register(r) ==
    /\ config[Home[r]] = None
    /\ Connect(r)
    /\ \E email \in Emails, password \in Passwords :
         /\ Undisturbed(email)
         /\ Send(r, "register", email, password)
         /\ memory' = [memory EXCEPT ![Home[r]] = [email |-> email, password |-> password]]
    /\ BecomeClient(r, "await_register")

\* initiateStart; the user types the password chosen when registering.
Start(r) ==
    /\ client[r] = "off" /\ config[Home[r]] # None
    /\ Connect(r)
    /\ Send(r, "login", config[Home[r]], memory[Home[r]].password)
    /\ BecomeClient(r, "await_login")
    /\ UNCHANGED memory

Answer(r, answer) ==
    /\ toClient[r] = answer
    /\ toClient' = [toClient EXCEPT ![r] = None]

\* Mutation of OnUserAdded: the password is written as well.
OnUserAddedInFull(r) ==
    /\ client[r] = "await_register" /\ Answer(r, "user_added")
    /\ config' = [config EXCEPT ![Home[r]] = memory[Home[r]]]
    /\ BecomeClient(r, "exited")
    /\ UNCHANGED <<serverVars, memory, attempts, toServer>>

\* The config is written, and the process exits.
OnUserAdded(r) ==
    /\ client[r] = "await_register" /\ Answer(r, "user_added")
    /\ config' = [config EXCEPT ![Home[r]] = memory[Home[r]].email]
    /\ BecomeClient(r, "exited")
    /\ UNCHANGED <<serverVars, memory, attempts, toServer>>

\* Mutation of OnUserExists: the config is written before the answer is read.
OnUserExistsConfigured(r) ==
    /\ client[r] = "await_register" /\ Answer(r, "user_exists")
    /\ config' = [config EXCEPT ![Home[r]] = memory[Home[r]].email]
    /\ BecomeClient(r, "prompt")
    /\ UNCHANGED <<serverVars, memory, attempts, toServer>>

\* initiateRegistration calls itself: the user is asked again.
OnUserExists(r) ==
    /\ client[r] = "await_register" /\ Answer(r, "user_exists")
    /\ BecomeClient(r, "prompt")
    /\ UNCHANGED <<serverVars, config, memory, attempts, toServer>>

OnPasswordCorrect(r) ==
    /\ client[r] = "await_login" /\ Answer(r, "password_correct")
    /\ BecomeClient(r, "started")
    /\ UNCHANGED <<serverVars, config, memory, attempts, toServer>>

OnPasswordIncorrect(r) ==
    /\ client[r] = "await_login" /\ Answer(r, "password_incorrect")
    /\ BecomeClient(r, "exited")
    /\ UNCHANGED <<serverVars, config, memory, attempts, toServer>>

\* The server has closed the connection: a parse_error that HandleRegister
\* does not catch, or a failed login.
OnClosed(r) ==
    /\ client[r] \in {"await_register", "await_login"}
    /\ thread[r] = "closed" /\ toClient[r] = None
    /\ BecomeClient(r, "exited")
    /\ UNCHANGED <<serverVars, config, memory, attempts, toServer, toClient>>

\* The user stops the client, or the machine fails.
KillClient(r) ==
    /\ "crash" \in Faults
    /\ client[r] \notin {"off", "exited"}
    /\ BecomeClient(r, "exited")
    /\ toClient' = [toClient EXCEPT ![r] = None]
    /\ UNCHANGED <<serverVars, config, memory, attempts, toServer>>

-----------------------------------------------------------------------------
ServerStep(r) ==
    \/ RefuseRegistration(r) \/ BeginRegistration(r) \/ AddWorkspace(r)
    \/ ReadWorkspaceId(r) \/ AddUser(r) \/ AnswerAdded(r) \/ ReadHostname(r)
    \/ CheckCredentials(r) \/ CloseConnection(r)

ClientStep(r) ==
    \/ OnUserAdded(r) \/ OnUserExists(r) \/ OnPasswordCorrect(r)
    \/ OnPasswordIncorrect(r) \/ OnClosed(r)

Next ==
    \/ \E r \in Runs : \/ ServerStep(r) \/ ClientStep(r)
                       \/ Register(r) \/ Start(r) \/ KillClient(r)
    \/ Kill \/ Restart

Spec == Init /\ [][Next]_vars

\* Threads are scheduled and clients run.  Users need not do anything.
Fairness == \A r \in Runs : WF_vars(ServerStep(r)) /\ WF_vars(ClientStep(r))

FairSpec == Spec /\ Fairness

-----------------------------------------------------------------------------
(* Properties.                                                             *)

UserRow == [password : Passwords, workspace : Nat \cup {-1}]

\* The type of every variable.
TypeOK ==
    /\ running \in BOOLEAN
    /\ DOMAIN appUsers \subseteq Emails /\ \A e \in DOMAIN appUsers : appUsers[e] \in UserRow
    /\ workspaces \in Seq(Emails)
    /\ directory \in BOOLEAN
    /\ thread \in [Runs -> Registering \cup {"none", "poll", "check_credentials", "closed"}]
    /\ request \in [Runs -> Requests \cup {None}]
    /\ workspace \in [Runs -> Nat \cup {-1}]
    /\ hostname \in [Runs -> {"unread", "files"}]
    /\ config \in [Machines -> Emails \cup {None}]
    /\ memory \in [Machines -> [email : Emails, password : Passwords] \cup {None}]
    /\ client \in [Runs -> {"off", "prompt", "await_register", "await_login",
                            "started", "exited"}]
    /\ attempts \in 0..MaxAttempts
    /\ toServer \in [Runs -> Requests \cup {None}]
    /\ toClient \in [Runs -> Answers \cup {None}]

\* Whoever is told "user_added" is a user: "User added successfully"
\* (RegistrationHandler.cpp 12).  A machine with a config can log in with the
\* password its user chose.
RegisteredCanLogIn ==
    \A m \in Machines : config[m] # None =>
        Known(config[m]) /\ appUsers[config[m]].password = memory[m].password

\* An account has one workspace: with two rows of one owner every SELECT by
\* owner_email returns both (DatabseManager.cpp 166-176), so that no hash
\* equals the stored one and every sync is "not_latest".
OneWorkspaceEach ==
    \A i, j \in DOMAIN workspaces : workspaces[i] = workspaces[j] => i = j

\* The workspace_id of a user is -1, when it could not be read, or that of a
\* workspace the user owns: the row that addUser inserted and the id it reads
\* back belong together, however the registrations of several clients
\* interleave and whichever of them is cut off (UserManager.cpp 9-18).
WorkspaceOfUser ==
    \A e \in DOMAIN appUsers :
        LET id == appUsers[e].workspace
        IN  id = -1 \/ (id \in DOMAIN workspaces /\ workspaces[id] = e)

\* What Sync starts from: a client that has logged in has a user row, a
\* workspace row and a directory on the server, whichever of the calls on the
\* way failed, and although nobody looks at their results.  That its thread
\* knows the hostname, Sync does not take for granted: see KnowsHostname.
ReadyToSync ==
    \A r \in Runs : client[r] = "started" =>
        LET email == config[Home[r]]
        IN  /\ Known(email)
            /\ \E i \in DOMAIN workspaces : workspaces[i] = email
            /\ directory

\* The thread of a client that has logged in knows the hostname under which it
\* is to store files, although it asks for it before the credentials are
\* checked, and whoever else registers the email meanwhile
\* (ClientCommunicator.cpp 221 and 225).  Without it a file ends the server.
KnowsHostname ==
    \A r \in Runs : client[r] = "started" => hostname[r] = "files"

\* A client that waits for an answer gets one, or learns that the server has
\* gone: neither HandleRegister nor HandleStart sets a time limit.
Answered ==
    \A r \in Runs : client[r] \in {"await_register", "await_login"} ~>
                        client[r] \notin {"await_register", "await_login"}
=============================================================================
