------------------------ MODULE IlinkListenerProofs ------------------------
(***************************************************************************)
(* Proofs about IlinkListener for any accounts, any log, and any number of  *)
(* changes, failures and stops.  Inv is the inductive invariant.  Its core  *)
(* is what a token stands for: every registration and every confirmation    *)
(* comes with a token never used before, so that a row that was read        *)
(* earlier is the row of now, up to what was enabled, exactly if the tokens *)
(* are the same (Current, Desired).  The generation alone does not tell: it *)
(* begins at one again when an account was deleted.                         *)
(***************************************************************************)
EXTENDS IlinkListener, FiniteSetTheorems, TLAPS

\* The account still is the registration the row was read from, with the same credentials.
Holds(a, row) == account[a].generation # 0 /\ row.token = account[a].token
Agrees(a, row) == row.generation = account[a].generation /\ row.cursor = account[a].cursor

\* Every change may give one account the next generation and a new token.
Numbered ==
  \A a \in Account :
    /\ account[a].generation <= changes + 1 /\ account[a].token <= changes
    /\ desired[a].token <= changes
    /\ desired[a] # Unknown => desired[a].enabled /\ desired[a].generation # 0
    /\ \A k \in Slot : tasks[a][k].listed => tasks[a][k].row.token <= changes

\* An account has one task at a time.
Single ==
  \A a \in Account, k, l \in Slot :
    tasks[a][k].at # "none" /\ tasks[a][l].at # "none" => k = l

\* A task that was taken off the list is aborted, and of the listed ones none is while the
\* listener is up.
Shaped ==
  \A a \in Account, k \in Slot :
    /\ tasks[a][k].at = "none" => ~tasks[a][k].listed
    /\ tasks[a][k].at # "none" /\ ~tasks[a][k].listed => tasks[a][k].aborted
    /\ tasks[a][k].listed =>
         /\ tasks[a][k].row.enabled /\ tasks[a][k].row.generation # 0
         /\ Up => ~tasks[a][k].aborted

\* A process that is down has no work in line and no task.
Moded ==
  /\ job = "retiring" => jobs # <<>>
  /\ mode = "down" => jobs = <<>> /\ \A a \in Account, k \in Slot : tasks[a][k].at = "none"

\* A listed task has read what the account is now, or its token is not the account's any more;
\* only then does it stop by itself.
Current ==
  \A a \in Account, k \in Slot :
    tasks[a][k].listed /\ Holds(a, tasks[a][k].row) =>
      /\ Agrees(a, tasks[a][k].row)
      /\ Up => tasks[a][k].at # "stopping"

\* So has a refresh that is under way, for the accounts it will start.
Desired ==
  job = "retiring" /\ Up => \A a \in Account :
    /\ \A k \in Slot : tasks[a][k].listed =>
         desired[a].enabled /\ tasks[a][k].row.token = desired[a].token
    /\ ~Listed(tasks, a) /\ desired[a].enabled /\ Holds(a, desired[a]) => Agrees(a, desired[a])

\* When no refresh is in line, or only the last one still has to start its tasks, the listed
\* tasks are those of the accounts as they are now.
Matched(a) ==
  \A k \in Slot : tasks[a][k].listed =>
    account[a].enabled /\ tasks[a][k].row = account[a] /\ tasks[a][k].at # "stopping"
Settled ==
  Up =>
    /\ jobs = <<>> => \A a \in Account : Matched(a) /\ (account[a].enabled => Listed(tasks, a))
    /\ job = "retiring" /\ jobs = <<"refresh">> => \A a \in Account :
         Matched(a) /\ (Listed(tasks, a) \/ desired[a] = Runtime[a])

Inv ==
  /\ TypeOK /\ Numbered /\ Single /\ Shaped /\ Moded
  /\ Current /\ Desired /\ Settled /\ CursorMatchesInbox

-----------------------------------------------------------------------------
(* Lemmas about the helpers.                                               *)

LEMMA RowTypes ==
  ASSUME ConstantsOK
  PROVE  /\ Unknown \in AccountRow /\ NoTask \in TaskRow
         /\ 0 \in 0 .. Length /\ 1 \in 0 .. Length
  BY DEF ConstantsOK, Unknown, AccountRow, NoTask, TaskRow

\* A step that touches one task leaves the others.
LEMMA SetFacts ==
  ASSUME ConstantsOK, NEW ts \in [Account -> [Slot -> TaskRow]],
         NEW a \in Account, NEW k \in Slot, NEW t \in TaskRow
  PROVE  /\ [ts EXCEPT ![a][k] = t] \in [Account -> [Slot -> TaskRow]]
         /\ \A b \in Account, l \in Slot :
              [ts EXCEPT ![a][k] = t][b][l] = IF b = a /\ l = k THEN t ELSE ts[b][l]
  OBVIOUS

\* Whoever has one task at most has one of them listed.
LEMMA ListedByOne ==
  ASSUME NEW ts, NEW a, NEW k \in Slot, ts[a][k].listed
  PROVE  Listed(ts, a)
  BY DEF Listed

LEMMA EnabledIsRegistered ==
  ASSUME TypeOK, NEW a \in Account, account[a].enabled
  PROVE  account[a].generation # 0
  BY DEF TypeOK, Unknown

\* A refresh reads the rows of the enabled accounts.
LEMMA RuntimeTypes ==
  ASSUME ConstantsOK, TypeOK
  PROVE  /\ Runtime \in [Account -> AccountRow]
         /\ \A a \in Account : Runtime[a].enabled =>
              account[a].enabled /\ Runtime[a] = account[a]
         /\ \A a \in Account : account[a].enabled => Runtime[a] = account[a]
         /\ \A a \in Account : ~account[a].enabled => Runtime[a] = Unknown
         /\ \A a \in Account : Runtime[a].token <= account[a].token
<1>1. \A a \in Account : account[a] \in AccountRow
  BY DEF TypeOK
<1>2. \A a \in Account : account[a].token \in Nat
  BY <1>1 DEF AccountRow, ConstantsOK
<1> QED BY <1>1, <1>2, RowTypes DEF Runtime, Unknown

-----------------------------------------------------------------------------
(* Steps of one task.                                                      *)

\* A task goes on, with the row it has, and does not stop while it holds the account.
LEMMA GoesOn ==
  ASSUME ConstantsOK, Inv, NEW a \in Account, NEW k \in Slot, NEW t \in TaskRow,
         tasks' = Set(a, k, t),
         tasks[a][k].at # "none", t.at # "none",
         t.row = tasks[a][k].row, t.listed = tasks[a][k].listed, t.aborted = tasks[a][k].aborted,
         t.listed /\ Up /\ Holds(a, t.row) => t.at # "stopping",
         UNCHANGED <<account, line, mode, changes>>
  PROVE  Numbered' /\ Single' /\ Shaped' /\ Moded' /\ Current' /\ Desired' /\ Settled'
<1> USE DEF Inv, Holds, Agrees
<1>1. tasks' \in [Account -> [Slot -> TaskRow]]
  BY SetFacts DEF TypeOK, Set
<1>2. \A b \in Account, l \in Slot : tasks'[b][l] = IF b = a /\ l = k THEN t ELSE tasks[b][l]
  BY SetFacts DEF TypeOK, Set
<1>3. \A b \in Account, l \in Slot :
        /\ tasks'[b][l].row = tasks[b][l].row
        /\ tasks'[b][l].listed = tasks[b][l].listed
        /\ tasks'[b][l].aborted = tasks[b][l].aborted
        /\ tasks'[b][l].at = "none" <=> tasks[b][l].at = "none"
  BY <1>2
<1>4. \A b \in Account : Listed(tasks', b) = Listed(tasks, b)
  BY <1>3 DEF Listed
<1>5. Numbered' BY <1>3 DEF Numbered, line
<1>6. Single' BY <1>3 DEF Single
<1>7. Shaped' BY <1>3 DEF Shaped, Up
<1>8. Moded' BY <1>3 DEF Moded, line
<1>9. Current'
  BY <1>2, <1>3 DEF Current, Up
<1>10. Desired'
  BY <1>3, <1>4 DEF Desired, Up, line
<1>11. \A b \in Account : Up /\ Matched(b) => Matched(b)'
  <2> SUFFICES ASSUME NEW b \in Account, Up, Matched(b), NEW l \in Slot, tasks'[b][l].listed
               PROVE  account[b].enabled /\ tasks'[b][l].row = account[b]
                      /\ tasks'[b][l].at # "stopping"
    BY DEF Matched
  <2>1. account[b].enabled /\ tasks[b][l].row = account[b] /\ tasks[b][l].at # "stopping"
    BY <1>3 DEF Matched
  <2>2. Holds(b, tasks[b][l].row)
    BY <2>1, EnabledIsRegistered
  <2> QED BY <1>2, <1>3, <2>1, <2>2
<1>12. Settled'
  BY <1>4, <1>11 DEF Settled, Up, line, Runtime
<1> QED BY <1>5, <1>6, <1>7, <1>8, <1>9, <1>10, <1>12

\* A task that ends was taken off the list, or its account is another one by now.
LEMMA EndKeeps ==
  ASSUME ConstantsOK, Inv, NEW a \in Account, NEW k \in Slot, TaskEnds(a, k)
  PROVE  Numbered' /\ Single' /\ Shaped' /\ Moded' /\ Current' /\ Desired' /\ Settled'
<1> USE DEF Inv, Holds, Agrees
<1>1. /\ tasks[a][k].at = "stopping" /\ tasks' = Set(a, k, NoTask)
      /\ UNCHANGED <<account, inbox, log, jobs, job, desired, mode, changes>>
  BY DEF TaskEnds, store, line, bounds
<1>2. \A b \in Account, l \in Slot :
        tasks'[b][l] = IF b = a /\ l = k THEN NoTask ELSE tasks[b][l]
  BY <1>1, SetFacts, RowTypes DEF TypeOK, Set
<1>3. NoTask.at = "none" /\ ~NoTask.listed
  BY DEF NoTask
<1>4. \A b \in Account, l \in Slot : tasks'[b][l].listed => tasks'[b][l] = tasks[b][l]
  BY <1>2, <1>3
<1>5. \A b \in Account : b # a => Listed(tasks', b) = Listed(tasks, b)
  BY <1>2 DEF Listed
<1>6. ~tasks[a][k].listed => Listed(tasks', a) = Listed(tasks, a)
  BY <1>2, <1>3 DEF Listed
<1>7. Numbered' BY <1>1, <1>4 DEF Numbered
<1>8. Single' BY <1>2, <1>3 DEF Single
<1>9. Shaped' BY <1>1, <1>2, <1>3, <1>4 DEF Shaped, Up
<1>10. Moded' BY <1>1, <1>2, <1>3 DEF Moded
<1>11. Current' BY <1>1, <1>4 DEF Current, Up
<1>12. Up /\ tasks[a][k].listed => ~Holds(a, tasks[a][k].row)
  BY <1>1 DEF Current
<1>13. Desired'
  <2> SUFFICES ASSUME job = "retiring", Up
               PROVE  \A b \in Account :
                        /\ \A l \in Slot : tasks'[b][l].listed =>
                             desired[b].enabled /\ tasks'[b][l].row.token = desired[b].token
                        /\ ~Listed(tasks', b) /\ desired[b].enabled /\ Holds(b, desired[b])
                             => Agrees(b, desired[b])
    BY <1>1 DEF Desired, Up
  <2>1. \A b \in Account, l \in Slot : tasks'[b][l].listed =>
          desired[b].enabled /\ tasks'[b][l].row.token = desired[b].token
    BY <1>4 DEF Desired
  <2>2. tasks[a][k].listed => ~Holds(a, desired[a])
    BY <1>12 DEF Desired
  <2>3. \A b \in Account :
          ~Listed(tasks', b) /\ desired[b].enabled /\ Holds(b, desired[b]) => Agrees(b, desired[b])
    BY <1>5, <1>6, <2>2 DEF Desired
  <2> QED BY <2>1, <2>3
<1>14. \A b \in Account : Up /\ Matched(b) => Matched(b)'
  BY <1>1, <1>4 DEF Matched
<1>15. Up /\ Matched(a) => ~tasks[a][k].listed
  BY <1>1 DEF Matched
<1>16. Settled'
  BY <1>1, <1>5, <1>6, <1>14, <1>15 DEF Settled, Up, Runtime
<1> QED BY <1>7, <1>8, <1>9, <1>10, <1>11, <1>13, <1>16

\* A page under the row the task has read moves the cursors of both.
LEMMA CommitKeeps ==
  ASSUME ConstantsOK, Inv, NEW a \in Account, NEW k \in Slot, NEW to \in 0 .. Length,
         NEW t \in TaskRow,
         tasks[a][k].at = "polling", ~tasks[a][k].aborted, Up, Fenced(a, tasks[a][k].row),
         t.at = "polling", t.row = [tasks[a][k].row EXCEPT !.cursor = to],
         t.listed = tasks[a][k].listed, t.aborted = tasks[a][k].aborted,
         tasks' = Set(a, k, t), account' = [account EXCEPT ![a].cursor = to],
         UNCHANGED <<line, mode, changes>>
  PROVE  Numbered' /\ Single' /\ Shaped' /\ Moded' /\ Current' /\ Desired' /\ Settled'
<1> USE DEF Inv
<1>1. \A b \in Account, l \in Slot : tasks'[b][l] = IF b = a /\ l = k THEN t ELSE tasks[b][l]
  BY SetFacts DEF TypeOK, Set
<1>2. tasks[a][k].listed
  BY DEF Shaped
<1>3. \A l \in Slot : tasks[a][l].at # "none" => l = k
  BY DEF Single
<1>4. \A l \in Slot : tasks[a][l].listed => l = k
  BY <1>3 DEF Shaped
<1>5. /\ account[a] \in AccountRow /\ tasks[a][k].row \in AccountRow
      /\ \A b \in Account : account'[b] = IF b = a THEN [account[a] EXCEPT !.cursor = to]
                                          ELSE account[b]
  BY DEF TypeOK, TaskRow
<1>6. /\ account'[a].token = account[a].token /\ account'[a].generation = account[a].generation
      /\ account'[a].enabled = account[a].enabled /\ account'[a].cursor = to
  BY <1>5 DEF AccountRow
<1>7. /\ t.row.token = tasks[a][k].row.token /\ t.row.generation = tasks[a][k].row.generation
      /\ t.row.enabled = tasks[a][k].row.enabled /\ t.row.cursor = to
  BY <1>5 DEF AccountRow
<1>8. \A b \in Account, l \in Slot :
        /\ tasks'[b][l].listed = tasks[b][l].listed
        /\ tasks'[b][l].aborted = tasks[b][l].aborted
        /\ tasks'[b][l].at = tasks[b][l].at
        /\ tasks'[b][l].row.token = tasks[b][l].row.token
        /\ tasks'[b][l].row.generation = tasks[b][l].row.generation
        /\ tasks'[b][l].row.enabled = tasks[b][l].row.enabled
  BY <1>1, <1>7
<1>9. \A b \in Account : Listed(tasks', b) = Listed(tasks, b)
  BY <1>8 DEF Listed
<1>10. Numbered'
  BY <1>5, <1>6, <1>8 DEF Numbered, line
<1>11. Single' BY <1>8 DEF Single
<1>12. Shaped' BY <1>8 DEF Shaped, Up
<1>13. Moded' BY <1>8 DEF Moded, line
<1>14. Current'
  <2> SUFFICES ASSUME NEW b \in Account, NEW l \in Slot, tasks'[b][l].listed,
                      Holds(b, tasks[b][l].row)'
               PROVE  Agrees(b, tasks[b][l].row)' /\ tasks'[b][l].at # "stopping"
    BY DEF Current
  <2>1. CASE b # a
    BY <1>1, <1>5, <2>1 DEF Current, Holds, Agrees
  <2>2. CASE b = a
    <3>1. l = k /\ tasks'[b][l] = t
      BY <1>1, <1>4, <1>8, <2>2
    <3>2. t.row.generation = account'[a].generation /\ t.row.cursor = account'[a].cursor
      BY <1>6, <1>7 DEF Fenced
    <3>3. t.at # "stopping"
      OBVIOUS
    <3> QED BY <2>2, <3>1, <3>2, <3>3 DEF Agrees
  <2> QED BY <2>1, <2>2
<1>15. Desired'
  BY <1>1, <1>2, <1>5, <1>8, <1>9 DEF Desired, Up, line, Holds, Agrees, Listed
<1>16. \A b \in Account : Matched(b) => Matched(b)'
  <2> SUFFICES ASSUME NEW b \in Account, Matched(b), NEW l \in Slot, tasks'[b][l].listed
               PROVE  account'[b].enabled /\ tasks'[b][l].row = account'[b]
                      /\ tasks'[b][l].at # "stopping"
    BY DEF Matched
  <2>1. CASE b # a
    BY <1>1, <1>5, <2>1 DEF Matched
  <2>2. CASE b = a
    BY <1>1, <1>4, <1>5, <1>6, <1>8, <2>2 DEF Matched
  <2> QED BY <2>1, <2>2
<1>17. \A b \in Account :
         Listed(tasks, b) \/ desired[b] = Runtime[b]
           => Listed(tasks', b) \/ desired[b] = Runtime'[b]
  BY <1>2, <1>5, <1>9 DEF Runtime, Listed
<1>18. Settled'
  BY <1>5, <1>6, <1>9, <1>16, <1>17 DEF Settled, Up, line
<1> QED BY <1>10, <1>11, <1>12, <1>13, <1>14, <1>15, <1>18

-----------------------------------------------------------------------------
(* Changes of accounts and refreshes.                                      *)

\* A change gives an account no credentials but its own or new ones, and asks for a refresh.
LEMMA ChangeKeeps ==
  ASSUME ConstantsOK, Inv, NEW a \in Account, NEW row \in AccountRow, Change(a, row),
         row.generation <= changes + 2,
         \/ row.token = changes + 1
         \/ row.token = 0 /\ row.generation = 0
         \/ /\ row.token = account[a].token /\ row.generation = account[a].generation
            /\ row.cursor = account[a].cursor
  PROVE  Numbered' /\ Single' /\ Shaped' /\ Moded' /\ Current' /\ Desired' /\ Settled'
<1> USE DEF Inv
<1>1. /\ Up /\ changes' = changes + 1 /\ jobs' = Append(jobs, "refresh")
      /\ account' = [account EXCEPT ![a] = row]
      /\ UNCHANGED <<tasks, job, desired, mode>>
  BY DEF Change, Refresh
<1>2. \A b \in Account : account'[b] = IF b = a THEN row ELSE account[b]
  BY <1>1 DEF TypeOK
<1>3. /\ changes \in Nat /\ jobs \in Seq({"refresh", "restart"})
      /\ account[a] \in AccountRow
      /\ \A b \in Account : account[b].token \in Nat /\ account[b].generation \in Nat
      /\ \A b \in Account : desired[b].token \in Nat
      /\ \A b \in Account, l \in Slot : tasks[b][l].row.token \in Nat
  BY DEF TypeOK, ConstantsOK, AccountRow, TaskRow
<1>4. row.token \in Nat /\ row.generation \in Nat
  BY DEF AccountRow, ConstantsOK
<1>5. jobs' # <<>> /\ (jobs # <<>> => jobs' # <<"refresh">>)
  BY <1>1, <1>3
<1>6. \A b \in Account, r \in AccountRow :
        /\ r.token <= changes
        => (Holds(b, r)' => Holds(b, r) /\ (Agrees(b, r) => Agrees(b, r)'))
  <2> SUFFICES ASSUME NEW b \in Account, NEW r \in AccountRow, r.token <= changes, Holds(b, r)'
               PROVE  Holds(b, r) /\ (Agrees(b, r) => Agrees(b, r)')
    OBVIOUS
  <2>1. r.token \in Nat
    BY DEF AccountRow, ConstantsOK
  <2>2. CASE b # a
    BY <1>2, <2>2 DEF Holds, Agrees
  <2>3. CASE b = a
    <3>1. row.generation # 0 /\ r.token = row.token
      BY <1>2, <2>3 DEF Holds
    <3>2. row.token # changes + 1
      BY <1>3, <2>1, <3>1
    <3>3. /\ row.token = account[a].token /\ row.generation = account[a].generation
          /\ row.cursor = account[a].cursor
      BY <3>1, <3>2
    <3> QED BY <1>2, <2>3, <3>1, <3>3 DEF Holds, Agrees
  <2> QED BY <2>2, <2>3
<1>7. Numbered'
  <2>1. \A b \in Account : account'[b].generation <= changes' + 1 /\ account'[b].token <= changes'
    BY <1>1, <1>2, <1>3, <1>4 DEF Numbered
  <2>2. \A b \in Account : desired[b].token <= changes'
    BY <1>1, <1>3 DEF Numbered
  <2>3. \A b \in Account, l \in Slot : tasks[b][l].listed => tasks[b][l].row.token <= changes
    BY DEF Numbered
  <2>4. \A b \in Account, l \in Slot : tasks[b][l].listed => tasks[b][l].row.token <= changes'
    <3>1. \A n \in Nat : n <= changes => n <= changes'
      BY <1>1, <1>3
    <3> QED BY <1>3, <2>3, <3>1
  <2>5. \A b \in Account : desired[b] # Unknown => desired[b].enabled /\ desired[b].generation # 0
    BY DEF Numbered
  <2> QED BY <1>1, <2>1, <2>2, <2>4, <2>5 DEF Numbered
<1>8. Single' BY <1>1 DEF Single
<1>9. Shaped' BY <1>1 DEF Shaped, Up
<1>10. Moded' BY <1>1, <1>5 DEF Moded, Up
<1>11. Current'
  <2> SUFFICES ASSUME NEW b \in Account, NEW l \in Slot, tasks[b][l].listed,
                      Holds(b, tasks[b][l].row)'
               PROVE  Agrees(b, tasks[b][l].row)' /\ tasks[b][l].at # "stopping"
    BY <1>1 DEF Current
  <2>1. tasks[b][l].row \in AccountRow /\ tasks[b][l].row.token <= changes
    BY DEF TypeOK, TaskRow, Numbered
  <2>2. Holds(b, tasks[b][l].row) /\ (Agrees(b, tasks[b][l].row) => Agrees(b, tasks[b][l].row)')
    BY <1>1, <1>6, <2>1 DEF Holds, Agrees
  <2> QED BY <1>1, <2>2 DEF Current
<1>12. Desired'
  <2> SUFFICES ASSUME job = "retiring", NEW b \in Account, ~Listed(tasks, b),
                      desired[b].enabled, Holds(b, desired[b])'
               PROVE  Agrees(b, desired[b])'
    BY <1>1 DEF Desired
  <2>1. desired[b] \in AccountRow /\ desired[b].token <= changes
    BY DEF TypeOK, Numbered
  <2>2. Holds(b, desired[b]) /\ (Agrees(b, desired[b]) => Agrees(b, desired[b])')
    BY <1>1, <1>6, <2>1 DEF Holds, Agrees
  <2> QED BY <1>1, <2>2 DEF Desired
<1>13. Settled'
  BY <1>1, <1>5 DEF Settled, Moded
<1> QED BY <1>7, <1>8, <1>9, <1>10, <1>11, <1>12, <1>13

LEMMA RestartKeeps ==
  ASSUME ConstantsOK, Inv, Restart
  PROVE  Numbered' /\ Single' /\ Shaped' /\ Moded' /\ Current' /\ Desired' /\ Settled'
<1> USE DEF Inv
<1>1. /\ Up /\ changes' = changes + 1 /\ jobs' = Append(jobs, "restart")
      /\ UNCHANGED <<account, tasks, job, desired, mode>>
  BY DEF Restart, store
<1>2. /\ changes \in Nat /\ jobs \in Seq({"refresh", "restart"})
      /\ \A b \in Account : account[b].token \in Nat /\ account[b].generation \in Nat
      /\ \A b \in Account : desired[b].token \in Nat
      /\ \A b \in Account, l \in Slot : tasks[b][l].row.token \in Nat
  BY DEF TypeOK, ConstantsOK, AccountRow, TaskRow
<1>3. jobs' # <<>> /\ jobs' # <<"refresh">>
  <2>1. Len(jobs') = Len(jobs) + 1 /\ jobs'[Len(jobs) + 1] = "restart"
    BY <1>1, <1>2
  <2>2. jobs' = <<"refresh">> => Len(jobs) = 0
    BY <1>2, <2>1
  <2> QED BY <1>2, <2>1, <2>2
<1>4. Numbered'
  <2>1. \A b \in Account :
          account[b].generation <= changes' + 1 /\ account[b].token <= changes'
    BY <1>1, <1>2 DEF Numbered
  <2>2. \A b \in Account : desired[b].token <= changes'
    BY <1>1, <1>2 DEF Numbered
  <2>3. \A b \in Account, l \in Slot : tasks[b][l].listed => tasks[b][l].row.token <= changes
    BY DEF Numbered
  <2>4. \A b \in Account, l \in Slot : tasks[b][l].listed => tasks[b][l].row.token <= changes'
    BY <1>1, <1>2, <2>3
  <2>5. \A b \in Account : desired[b] # Unknown => desired[b].enabled /\ desired[b].generation # 0
    BY DEF Numbered
  <2> QED BY <1>1, <2>1, <2>2, <2>4, <2>5 DEF Numbered
<1>5. Single' BY <1>1 DEF Single
<1>6. Shaped' BY <1>1 DEF Shaped, Up
<1>7. Moded' BY <1>1, <1>3 DEF Moded, Up
<1>8. Current' BY <1>1 DEF Current, Up, Holds, Agrees
<1>9. Desired' BY <1>1 DEF Desired, Up, Holds, Agrees
<1>10. Settled' BY <1>1, <1>3 DEF Settled
<1> QED BY <1>4, <1>5, <1>6, <1>7, <1>8, <1>9, <1>10

\* A task that is taken off the list is aborted and otherwise what it was.
LEMMA TakenOffFacts ==
  ASSUME NEW t \in TaskRow
  PROVE  /\ TakenOff(t) \in TaskRow
         /\ TakenOff(t).at = t.at /\ TakenOff(t).row = t.row
         /\ TakenOff(t).aborted /\ ~TakenOff(t).listed
  BY DEF TakenOff, TaskRow

\* A refresh takes off the list what is not the account it reads.
LEMMA ReconcileKeeps ==
  ASSUME ConstantsOK, Inv, Reconcile
  PROVE  Numbered' /\ Single' /\ Shaped' /\ Moded' /\ Current' /\ Desired' /\ Settled'
<1> USE DEF Inv
<1>1. /\ jobs # <<>> /\ job = "none"
      /\ UNCHANGED <<account, mode, changes>>
  BY DEF Reconcile, store, bounds
<1>2. CASE ~Up
  <2>1. jobs' = Tail(jobs) /\ UNCHANGED <<tasks, job, desired>>
    BY <1>2 DEF Reconcile
  <2>2. mode # "down"
    BY <1>1 DEF Moded
  <2>3. Numbered' BY <1>1, <2>1 DEF Numbered
  <2>4. Single' BY <2>1 DEF Single
  <2>5. Shaped' BY <1>1, <2>1 DEF Shaped, Up
  <2>6. Moded' BY <1>1, <2>1, <2>2 DEF Moded
  <2>7. Current' BY <1>1, <2>1 DEF Current, Holds, Agrees, Up
  <2>8. Desired' /\ Settled' BY <1>1, <1>2 DEF Desired, Settled, Up
  <2> QED BY <2>3, <2>4, <2>5, <2>6, <2>7, <2>8
<1>3. CASE Up
  <2>1. /\ job' = "retiring" /\ desired' = Runtime /\ UNCHANGED jobs
        /\ tasks' = [b \in Account |-> [l \in Slot |->
             IF Retires(b, l) THEN TakenOff(tasks[b][l]) ELSE tasks[b][l]]]
    BY <1>3 DEF Reconcile
  <2>2. \A b \in Account, l \in Slot : tasks[b][l] \in TaskRow
    BY DEF TypeOK
  <2>3. \A b \in Account, l \in Slot :
          /\ tasks'[b][l].at = tasks[b][l].at /\ tasks'[b][l].row = tasks[b][l].row
          /\ tasks'[b][l].listed <=> tasks[b][l].listed /\ ~Retires(b, l)
          /\ Retires(b, l) => tasks'[b][l].aborted
          /\ ~Retires(b, l) => tasks'[b][l] = tasks[b][l]
    BY <2>1, <2>2, TakenOffFacts
  <2>4. \A b \in Account, l \in Slot : tasks'[b][l].listed =>
          tasks[b][l].listed /\ tasks[b][l].row = Runtime[b]
    BY <2>3 DEF Retires, SameRuntime
  <2>5. \A b \in Account, l \in Slot : tasks'[b][l].listed =>
          /\ account[b].enabled /\ tasks[b][l].row = account[b] /\ Runtime[b] = account[b]
          /\ Holds(b, tasks[b][l].row)
    BY <2>4, RuntimeTypes, EnabledIsRegistered DEF Shaped, Holds
  <2>6. Numbered'
    <3>1. \A b \in Account : desired'[b].token <= changes
      <4> SUFFICES ASSUME NEW b \in Account PROVE Runtime[b].token <= changes
        BY <2>1
      <4>1. Runtime[b].token <= account[b].token /\ account[b].token <= changes
        BY RuntimeTypes DEF Numbered
      <4>2. Runtime[b].token \in Nat /\ account[b].token \in Nat /\ changes \in Nat
        BY RuntimeTypes DEF TypeOK, AccountRow, ConstantsOK
      <4> QED BY <4>1, <4>2
    <3>2. \A b \in Account : desired'[b] # Unknown =>
            desired'[b].enabled /\ desired'[b].generation # 0
      <4> SUFFICES ASSUME NEW b \in Account, Runtime[b] # Unknown
                   PROVE  Runtime[b].enabled /\ Runtime[b].generation # 0
        BY <2>1
      <4>1. account[b].enabled /\ Runtime[b] = account[b]
        BY RuntimeTypes
      <4> QED BY <4>1, EnabledIsRegistered
    <3> QED BY <1>1, <2>3, <2>4, <3>1, <3>2 DEF Numbered
  <2>7. Single' BY <2>3 DEF Single
  <2>8. Shaped' BY <1>1, <2>3 DEF Shaped, Up
  <2>9. Moded' BY <1>1, <1>3, <2>1 DEF Moded, Up
  <2>10. Current'
    BY <1>1, <2>3 DEF Current, Holds, Agrees, Up
  <2>11. Desired'
    <3> SUFFICES ASSUME NEW b \in Account
                 PROVE  /\ \A l \in Slot : tasks'[b][l].listed =>
                             Runtime[b].enabled /\ tasks'[b][l].row.token = Runtime[b].token
                        /\ Runtime[b].enabled => Agrees(b, Runtime[b])
      BY <1>1, <2>1 DEF Desired, Agrees
    <3> QED BY <2>3, <2>5, RuntimeTypes DEF Agrees
  <2>12. \A b \in Account : Matched(b)'
    BY <1>1, <1>3, <2>3, <2>5 DEF Matched, Current
  <2>13. Settled'
    BY <1>1, <2>1, <2>12 DEF Settled, Runtime
  <2> QED BY <2>6, <2>7, <2>8, <2>9, <2>10, <2>11, <2>13
<1> QED BY <1>2, <1>3

LEMMA OneJob ==
  ASSUME NEW S, NEW q \in Seq(S), q # <<>>, Tail(q) = <<>>
  PROVE  q = <<Head(q)>>
<1>1. Len(q) = 1
  <2>1. Len(q) \in Nat \ {0}
    OBVIOUS
  <2>2. Len(Tail(q)) = Len(q) - 1
    OBVIOUS
  <2>3. Len(Tail(q)) = 0
    <3>1. Len(<<>>) = 0
      OBVIOUS
    <3> QED BY <3>1
  <2> QED BY <2>1, <2>2, <2>3
<1>2. Head(q) = q[1]
  OBVIOUS
<1> QED BY <1>1, <1>2

\* The accounts that get a task have none: the tasks they had were waited for.
LEMMA StartedFacts ==
  ASSUME ConstantsOK, Inv, Retired, NEW a \in Account
  PROVE  /\ Listed(tasks, a) \/ desired[a] = Unknown => Started(a) = tasks[a]
         /\ ~Listed(tasks, a) /\ desired[a] # Unknown =>
              \A k \in Slot :
                Started(a)[k] =
                  IF k = 1
                  THEN [at |-> "starting", row |-> desired[a], startedAt |-> log[a],
                        catchingUp |-> TRUE, aborted |-> FALSE, listed |-> TRUE]
                  ELSE tasks[a][k]
         /\ ~Listed(tasks, a) => \A k \in Slot : tasks[a][k].at = "none" /\ ~tasks[a][k].listed
         /\ Started(a) \in [Slot -> TaskRow]
<1> DEFINE new == [at |-> "starting", row |-> desired[a], startedAt |-> log[a],
                   catchingUp |-> TRUE, aborted |-> FALSE, listed |-> TRUE]
<1>1. tasks[a] \in [Slot -> TaskRow] /\ 1 \in Slot
  BY DEF Inv, TypeOK, Slot
<1>2. new \in TaskRow
  BY DEF Inv, TypeOK, TaskRow
<1>3. ~Listed(tasks, a) => \A k \in Slot : tasks[a][k].at = "none" /\ ~tasks[a][k].listed
  BY DEF Retired, Listed
<1>4. ~Listed(tasks, a) /\ desired[a] # Unknown => Started(a) = [tasks[a] EXCEPT ![1] = new]
  BY <1>1, <1>3 DEF Started
<1>5. Listed(tasks, a) \/ desired[a] = Unknown => Started(a) = tasks[a]
  BY DEF Started
<1> HIDE DEF new
<1>6. [tasks[a] EXCEPT ![1] = new] \in [Slot -> TaskRow]
  BY <1>1, <1>2
<1>7. \A k \in Slot : [tasks[a] EXCEPT ![1] = new][k] = IF k = 1 THEN new ELSE tasks[a][k]
  BY <1>1
<1>8. ~Listed(tasks, a) /\ desired[a] # Unknown =>
        \A k \in Slot : Started(a)[k] = IF k = 1 THEN new ELSE tasks[a][k]
  BY <1>4, <1>7
<1>9. Started(a) \in [Slot -> TaskRow]
  BY <1>1, <1>4, <1>5, <1>6
<1> QED BY <1>3, <1>5, <1>8, <1>9 DEF new

LEMMA StartAccountsKeeps ==
  ASSUME ConstantsOK, Inv, StartAccounts
  PROVE  Numbered' /\ Single' /\ Shaped' /\ Moded' /\ Current' /\ Desired' /\ Settled'
<1> USE DEF Inv
<1>1. /\ job = "retiring" /\ Head(jobs) = "refresh" /\ Retired
      /\ job' = "none" /\ jobs' = Tail(jobs)
      /\ desired' = [b \in Account |-> Unknown]
      /\ UNCHANGED <<account, mode, changes>>
  BY DEF StartAccounts, store, bounds
<1>2. jobs # <<>> /\ mode # "down" /\ jobs \in Seq({"refresh", "restart"})
  BY <1>1 DEF Moded, TypeOK
<1>3. /\ \A b \in Account : desired'[b] = Unknown
      /\ ~Unknown.enabled /\ Unknown.token = 0 /\ changes \in Nat
  BY <1>1 DEF Unknown, TypeOK, ConstantsOK
<1>4. Desired' BY <1>1 DEF Desired
<1>5. Moded' BY <1>1, <1>2 DEF Moded
<1>6. CASE ~Up
  <2>1. UNCHANGED tasks
    BY <1>6 DEF StartAccounts
  <2>2. Numbered' BY <1>1, <1>3, <2>1 DEF Numbered
  <2>3. Single' BY <2>1 DEF Single
  <2>4. Shaped' BY <1>1, <2>1 DEF Shaped, Up
  <2>5. Current' BY <1>1, <2>1 DEF Current, Holds, Agrees, Up
  <2>6. Settled' BY <1>1, <1>6 DEF Settled, Up
  <2> QED BY <1>4, <1>5, <2>2, <2>3, <2>4, <2>5, <2>6
<1>7. CASE Up
  <2>1. \A b \in Account : tasks'[b] = Started(b)
    BY <1>7 DEF StartAccounts
  <2> DEFINE Fresh(b) == ~Listed(tasks, b) /\ desired[b] # Unknown
  <2>2. \A b \in Account : ~Fresh(b) => tasks'[b] = tasks[b]
    BY <1>1, <2>1, StartedFacts
  <2>3. \A b \in Account, l \in Slot : Fresh(b) =>
          /\ tasks[b][l].at = "none" /\ ~tasks[b][l].listed
          /\ l # 1 => tasks'[b][l] = tasks[b][l]
    <3> SUFFICES ASSUME NEW b \in Account, NEW l \in Slot, Fresh(b)
                 PROVE  /\ tasks[b][l].at = "none" /\ ~tasks[b][l].listed
                        /\ l # 1 => tasks'[b][l] = tasks[b][l]
      OBVIOUS
    <3>1. tasks[b][l].at = "none" /\ ~tasks[b][l].listed
      BY <1>1, StartedFacts
    <3>2. l # 1 => Started(b)[l] = tasks[b][l]
      BY <1>1, StartedFacts
    <3> QED BY <2>1, <3>1, <3>2
  <2>4. \A b \in Account : Fresh(b) =>
          /\ tasks'[b][1].at = "starting" /\ tasks'[b][1].row = desired[b]
          /\ ~tasks'[b][1].aborted /\ tasks'[b][1].listed
    <3> SUFFICES ASSUME NEW b \in Account, Fresh(b)
                 PROVE  /\ tasks'[b][1].at = "starting" /\ tasks'[b][1].row = desired[b]
                        /\ ~tasks'[b][1].aborted /\ tasks'[b][1].listed
      OBVIOUS
    <3>1. 1 \in Slot
      BY DEF Slot
    <3>2. Started(b)[1] = [at |-> "starting", row |-> desired[b], startedAt |-> log[b],
                           catchingUp |-> TRUE, aborted |-> FALSE, listed |-> TRUE]
      BY <1>1, <3>1, StartedFacts
    <3> QED BY <2>1, <3>2
  <2>5. \A b \in Account : Fresh(b) =>
          /\ desired[b].enabled /\ desired[b].generation # 0 /\ desired[b].token <= changes
          /\ Holds(b, desired[b]) => Agrees(b, desired[b])
    BY <1>1, <1>7 DEF Desired, Numbered
  <2> HIDE DEF Fresh
  <2>6. Numbered'
    BY <1>1, <1>3, <2>2, <2>3, <2>4, <2>5 DEF Numbered
  <2>7. Single' BY <2>2, <2>3 DEF Single
  <2>8. Shaped'
    BY <1>1, <2>2, <2>3, <2>4, <2>5 DEF Shaped, Up
  <2>9. Current'
    BY <1>1, <2>2, <2>3, <2>4, <2>5 DEF Current, Holds, Agrees, Up
  <2>10. Settled'
    <3> SUFFICES ASSUME jobs' = <<>>, NEW b \in Account
                 PROVE  Matched(b)' /\ (account[b].enabled => Listed(tasks', b))
      BY <1>1 DEF Settled
    <3>1. jobs = <<"refresh">>
      BY <1>1, <1>2, OneJob
    <3>2. Matched(b) /\ (Listed(tasks, b) \/ desired[b] = Runtime[b])
      BY <1>1, <1>7, <3>1 DEF Settled
    <3>3. CASE Fresh(b)
      <4>1. account[b].enabled /\ desired[b] = account[b]
        <5>1. desired[b] = Runtime[b] /\ Runtime[b] # Unknown
          BY <3>2, <3>3 DEF Fresh
        <5> QED BY <5>1, RuntimeTypes
      <4> QED BY <1>1, <2>3, <2>4, <3>3, <4>1, ListedByOne DEF Matched, Slot, Listed
    <3>4. CASE ~Fresh(b)
      <4>1. Matched(b)'
        BY <1>1, <2>2, <3>2, <3>4 DEF Matched
      <4>2. account[b].enabled => Listed(tasks, b)
        BY <3>2, <3>4, <1>3, RuntimeTypes DEF Fresh, Runtime
      <4> QED BY <2>2, <3>4, <4>1, <4>2 DEF Listed
    <3> QED BY <3>3, <3>4
  <2> QED BY <1>4, <1>5, <2>6, <2>7, <2>8, <2>9, <2>10
<1> QED BY <1>6, <1>7

LEMMA RestartedKeeps ==
  ASSUME ConstantsOK, Inv, Restarted
  PROVE  Numbered' /\ Single' /\ Shaped' /\ Moded' /\ Current' /\ Desired' /\ Settled'
<1> USE DEF Inv
<1>1. /\ job = "retiring" /\ job' = "none" /\ jobs' = <<"refresh">> \o Tail(jobs)
      /\ desired' = [b \in Account |-> Unknown]
      /\ UNCHANGED <<account, tasks, mode, changes>>
  BY DEF Restarted, store, bounds
<1>2. jobs # <<>> /\ mode # "down" /\ jobs \in Seq({"refresh", "restart"})
  BY <1>1 DEF Moded, TypeOK
<1>3. jobs' # <<>>
  <2>1. Tail(jobs) \in Seq({"refresh", "restart"})
    BY <1>2
  <2>2. Len(jobs') = 1 + Len(Tail(jobs)) /\ Len(Tail(jobs)) \in Nat
    BY <1>1, <2>1
  <2>3. Len(jobs') # 0
    BY <2>2
  <2> QED BY <2>3
<1>4. /\ \A b \in Account : desired'[b] = Unknown
      /\ Unknown.token = 0 /\ changes \in Nat
  BY <1>1 DEF Unknown, TypeOK, ConstantsOK
<1>5. Numbered' BY <1>1, <1>4 DEF Numbered
<1>6. Single' BY <1>1 DEF Single
<1>7. Shaped' BY <1>1 DEF Shaped, Up
<1>8. Moded' BY <1>1, <1>2, <1>3 DEF Moded
<1>9. Current' BY <1>1 DEF Current, Holds, Agrees, Up
<1>10. Desired' /\ Settled' BY <1>1, <1>3 DEF Desired, Settled
<1> QED BY <1>5, <1>6, <1>7, <1>8, <1>9, <1>10

-----------------------------------------------------------------------------
(* The process.                                                            *)

LEMMA ToldFacts ==
  ASSUME NEW t \in TaskRow
  PROVE  /\ Told(t) \in TaskRow
         /\ Told(t).at = t.at /\ Told(t).row = t.row /\ Told(t).listed = t.listed
         /\ t.aborted => Told(t).aborted
  BY DEF Told, TaskRow

\* close leaves the list as it is: what is listed is aborted from now on.
LEMMA CloseKeeps ==
  ASSUME ConstantsOK, Inv, Close
  PROVE  Numbered' /\ Single' /\ Shaped' /\ Moded' /\ Current' /\ Desired' /\ Settled'
<1> USE DEF Inv
<1>1. /\ Up /\ mode' = "closing"
      /\ tasks' = [b \in Account |-> [l \in Slot |-> Told(tasks[b][l])]]
      /\ UNCHANGED <<account, jobs, job, desired, changes>>
  BY DEF Close, store, line
<1>2. \A b \in Account, l \in Slot :
        /\ tasks'[b][l].at = tasks[b][l].at /\ tasks'[b][l].row = tasks[b][l].row
        /\ tasks'[b][l].listed = tasks[b][l].listed
        /\ tasks[b][l].aborted => tasks'[b][l].aborted
  BY <1>1, ToldFacts DEF TypeOK
<1>3. ~Up' /\ mode' # "down"
  BY <1>1 DEF Up
<1>4. Numbered' BY <1>1, <1>2 DEF Numbered
<1>5. Single' BY <1>2 DEF Single
<1>6. Shaped' BY <1>2, <1>3 DEF Shaped
<1>7. Moded' BY <1>1, <1>3 DEF Moded
<1>8. Current' BY <1>1, <1>2, <1>3 DEF Current, Holds, Agrees
<1>9. Desired' /\ Settled' BY <1>3 DEF Desired, Settled
<1> QED BY <1>4, <1>5, <1>6, <1>7, <1>8, <1>9

LEMMA ClosedKeeps ==
  ASSUME ConstantsOK, Inv, Closed
  PROVE  Numbered' /\ Single' /\ Shaped' /\ Moded' /\ Current' /\ Desired' /\ Settled'
<1> USE DEF Inv
<1>1. /\ jobs = <<>> /\ mode' = "down"
      /\ UNCHANGED <<account, tasks, jobs, job, desired, changes>>
  BY DEF Closed, store, line, bounds
<1>2. \A b \in Account, l \in Slot : tasks[b][l].at = "none"
  <2>1. \A b \in Account, l \in Slot : <<b, l>> \notin Alive(tasks)
    BY DEF Closed
  <2> QED BY <2>1 DEF Alive
<1>3. ~Up' BY <1>1 DEF Up
<1>4. Numbered' BY <1>1 DEF Numbered
<1>5. Single' BY <1>1 DEF Single
<1>6. Shaped' BY <1>1, <1>3 DEF Shaped
<1>7. Moded' BY <1>1, <1>2 DEF Moded
<1>8. Current' BY <1>1, <1>3 DEF Current, Holds, Agrees
<1>9. Desired' /\ Settled' BY <1>3 DEF Desired, Settled
<1> QED BY <1>4, <1>5, <1>6, <1>7, <1>8, <1>9

LEMMA CrashKeeps ==
  ASSUME ConstantsOK, Inv, Crash
  PROVE  Numbered' /\ Single' /\ Shaped' /\ Moded' /\ Current' /\ Desired' /\ Settled'
<1> USE DEF Inv
<1>1. /\ mode' = "down" /\ jobs' = <<>> /\ job' = "none"
      /\ tasks' = [b \in Account |-> [l \in Slot |-> NoTask]]
      /\ desired' = [b \in Account |-> Unknown]
      /\ UNCHANGED <<account, changes>>
  BY DEF Crash, store
<1>2. \A b \in Account, l \in Slot : tasks'[b][l].at = "none" /\ ~tasks'[b][l].listed
  BY <1>1 DEF NoTask
<1>3. \A b \in Account : desired'[b] = Unknown /\ desired'[b].token = 0
  BY <1>1 DEF Unknown
<1>4. ~Up' /\ changes \in Nat BY <1>1 DEF Up, TypeOK, ConstantsOK
<1>5. Numbered' BY <1>1, <1>2, <1>3, <1>4 DEF Numbered
<1>6. Single' BY <1>2 DEF Single
<1>7. Shaped' BY <1>2 DEF Shaped
<1>8. Moded' BY <1>1, <1>2 DEF Moded
<1>9. Current' BY <1>2 DEF Current
<1>10. Desired' /\ Settled' BY <1>4 DEF Desired, Settled
<1> QED BY <1>5, <1>6, <1>7, <1>8, <1>9, <1>10

LEMMA StartKeeps ==
  ASSUME ConstantsOK, Inv, Start
  PROVE  Numbered' /\ Single' /\ Shaped' /\ Moded' /\ Current' /\ Desired' /\ Settled'
<1> USE DEF Inv
<1>1. /\ mode = "down" /\ mode' = "up" /\ jobs' = <<"refresh">>
      /\ UNCHANGED <<account, tasks, job, desired, changes>>
  BY DEF Start, store, bounds
<1>2. \A b \in Account, l \in Slot : tasks[b][l].at = "none" /\ ~tasks[b][l].listed
  BY <1>1 DEF Moded, Shaped
<1>3. job # "retiring" /\ jobs' # <<>>
  BY <1>1 DEF Moded
<1>4. Numbered' BY <1>1 DEF Numbered
<1>5. Single' BY <1>1 DEF Single
<1>6. Shaped' BY <1>1, <1>2 DEF Shaped
<1>7. Moded' BY <1>1, <1>3 DEF Moded
<1>8. Current' BY <1>1, <1>2 DEF Current
<1>9. Desired' /\ Settled' BY <1>1, <1>3 DEF Desired, Settled
<1> QED BY <1>4, <1>5, <1>6, <1>7, <1>8, <1>9

\* What a message or a drain changes is no part of it.
LEMMA OthersKeep ==
  ASSUME ConstantsOK, Inv, UNCHANGED <<account, tasks, line, mode, changes>>
  PROVE  Numbered' /\ Single' /\ Shaped' /\ Moded' /\ Current' /\ Desired' /\ Settled'
<1> USE DEF Inv, line
<1>1. Numbered' BY DEF Numbered
<1>2. Single' BY DEF Single
<1>3. Shaped' BY DEF Shaped, Up
<1>4. Moded' BY DEF Moded
<1>5. Current' BY DEF Current, Holds, Agrees, Up
<1>6. Desired' BY DEF Desired, Holds, Agrees, Up
<1>7. Settled' BY DEF Settled, Matched, Runtime, Up
<1> QED BY <1>1, <1>2, <1>3, <1>4, <1>5, <1>6, <1>7

-----------------------------------------------------------------------------
(* The steps.                                                              *)

LEMMA NotifyTypes ==
  ASSUME NEW ts, NEW told \in BOOLEAN, drain \in BOOLEAN, NotifyIfAll(ts, told)
  PROVE  notified' \in BOOLEAN /\ drain' \in BOOLEAN
  BY DEF NotifyIfAll, Notifies

\* A step that changes tasks only.
LEMMA TaskStepTypes ==
  ASSUME ConstantsOK, Inv, tasks' \in [Account -> [Slot -> TaskRow]],
         UNCHANGED <<store, log, line, mode, changes, stops>>,
         notified' \in BOOLEAN, drain' \in BOOLEAN, failures' \in 0 .. MaxFailures
  PROVE  TypeOK' /\ CursorMatchesInbox'
<1>1. UNCHANGED <<account, inbox, log, jobs, job, desired, mode, changes, stops>>
  BY DEF store, line
<1>2. TypeOK'
  BY <1>1 DEF Inv, TypeOK
<1>3. CursorMatchesInbox'
  BY <1>1 DEF Inv, CursorMatchesInbox
<1> QED BY <1>2, <1>3

LEMMA TaskStartedInv ==
  ASSUME ConstantsOK, Inv, NEW a \in Account, NEW k \in Slot, TaskStarted(a, k)
  PROVE  Inv'
<1> DEFINE t == [tasks[a][k] EXCEPT !.at =
                   IF tasks[a][k].aborted \/ ~Up THEN "stopping" ELSE "polling"]
<1>1. tasks[a][k] \in TaskRow
  BY DEF Inv, TypeOK
<1>2. /\ tasks[a][k].at = "starting" /\ tasks' = Set(a, k, t)
      /\ UNCHANGED <<store, log, line, notified, drain, mode, changes, failures, stops>>
  BY DEF TaskStarted, bounds
<1>3. /\ t \in TaskRow /\ t.row = tasks[a][k].row /\ t.listed = tasks[a][k].listed
      /\ t.aborted = tasks[a][k].aborted
      /\ t.at = IF tasks[a][k].aborted \/ ~Up THEN "stopping" ELSE "polling"
  BY <1>1 DEF TaskRow
<1>4. t.listed /\ Up => ~tasks[a][k].aborted
  BY <1>3 DEF Inv, Shaped
<1>5. tasks' \in [Account -> [Slot -> TaskRow]]
  BY <1>2, <1>3, SetFacts DEF Inv, TypeOK, Set
<1>6. TypeOK' /\ CursorMatchesInbox'
  BY <1>2, <1>5, TaskStepTypes DEF Inv, TypeOK
<1>7. t.at # "none" /\ (t.listed /\ Up => t.at # "stopping")
  BY <1>3, <1>4
<1>8. UNCHANGED <<account, line, mode, changes>>
  BY <1>2 DEF store
<1> HIDE DEF t
<1>9. Numbered' /\ Single' /\ Shaped' /\ Moded' /\ Current' /\ Desired' /\ Settled'
  BY <1>2, <1>3, <1>7, <1>8, GoesOn
<1> QED BY <1>6, <1>9 DEF Inv

LEMMA TaskAbortedInv ==
  ASSUME ConstantsOK, Inv, NEW a \in Account, NEW k \in Slot, TaskAborted(a, k)
  PROVE  Inv'
<1> DEFINE t == [tasks[a][k] EXCEPT !.at = "stopping"]
<1>1. tasks[a][k] \in TaskRow
  BY DEF Inv, TypeOK
<1>2. /\ tasks[a][k].at \in {"polling", "sleeping"} /\ tasks[a][k].aborted
      /\ tasks' = Set(a, k, t)
      /\ UNCHANGED <<store, log, line, notified, drain, mode, changes, failures, stops>>
  BY DEF TaskAborted, bounds
<1>3. /\ t \in TaskRow /\ t.row = tasks[a][k].row /\ t.listed = tasks[a][k].listed
      /\ t.aborted = tasks[a][k].aborted /\ t.at = "stopping"
  BY <1>1 DEF TaskRow
<1>4. ~(t.listed /\ Up)
  BY <1>2, <1>3 DEF Inv, Shaped
<1>5. tasks' \in [Account -> [Slot -> TaskRow]]
  BY <1>2, <1>3, SetFacts DEF Inv, TypeOK, Set
<1>6. TypeOK' /\ CursorMatchesInbox'
  BY <1>2, <1>5, TaskStepTypes DEF Inv, TypeOK
<1>7. UNCHANGED <<account, line, mode, changes>>
  BY <1>2 DEF store
<1> HIDE DEF t
<1>8. Numbered' /\ Single' /\ Shaped' /\ Moded' /\ Current' /\ Desired' /\ Settled'
  BY <1>2, <1>3, <1>4, <1>7, GoesOn
<1> QED BY <1>6, <1>8 DEF Inv

LEMMA PollFailsInv ==
  ASSUME ConstantsOK, Inv, NEW a \in Account, NEW k \in Slot, PollFails(a, k)
  PROVE  Inv'
<1> DEFINE t == [tasks[a][k] EXCEPT !.at = "sleeping", !.catchingUp = FALSE]
<1>1. tasks[a][k] \in TaskRow
  BY DEF Inv, TypeOK
<1>2. /\ tasks[a][k].at = "polling"
      /\ tasks' = Set(a, k, t)
      /\ failures < MaxFailures /\ failures' = failures + 1
      /\ UNCHANGED <<store, log, line, mode, changes, stops>>
  BY DEF PollFails
<1>3. /\ t \in TaskRow /\ t.row = tasks[a][k].row /\ t.listed = tasks[a][k].listed
      /\ t.aborted = tasks[a][k].aborted /\ t.at = "sleeping"
  BY <1>1 DEF TaskRow
<1>4. tasks' \in [Account -> [Slot -> TaskRow]]
  BY <1>2, <1>3, SetFacts DEF Inv, TypeOK, Set
<1>5. notified' \in BOOLEAN /\ drain' \in BOOLEAN
  <2>1. notified \in BOOLEAN /\ drain \in BOOLEAN
    BY DEF Inv, TypeOK
  <2>2. CASE tasks[a][k].catchingUp
    BY <2>1, <2>2, NotifyTypes DEF PollFails
  <2>3. CASE ~tasks[a][k].catchingUp
    BY <2>1, <2>3 DEF PollFails
  <2> QED BY <2>2, <2>3
<1>6. failures' \in 0 .. MaxFailures
  BY <1>2 DEF Inv, TypeOK, ConstantsOK
<1>7. TypeOK' /\ CursorMatchesInbox'
  BY <1>2, <1>4, <1>5, <1>6, TaskStepTypes
<1>8. UNCHANGED <<account, line, mode, changes>>
  BY <1>2 DEF store
<1> HIDE DEF t
<1>9. Numbered' /\ Single' /\ Shaped' /\ Moded' /\ Current' /\ Desired' /\ Settled'
  BY <1>2, <1>3, <1>8, GoesOn
<1> QED BY <1>7, <1>9 DEF Inv

LEMMA PollAgainInv ==
  ASSUME ConstantsOK, Inv, NEW a \in Account, NEW k \in Slot, PollAgain(a, k)
  PROVE  Inv'
<1> DEFINE t == [tasks[a][k] EXCEPT !.at = "polling"]
<1>1. tasks[a][k] \in TaskRow
  BY DEF Inv, TypeOK
<1>2. /\ tasks[a][k].at = "sleeping" /\ tasks' = Set(a, k, t)
      /\ UNCHANGED <<store, log, line, notified, drain, mode, changes, failures, stops>>
  BY DEF PollAgain, bounds
<1>3. /\ t \in TaskRow /\ t.row = tasks[a][k].row /\ t.listed = tasks[a][k].listed
      /\ t.aborted = tasks[a][k].aborted /\ t.at = "polling"
  BY <1>1 DEF TaskRow
<1>4. tasks' \in [Account -> [Slot -> TaskRow]]
  BY <1>2, <1>3, SetFacts DEF Inv, TypeOK, Set
<1>5. TypeOK' /\ CursorMatchesInbox'
  BY <1>2, <1>4, TaskStepTypes DEF Inv, TypeOK
<1>6. UNCHANGED <<account, line, mode, changes>>
  BY <1>2 DEF store
<1> HIDE DEF t
<1>7. Numbered' /\ Single' /\ Shaped' /\ Moded' /\ Current' /\ Desired' /\ Settled'
  BY <1>2, <1>3, <1>6, GoesOn
<1> QED BY <1>5, <1>7 DEF Inv

LEMMA TaskEndsInv ==
  ASSUME ConstantsOK, Inv, NEW a \in Account, NEW k \in Slot, TaskEnds(a, k)
  PROVE  Inv'
<1>1. /\ tasks' = Set(a, k, NoTask)
      /\ UNCHANGED <<store, log, line, mode, changes, failures, stops>>
  BY DEF TaskEnds, bounds
<1>2. tasks' \in [Account -> [Slot -> TaskRow]]
  BY <1>1, RowTypes, SetFacts DEF Inv, TypeOK, Set
<1>3. notified' \in BOOLEAN /\ drain' \in BOOLEAN
  BY NotifyTypes DEF TaskEnds, Inv, TypeOK
<1>4. TypeOK' /\ CursorMatchesInbox'
  BY <1>1, <1>2, <1>3, TaskStepTypes DEF Inv, TypeOK
<1> QED BY <1>4, EndKeeps DEF Inv

\* A page that begins where the inbox of the account ends makes it end where the page does.
LEMMA PageFacts ==
  ASSUME ConstantsOK, NEW a \in Account, NEW from \in 0 .. Length, NEW to \in 0 .. Length,
         from <= to, NEW startedAt \in 0 .. Length,
         inbox \in [Account -> [Message -> {"absent", "absorbed", "deferred", "handed"}]],
         \A i \in Message : inbox[a][i] # "absent" <=> i <= from
  PROVE  /\ Page(a, from, to, startedAt) \in
              [Account -> [Message -> {"absent", "absorbed", "deferred", "handed"}]]
         /\ \A i \in Message : Page(a, from, to, startedAt)[a][i] # "absent" <=> i <= to
         /\ \A b \in Account : b # a => Page(a, from, to, startedAt)[b] = inbox[b]
<1> DEFINE entry(i) ==
      CASE i = to /\ to > from -> IF to <= startedAt THEN "deferred" ELSE "handed"
        [] i > from /\ i < to -> "absorbed"
        [] i <= from /\ to > from /\ inbox[a][i] = "deferred" -> "absorbed"
        [] OTHER -> inbox[a][i]
<1>1. \A i \in Message :
        /\ entry(i) \in {"absent", "absorbed", "deferred", "handed"}
        /\ entry(i) # "absent" <=> i <= to
  <2> SUFFICES ASSUME NEW i \in Message
               PROVE  /\ entry(i) \in {"absent", "absorbed", "deferred", "handed"}
                      /\ entry(i) # "absent" <=> i <= to
    OBVIOUS
  <2>1. i \in Nat /\ from \in Nat /\ to \in Nat
    BY DEF Message, ConstantsOK
  <2>2. inbox[a][i] \in {"absent", "absorbed", "deferred", "handed"}
    OBVIOUS
  <2>3. CASE i = to /\ to > from
    <3>1. entry(i) \in {"deferred", "handed"}
      BY <2>1, <2>3
    <3> QED BY <2>1, <2>3, <3>1
  <2>4. CASE i > from /\ i < to
    <3>1. entry(i) = "absorbed"
      BY <2>1, <2>4
    <3> QED BY <2>1, <2>4, <3>1
  <2>5. CASE i <= from /\ to > from /\ inbox[a][i] = "deferred"
    <3>1. entry(i) = "absorbed"
      BY <2>1, <2>5
    <3> QED BY <2>1, <2>5, <3>1
  <2>6. CASE /\ ~(i = to /\ to > from) /\ ~(i > from /\ i < to)
             /\ ~(i <= from /\ to > from /\ inbox[a][i] = "deferred")
    <3>1. entry(i) = inbox[a][i]
      BY <2>6
    <3>2. i <= from <=> i <= to
      BY <2>1, <2>6
    <3> QED BY <2>2, <3>1, <3>2
  <2> QED BY <2>3, <2>4, <2>5, <2>6
<1>2. Page(a, from, to, startedAt) = [inbox EXCEPT ![a] = [i \in Message |-> entry(i)]]
  BY DEF Page
<1> HIDE DEF entry
<1> DEFINE entries == [i \in Message |-> entry(i)]
<1>3. /\ entries \in [Message -> {"absent", "absorbed", "deferred", "handed"}]
      /\ \A i \in Message : entries[i] # "absent" <=> i <= to
  BY <1>1
<1>4. Page(a, from, to, startedAt) = [inbox EXCEPT ![a] = entries]
  BY <1>2
<1> HIDE DEF entries
<1> QED BY <1>3, <1>4

LEMMA Between ==
  ASSUME NEW n \in Nat, NEW from \in 0 .. n, NEW last \in 0 .. n, NEW to \in from .. last
  PROVE  to \in 0 .. n /\ from <= to
  OBVIOUS

\* A poll moves the cursor of the task.
LEMMA PolledFacts ==
  ASSUME ConstantsOK, NEW t \in TaskRow, NEW to \in 0 .. Length
  PROVE  /\ Polled(t, to) \in TaskRow
         /\ Polled(t, to).row = [t.row EXCEPT !.cursor = to]
         /\ Polled(t, to).listed = t.listed /\ Polled(t, to).aborted = t.aborted
         /\ Polled(t, to).at = t.at
<1> DEFINE row == [t.row EXCEPT !.cursor = to]
           catchingUp == t.catchingUp /\ ~CaughtUp(t, to)
<1>1. row \in AccountRow /\ catchingUp \in BOOLEAN
  BY DEF TaskRow, AccountRow
<1>2. Polled(t, to) = [t EXCEPT !.row = row, !.catchingUp = catchingUp]
  BY DEF Polled
<1> HIDE DEF row, catchingUp
<1>3. /\ Polled(t, to) \in TaskRow /\ Polled(t, to).row = row
      /\ Polled(t, to).listed = t.listed /\ Polled(t, to).aborted = t.aborted
      /\ Polled(t, to).at = t.at
  BY <1>1, <1>2 DEF TaskRow
<1> QED BY <1>3 DEF row

LEMMA PollInv ==
  ASSUME ConstantsOK, Inv, NEW a \in Account, NEW k \in Slot, Poll(a, k)
  PROVE  Inv'
<1>1. /\ tasks[a][k].at = "polling" /\ ~tasks[a][k].aborted /\ Up
      /\ UNCHANGED <<log, line, mode, changes, failures, stops>>
  BY DEF Poll, bounds
<1>2. /\ tasks[a][k] \in TaskRow /\ tasks[a][k].row \in AccountRow /\ account[a] \in AccountRow
      /\ tasks[a][k].row.cursor \in 0 .. Length /\ tasks[a][k].startedAt \in 0 .. Length
      /\ log[a] \in 0 .. Length
  BY DEF Inv, TypeOK, TaskRow, AccountRow
<1>3. tasks[a][k].listed
  BY <1>1 DEF Inv, Shaped
<1>4. CASE ~Fenced(a, tasks[a][k].row)
  <2> DEFINE t == [tasks[a][k] EXCEPT !.at = "stopping"]
  <2>1. tasks' = Set(a, k, t) /\ UNCHANGED <<store, notified, drain>>
    BY <1>4 DEF Poll
  <2>2. /\ t \in TaskRow /\ t.row = tasks[a][k].row /\ t.listed = tasks[a][k].listed
        /\ t.aborted = tasks[a][k].aborted /\ t.at = "stopping"
    BY <1>2 DEF TaskRow
  <2>3. ~Holds(a, tasks[a][k].row)
    BY <1>3, <1>4 DEF Inv, Current, Agrees, Fenced
  <2>4. tasks' \in [Account -> [Slot -> TaskRow]]
    BY <2>1, <2>2, SetFacts DEF Inv, TypeOK, Set
  <2>5. TypeOK' /\ CursorMatchesInbox'
    BY <1>1, <2>1, <2>4, TaskStepTypes DEF Inv, TypeOK
  <2>6. UNCHANGED <<account, line, mode, changes>>
    BY <1>1, <2>1 DEF store
  <2> HIDE DEF t
  <2>7. Numbered' /\ Single' /\ Shaped' /\ Moded' /\ Current' /\ Desired' /\ Settled'
    BY <1>1, <2>1, <2>2, <2>3, <2>6, GoesOn
  <2> QED BY <2>5, <2>7 DEF Inv
<1>5. CASE Fenced(a, tasks[a][k].row)
  <2> DEFINE from == tasks[a][k].row.cursor
             startedAt == tasks[a][k].startedAt
  <2>1. PICK to \in from .. log[a] :
          /\ account' = [account EXCEPT ![a].cursor = to]
          /\ inbox' = Page(a, from, to, startedAt)
          /\ tasks' = Set(a, k, Polled(tasks[a][k], to))
          /\ IF CaughtUp(tasks[a][k], to)
             THEN NotifyIfAll(Set(a, k, Polled(tasks[a][k], to)), notified)
             ELSE /\ drain' = (drain \/ (Late(tasks[a][k], to)
                                 /\ ~CatchingUp(Set(a, k, Polled(tasks[a][k], to)))))
                  /\ UNCHANGED notified
    BY <1>5 DEF Poll
  <2>2. from \in 0 .. Length /\ startedAt \in 0 .. Length
    BY <1>2
  <2> HIDE DEF from, startedAt
  <2>3. to \in 0 .. Length /\ from <= to
    BY <1>2, <2>2, Between DEF ConstantsOK
  <2> DEFINE t == Polled(tasks[a][k], to)
  <2>4. /\ t \in TaskRow /\ t.row = [tasks[a][k].row EXCEPT !.cursor = to]
        /\ t.listed = tasks[a][k].listed /\ t.aborted = tasks[a][k].aborted
        /\ t.at = "polling"
    BY <1>1, <1>2, <2>3, PolledFacts
  <2>5. /\ account' = [account EXCEPT ![a].cursor = to] /\ tasks' = Set(a, k, t)
        /\ inbox' = Page(a, from, to, startedAt)
    BY <2>1
  <2> HIDE DEF t
  <2>6. notified' \in BOOLEAN /\ drain' \in BOOLEAN
    <3>1. notified \in BOOLEAN /\ drain \in BOOLEAN
      BY DEF Inv, TypeOK
    <3>2. CASE CaughtUp(tasks[a][k], to)
      BY <2>1, <3>1, <3>2, NotifyTypes
    <3>3. CASE ~CaughtUp(tasks[a][k], to)
      BY <2>1, <3>1, <3>3
    <3> QED BY <3>2, <3>3
  <2>7. tasks' \in [Account -> [Slot -> TaskRow]]
    BY <2>4, <2>5, SetFacts DEF Inv, TypeOK, Set
  <2>8. /\ account' \in [Account -> AccountRow]
        /\ account'[a] = [account[a] EXCEPT !.cursor = to]
        /\ \A b \in Account : b # a => account'[b] = account[b]
    BY <1>2, <2>3, <2>5 DEF Inv, TypeOK, AccountRow
  <2>9. account'[a].generation = account[a].generation /\ account'[a].cursor = to
    BY <1>2, <2>8 DEF AccountRow
  <2>10. account[a].generation # 0
    BY <1>3, <1>5 DEF Inv, Shaped, Fenced
  <2>11. \A b \in Account : account'[b].generation = 0 => account'[b] = Unknown
    BY <2>8, <2>9, <2>10 DEF Inv, TypeOK
  <2>12. \A i \in Message : inbox[a][i] # "absent" <=> i <= from
    BY <1>5 DEF Inv, CursorMatchesInbox, Fenced, from
  <2>13. /\ inbox' \in [Account -> [Message -> {"absent", "absorbed", "deferred", "handed"}]]
         /\ \A i \in Message : inbox'[a][i] # "absent" <=> i <= to
         /\ \A b \in Account : b # a => inbox'[b] = inbox[b]
    <3> DEFINE page == Page(a, from, to, startedAt)
    <3>1. inbox \in [Account -> [Message -> {"absent", "absorbed", "deferred", "handed"}]]
      BY DEF Inv, TypeOK
    <3>2. /\ page \in [Account -> [Message -> {"absent", "absorbed", "deferred", "handed"}]]
          /\ \A i \in Message : page[a][i] # "absent" <=> i <= to
          /\ \A b \in Account : b # a => page[b] = inbox[b]
      BY <2>2, <2>3, <2>12, <3>1, PageFacts
    <3> QED BY <2>5, <3>2
  <2>14. TypeOK'
    BY <1>1, <2>6, <2>7, <2>8, <2>11, <2>13 DEF Inv, TypeOK, line
  <2>15. CursorMatchesInbox'
    <3> SUFFICES ASSUME NEW b \in Account, NEW i \in Message
                 PROVE  inbox'[b][i] # "absent" <=> i <= account'[b].cursor
      BY DEF CursorMatchesInbox
    <3>1. CASE b = a
      BY <2>9, <2>13, <3>1
    <3>2. CASE b # a
      BY <2>8, <2>13, <3>2 DEF Inv, CursorMatchesInbox
    <3> QED BY <3>1, <3>2
  <2>16. Numbered' /\ Single' /\ Shaped' /\ Moded' /\ Current' /\ Desired' /\ Settled'
    BY <1>1, <1>5, <2>3, <2>4, <2>5, CommitKeeps
  <2> QED BY <2>14, <2>15, <2>16 DEF Inv
<1> QED BY <1>4, <1>5

\* A change of an account, with what it does to the inbox.
LEMMA ChangeInv ==
  ASSUME ConstantsOK, Inv, NEW a \in Account, NEW row \in AccountRow, Change(a, row),
         row.generation = 0 => row = Unknown,
         row.generation <= changes + 2,
         \/ row.token = changes + 1
         \/ row.token = 0 /\ row.generation = 0
         \/ /\ row.token = account[a].token /\ row.generation = account[a].generation
            /\ row.cursor = account[a].cursor,
         inbox' \in [Account -> [Message -> {"absent", "absorbed", "deferred", "handed"}]],
         \A i \in Message : inbox'[a][i] # "absent" <=> i <= row.cursor,
         \A b \in Account : b # a => inbox'[b] = inbox[b]
  PROVE  Inv'
<1>1. /\ changes < MaxChanges /\ changes' = changes + 1
      /\ account' = [account EXCEPT ![a] = row] /\ jobs' = Append(jobs, "refresh")
      /\ UNCHANGED <<log, tasks, job, desired, notified, drain, mode, failures, stops>>
  BY DEF Change, Refresh
<1>2. \A b \in Account : account'[b] = IF b = a THEN row ELSE account[b]
  BY <1>1 DEF Inv, TypeOK
<1>3. TypeOK'
  <2>1. account' \in [Account -> AccountRow]
    BY <1>1 DEF Inv, TypeOK
  <2>2. \A b \in Account : account'[b].generation = 0 => account'[b] = Unknown
    BY <1>2 DEF Inv, TypeOK
  <2>3. jobs' \in Seq({"refresh", "restart"})
    BY <1>1 DEF Inv, TypeOK
  <2>4. changes' \in 0 .. MaxChanges
    BY <1>1 DEF Inv, TypeOK, ConstantsOK
  <2> QED BY <1>1, <2>1, <2>2, <2>3, <2>4 DEF Inv, TypeOK
<1>4. CursorMatchesInbox'
  BY <1>2 DEF Inv, CursorMatchesInbox
<1> QED BY <1>3, <1>4, ChangeKeeps DEF Inv

LEMMA ChangedRows ==
  ASSUME ConstantsOK, Inv, NEW a \in Account, changes < MaxChanges
  PROVE  /\ changes \in Nat /\ changes + 1 \in 0 .. MaxChanges + 1
         /\ 1 \in 0 .. MaxChanges + 1 /\ 0 \in 0 .. Length
         /\ account[a] \in AccountRow
         /\ account[a].generation \in Nat /\ account[a].generation + 1 <= changes + 2
         /\ account[a].generation + 1 \in 0 .. MaxChanges + 1
<1>1. account[a] \in AccountRow /\ changes \in 0 .. MaxChanges
  BY DEF Inv, TypeOK
<1>2. MaxChanges \in Nat /\ Length \in Nat
  BY DEF ConstantsOK
<1>3. account[a].generation \in 0 .. MaxChanges + 1
  BY <1>1 DEF AccountRow
<1>4. account[a].generation <= changes + 1
  BY DEF Inv, Numbered
<1> QED BY <1>1, <1>2, <1>3, <1>4

LEMMA RegisterInv ==
  ASSUME ConstantsOK, Inv, NEW a \in Account, Register(a)
  PROVE  Inv'
<1>1. PICK enabled \in BOOLEAN :
        Change(a, [generation |-> 1, token |-> changes + 1, enabled |-> enabled, cursor |-> 0])
  BY DEF Register
<1> DEFINE row == [generation |-> 1, token |-> changes + 1, enabled |-> enabled, cursor |-> 0]
<1>2. changes < MaxChanges
  BY <1>1 DEF Change
<1>3. row \in AccountRow
  BY <1>2, ChangedRows DEF AccountRow
<1>4. row.generation = 1 /\ row.token = changes + 1 /\ row.cursor = 0
  OBVIOUS
<1>5. account[a].cursor = 0 /\ UNCHANGED inbox
  BY DEF Register, Inv, TypeOK, Unknown
<1>6. Change(a, row)
  BY <1>1
<1> HIDE DEF row
<1>7. row.generation # 0 /\ row.generation <= changes + 2
  BY <1>2, <1>4, ChangedRows
<1>8. inbox' \in [Account -> [Message -> {"absent", "absorbed", "deferred", "handed"}]]
  BY <1>5 DEF Inv, TypeOK
<1>9. \A i \in Message : inbox'[a][i] # "absent" <=> i <= row.cursor
  BY <1>4, <1>5 DEF Inv, CursorMatchesInbox
<1> QED BY <1>3, <1>4, <1>5, <1>6, <1>7, <1>8, <1>9, ChangeInv

LEMMA RotateInv ==
  ASSUME ConstantsOK, Inv, NEW a \in Account, Rotate(a)
  PROVE  Inv'
<1> DEFINE row == [account[a] EXCEPT !.generation = @ + 1, !.token = changes + 1]
<1>1. account[a].generation # 0 /\ Change(a, row) /\ UNCHANGED inbox
  BY DEF Rotate
<1>2. changes < MaxChanges
  BY <1>1 DEF Change
<1>3. /\ row \in AccountRow
      /\ row.generation = account[a].generation + 1 /\ row.token = changes + 1
      /\ row.cursor = account[a].cursor
  BY <1>2, ChangedRows DEF AccountRow
<1> HIDE DEF row
<1>4. row.generation # 0 /\ row.generation <= changes + 2
  BY <1>2, <1>3, ChangedRows
<1>5. inbox' \in [Account -> [Message -> {"absent", "absorbed", "deferred", "handed"}]]
  BY <1>1 DEF Inv, TypeOK
<1>6. \A i \in Message : inbox'[a][i] # "absent" <=> i <= row.cursor
  BY <1>1, <1>3 DEF Inv, CursorMatchesInbox
<1> QED BY <1>1, <1>3, <1>4, <1>5, <1>6, ChangeInv

LEMMA SetRuntimeEnabledInv ==
  ASSUME ConstantsOK, Inv, NEW a \in Account, SetRuntimeEnabled(a)
  PROVE  Inv'
<1>1. PICK enabled \in BOOLEAN : Change(a, [account[a] EXCEPT !.enabled = enabled])
  BY DEF SetRuntimeEnabled
<1> DEFINE row == [account[a] EXCEPT !.enabled = enabled]
<1>2. account[a].generation # 0 /\ UNCHANGED inbox /\ Change(a, row)
  BY <1>1 DEF SetRuntimeEnabled
<1>3. changes < MaxChanges
  BY <1>1 DEF Change
<1>4. /\ row \in AccountRow
      /\ row.generation = account[a].generation /\ row.token = account[a].token
      /\ row.cursor = account[a].cursor
  BY <1>3, ChangedRows DEF AccountRow
<1> HIDE DEF row
<1>5. row.generation # 0 /\ row.generation <= changes + 2
  BY <1>2, <1>3, <1>4, ChangedRows
<1>6. inbox' \in [Account -> [Message -> {"absent", "absorbed", "deferred", "handed"}]]
  BY <1>2 DEF Inv, TypeOK
<1>7. \A i \in Message : inbox'[a][i] # "absent" <=> i <= row.cursor
  BY <1>2, <1>4 DEF Inv, CursorMatchesInbox
<1> QED BY <1>2, <1>4, <1>5, <1>6, <1>7, ChangeInv

LEMMA DeleteAccountInv ==
  ASSUME ConstantsOK, Inv, NEW a \in Account, DeleteAccount(a)
  PROVE  Inv'
<1>1. Change(a, Unknown) /\ inbox' = [inbox EXCEPT ![a] = [i \in Message |-> "absent"]]
  BY DEF DeleteAccount
<1>2. Unknown \in AccountRow
  BY RowTypes
<1>3. Unknown.generation = 0 /\ Unknown.token = 0 /\ Unknown.cursor = 0
  BY DEF Unknown
<1>4. inbox' \in [Account -> [Message -> {"absent", "absorbed", "deferred", "handed"}]]
  BY <1>1 DEF Inv, TypeOK
<1>5. \A i \in Message : inbox'[a][i] # "absent" <=> i <= Unknown.cursor
  BY <1>1, <1>3 DEF Inv, TypeOK, Message
<1>6. \A b \in Account : b # a => inbox'[b] = inbox[b]
  BY <1>1 DEF Inv, TypeOK
<1>7. Unknown.generation <= changes + 2
  BY <1>3 DEF Inv, TypeOK, ConstantsOK
<1> QED BY <1>1, <1>2, <1>3, <1>4, <1>5, <1>6, <1>7, ChangeInv

LEMMA RestartInv ==
  ASSUME ConstantsOK, Inv, Restart
  PROVE  Inv'
<1>1. /\ changes < MaxChanges /\ changes' = changes + 1
      /\ jobs' = Append(jobs, "restart")
      /\ UNCHANGED <<account, inbox, log, tasks, job, desired, notified, drain, mode,
                     failures, stops>>
  BY DEF Restart, store
<1>2. jobs' \in Seq({"refresh", "restart"})
  BY <1>1 DEF Inv, TypeOK
<1>3. changes' \in 0 .. MaxChanges
  BY <1>1 DEF Inv, TypeOK, ConstantsOK
<1>4. TypeOK'
  BY <1>1, <1>2, <1>3 DEF Inv, TypeOK
<1>5. CursorMatchesInbox'
  BY <1>1 DEF Inv, CursorMatchesInbox
<1> QED BY <1>4, <1>5, RestartKeeps DEF Inv

LEMMA ReconcileInv ==
  ASSUME ConstantsOK, Inv, Reconcile
  PROVE  Inv'
<1>1. /\ jobs # <<>>
      /\ UNCHANGED <<account, inbox, log, notified, drain, mode, changes, failures, stops>>
  BY DEF Reconcile, store, bounds
<1>2. CursorMatchesInbox'
  BY <1>1 DEF Inv, CursorMatchesInbox
<1>3. TypeOK'
  <2>1. CASE ~Up
    <3>1. jobs' = Tail(jobs) /\ UNCHANGED <<tasks, job, desired>>
      BY <2>1 DEF Reconcile
    <3>2. jobs' \in Seq({"refresh", "restart"})
      BY <1>1, <3>1 DEF Inv, TypeOK
    <3> QED BY <1>1, <3>1, <3>2 DEF Inv, TypeOK
  <2>2. CASE Up
    <3>1. /\ job' = "retiring" /\ desired' = Runtime /\ UNCHANGED jobs
          /\ tasks' = [b \in Account |-> [l \in Slot |->
               IF Retires(b, l) THEN TakenOff(tasks[b][l]) ELSE tasks[b][l]]]
      BY <2>2 DEF Reconcile
    <3>2. \A b \in Account, l \in Slot :
            tasks[b][l] \in TaskRow /\ TakenOff(tasks[b][l]) \in TaskRow
      BY TakenOffFacts DEF Inv, TypeOK
    <3>3. tasks' \in [Account -> [Slot -> TaskRow]]
      BY <3>1, <3>2
    <3>4. desired' \in [Account -> AccountRow]
      BY <3>1, RuntimeTypes DEF Inv
    <3> QED BY <1>1, <3>1, <3>3, <3>4 DEF Inv, TypeOK
  <2> QED BY <2>1, <2>2
<1> QED BY <1>2, <1>3, ReconcileKeeps DEF Inv

LEMMA StartAccountsInv ==
  ASSUME ConstantsOK, Inv, StartAccounts
  PROVE  Inv'
<1>1. /\ job = "retiring" /\ Retired /\ job' = "none" /\ jobs' = Tail(jobs)
      /\ desired' = [b \in Account |-> Unknown]
      /\ UNCHANGED <<account, inbox, log, mode, changes, failures, stops>>
  BY DEF StartAccounts, store, bounds
<1>2. CursorMatchesInbox'
  BY <1>1 DEF Inv, CursorMatchesInbox
<1>3. jobs' \in Seq({"refresh", "restart"})
  BY <1>1 DEF Inv, TypeOK, Moded
<1>4. desired' \in [Account -> AccountRow]
  BY <1>1, RowTypes
<1>5. tasks' \in [Account -> [Slot -> TaskRow]] /\ notified' \in BOOLEAN /\ drain' \in BOOLEAN
  <2>1. notified \in BOOLEAN /\ drain \in BOOLEAN
    BY DEF Inv, TypeOK
  <2>2. CASE ~Up
    BY <2>1, <2>2 DEF StartAccounts, Inv, TypeOK
  <2>3. CASE Up
    <3>1. tasks' = [b \in Account |-> Started(b)] /\ NotifyIfAll(tasks', notified /\ tasks' = tasks)
      BY <2>3 DEF StartAccounts
    <3>2. \A b \in Account : Started(b) \in [Slot -> TaskRow]
      BY <1>1, StartedFacts
    <3>3. tasks' \in [Account -> [Slot -> TaskRow]]
      BY <3>1, <3>2
    <3>4. (notified /\ tasks' = tasks) \in BOOLEAN
      OBVIOUS
    <3>5. notified' \in BOOLEAN /\ drain' \in BOOLEAN
      BY <2>1, <3>1, <3>4 DEF NotifyIfAll, Notifies
    <3> QED BY <3>3, <3>5
  <2> QED BY <2>2, <2>3
<1>6. TypeOK'
  BY <1>1, <1>3, <1>4, <1>5 DEF Inv, TypeOK
<1> QED BY <1>2, <1>6, StartAccountsKeeps DEF Inv

LEMMA RestartedInv ==
  ASSUME ConstantsOK, Inv, Restarted
  PROVE  Inv'
<1>1. /\ job = "retiring" /\ job' = "none" /\ jobs' = <<"refresh">> \o Tail(jobs)
      /\ desired' = [b \in Account |-> Unknown] /\ notified' = FALSE
      /\ UNCHANGED <<account, inbox, log, tasks, drain, mode, changes, failures, stops>>
  BY DEF Restarted, store, bounds
<1>2. CursorMatchesInbox'
  BY <1>1 DEF Inv, CursorMatchesInbox
<1>3. jobs' \in Seq({"refresh", "restart"})
  <2>1. Tail(jobs) \in Seq({"refresh", "restart"})
    BY <1>1 DEF Inv, TypeOK, Moded
  <2> QED BY <1>1, <2>1
<1>4. desired' \in [Account -> AccountRow]
  BY <1>1, RowTypes
<1>5. TypeOK'
  BY <1>1, <1>3, <1>4 DEF Inv, TypeOK
<1> QED BY <1>2, <1>5, RestartedKeeps DEF Inv

LEMMA SendInv ==
  ASSUME ConstantsOK, Inv, NEW a \in Account, Send(a)
  PROVE  Inv'
<1>1. /\ log[a] < Length /\ log' = [log EXCEPT ![a] = @ + 1]
      /\ UNCHANGED <<account, inbox, tasks, line, notified, drain, mode, changes, failures, stops>>
  BY DEF Send, store, bounds
<1>2. log' \in [Account -> 0 .. Length]
  BY <1>1 DEF Inv, TypeOK, ConstantsOK
<1>3. TypeOK'
  BY <1>1, <1>2 DEF Inv, TypeOK, line
<1>4. CursorMatchesInbox'
  BY <1>1 DEF Inv, CursorMatchesInbox
<1> QED BY <1>1, <1>3, <1>4, OthersKeep DEF Inv

LEMMA DrainInv ==
  ASSUME ConstantsOK, Inv, Drain
  PROVE  Inv'
<1>1. /\ drain' = FALSE
      /\ inbox' = [a \in Account |-> [i \in Message |->
           IF inbox[a][i] = "deferred" THEN "handed" ELSE inbox[a][i]]]
      /\ UNCHANGED <<account, log, tasks, line, notified, mode, changes, failures, stops>>
  BY DEF Drain, bounds
<1>2. \A a \in Account, i \in Message :
        inbox[a][i] \in {"absent", "absorbed", "deferred", "handed"}
  BY DEF Inv, TypeOK
<1>3. inbox' \in [Account -> [Message -> {"absent", "absorbed", "deferred", "handed"}]]
  BY <1>1, <1>2
<1>4. TypeOK'
  BY <1>1, <1>3 DEF Inv, TypeOK, line
<1>5. \A a \in Account, i \in Message : inbox'[a][i] # "absent" <=> inbox[a][i] # "absent"
  BY <1>1
<1>6. CursorMatchesInbox'
  BY <1>1, <1>5 DEF Inv, CursorMatchesInbox
<1> QED BY <1>1, <1>4, <1>6, OthersKeep DEF Inv

LEMMA CloseInv ==
  ASSUME ConstantsOK, Inv, Close
  PROVE  Inv'
<1>1. /\ stops < MaxStops /\ stops' = stops + 1 /\ mode' = "closing"
      /\ tasks' = [b \in Account |-> [l \in Slot |-> Told(tasks[b][l])]]
      /\ UNCHANGED <<account, inbox, log, jobs, job, desired, notified, drain, changes, failures>>
  BY DEF Close, store, line
<1>2. \A b \in Account, l \in Slot : Told(tasks[b][l]) \in TaskRow
  BY ToldFacts DEF Inv, TypeOK
<1>3. tasks' \in [Account -> [Slot -> TaskRow]]
  BY <1>1, <1>2
<1>4. stops' \in 0 .. MaxStops
  BY <1>1 DEF Inv, TypeOK, ConstantsOK
<1>5. TypeOK'
  BY <1>1, <1>3, <1>4 DEF Inv, TypeOK
<1>6. CursorMatchesInbox'
  BY <1>1 DEF Inv, CursorMatchesInbox
<1> QED BY <1>5, <1>6, CloseKeeps DEF Inv

LEMMA ClosedInv ==
  ASSUME ConstantsOK, Inv, Closed
  PROVE  Inv'
<1>1. /\ mode' = "down"
      /\ UNCHANGED <<account, inbox, log, tasks, jobs, job, desired, notified, drain,
                     changes, failures, stops>>
  BY DEF Closed, store, line, bounds
<1>2. TypeOK'
  BY <1>1 DEF Inv, TypeOK
<1>3. CursorMatchesInbox'
  BY <1>1 DEF Inv, CursorMatchesInbox
<1> QED BY <1>2, <1>3, ClosedKeeps DEF Inv

LEMMA CrashInv ==
  ASSUME ConstantsOK, Inv, Crash
  PROVE  Inv'
<1>1. /\ stops < MaxStops /\ stops' = stops + 1 /\ mode' = "down"
      /\ tasks' = [a \in Account |-> [k \in Slot |-> NoTask]]
      /\ jobs' = <<>> /\ job' = "none" /\ desired' = [a \in Account |-> Unknown]
      /\ UNCHANGED <<account, inbox, log, notified, drain, changes, failures>>
  BY DEF Crash, store
<1>2. stops' \in 0 .. MaxStops
  BY <1>1 DEF Inv, TypeOK, ConstantsOK
<1>3. TypeOK'
  BY <1>1, <1>2, RowTypes DEF Inv, TypeOK
<1>4. CursorMatchesInbox'
  BY <1>1 DEF Inv, CursorMatchesInbox
<1> QED BY <1>3, <1>4, CrashKeeps DEF Inv

LEMMA StartInv ==
  ASSUME ConstantsOK, Inv, Start
  PROVE  Inv'
<1>1. /\ mode' = "up" /\ jobs' = <<"refresh">> /\ notified' = FALSE /\ drain' = FALSE
      /\ UNCHANGED <<account, inbox, log, tasks, job, desired, changes, failures, stops>>
  BY DEF Start, store, bounds
<1>2. jobs' \in Seq({"refresh", "restart"})
  BY <1>1
<1>3. TypeOK'
  BY <1>1, <1>2 DEF Inv, TypeOK
<1>4. CursorMatchesInbox'
  BY <1>1 DEF Inv, CursorMatchesInbox
<1> QED BY <1>3, <1>4, StartKeeps DEF Inv

LEMMA StutterInv ==
  ASSUME ConstantsOK, Inv, UNCHANGED vars
  PROVE  Inv'
<1>1. UNCHANGED <<account, inbox, log, tasks, jobs, job, desired, notified, drain, mode,
                  changes, failures, stops>>
  BY DEF vars, store, line, bounds
<1>2. TypeOK'
  BY <1>1 DEF Inv, TypeOK
<1>3. CursorMatchesInbox'
  BY <1>1 DEF Inv, CursorMatchesInbox
<1> QED BY <1>1, <1>2, <1>3, OthersKeep DEF Inv, line

LEMMA NextInv ==
  ASSUME ConstantsOK, Inv, [Next]_vars
  PROVE  Inv'
<1>1. ASSUME NEW a \in Account,
             Register(a) \/ Rotate(a) \/ SetRuntimeEnabled(a) \/ DeleteAccount(a) \/ Send(a)
      PROVE  Inv'
  BY <1>1, RegisterInv, RotateInv, SetRuntimeEnabledInv, DeleteAccountInv, SendInv
<1>2. ASSUME NEW a \in Account, NEW k \in Slot,
             \/ TaskStarted(a, k) \/ TaskAborted(a, k) \/ Poll(a, k) \/ PollFails(a, k)
             \/ PollAgain(a, k) \/ TaskEnds(a, k)
      PROVE  Inv'
  BY <1>2, TaskStartedInv, TaskAbortedInv, PollInv, PollFailsInv, PollAgainInv, TaskEndsInv
<1>3. CASE Restart \/ Reconcile \/ StartAccounts \/ Restarted \/ Drain
  BY <1>3, RestartInv, ReconcileInv, StartAccountsInv, RestartedInv, DrainInv
<1>4. CASE Close \/ Closed \/ Crash \/ Start
  BY <1>4, CloseInv, ClosedInv, CrashInv, StartInv
<1>5. CASE UNCHANGED vars
  BY <1>5, StutterInv
<1> QED BY <1>1, <1>2, <1>3, <1>4, <1>5 DEF Next

LEMMA InitInv ==
  ASSUME ConstantsOK, Init
  PROVE  Inv
<1>1. /\ account \in [Account -> {Unknown, Disabled, Enabled}]
      /\ log \in [Account -> 0 .. 1]
      /\ inbox = [a \in Account |-> [i \in Message |-> "absent"]]
      /\ tasks = [a \in Account |-> [k \in Slot |-> NoTask]]
      /\ jobs = <<>> /\ job = "none" /\ desired = [a \in Account |-> Unknown]
      /\ notified = FALSE /\ drain = FALSE /\ mode = "down"
      /\ changes = 0 /\ failures = 0 /\ stops = 0
  BY DEF Init
<1>2. /\ MaxChanges \in Nat /\ MaxFailures \in Nat /\ MaxStops \in Nat
      /\ Length \in Nat \ {0}
  BY DEF ConstantsOK
<1>3. \A a \in Account :
        /\ account[a] \in AccountRow
        /\ account[a].generation \in {0, 1} /\ account[a].token = 0 /\ account[a].cursor = 0
        /\ account[a].generation = 0 => account[a] = Unknown
  <2>1. /\ 1 \in 0 .. MaxChanges + 1 /\ 0 \in 0 .. MaxChanges + 1 /\ 0 \in 0 .. Length
    BY <1>2
  <2>2. /\ Enabled \in AccountRow
        /\ Enabled.generation = 1 /\ Enabled.token = 0 /\ Enabled.cursor = 0
    BY <2>1 DEF Enabled, Disabled, Unknown, AccountRow
  <2>8. /\ Disabled \in AccountRow
        /\ Disabled.generation = 1 /\ Disabled.token = 0 /\ Disabled.cursor = 0
    BY <2>1 DEF Enabled, Disabled, Unknown, AccountRow
  <2>3. /\ Unknown \in AccountRow
        /\ Unknown.generation = 0 /\ Unknown.token = 0 /\ Unknown.cursor = 0
    BY <2>1 DEF Unknown, AccountRow
  <2> TAKE a \in Account
  <2>4. account[a] = Unknown \/ account[a] = Enabled \/ account[a] = Disabled
    BY <1>1
  <2>5. CASE account[a] = Unknown
    BY <2>3, <2>5
  <2>6. CASE account[a] = Enabled
    BY <2>2, <2>6
  <2>7. CASE account[a] = Disabled
    BY <2>7, <2>8
  <2> QED BY <2>4, <2>5, <2>6, <2>7
<1>4. TypeOK
  <2>1. log \in [Account -> 0 .. Length]
    <3>1. 0 .. 1 \subseteq 0 .. Length
      BY <1>2
    <3> QED BY <1>1, <3>1
  <2>2. account \in [Account -> AccountRow]
    BY <1>1, <1>3
  <2>7. /\ desired \in [Account -> AccountRow]
        /\ tasks \in [Account -> [Slot -> TaskRow]]
    BY <1>1, RowTypes
  <2>3. changes \in 0 .. MaxChanges /\ failures \in 0 .. MaxFailures /\ stops \in 0 .. MaxStops
    BY <1>1, <1>2
  <2>4. \A a \in Account : account[a].generation = 0 => account[a] = Unknown
    BY <1>3
  <2>5. inbox \in [Account -> [Message -> {"absent", "absorbed", "deferred", "handed"}]]
    BY <1>1
  <2>6. jobs \in Seq({"refresh", "restart"})
    BY <1>1
  <2> QED BY <1>1, <2>1, <2>2, <2>3, <2>4, <2>5, <2>6, <2>7 DEF TypeOK
<1>5. \A a \in Account, k \in Slot : tasks[a][k].at = "none" /\ ~tasks[a][k].listed
  BY <1>1 DEF NoTask
<1>6. Numbered
  <2> SUFFICES ASSUME NEW a \in Account
               PROVE  /\ account[a].generation <= changes + 1 /\ account[a].token <= changes
                      /\ desired[a].token <= changes /\ desired[a] = Unknown
    BY <1>5 DEF Numbered
  <2>1. account[a].generation <= changes + 1 /\ account[a].token <= changes
    <3>1. account[a].generation \in {0, 1} /\ account[a].token = 0 /\ changes = 0
      BY <1>1, <1>3
    <3> QED BY <3>1
  <2>2. desired[a].token <= changes /\ desired[a] = Unknown
    BY <1>1 DEF Unknown
  <2> QED BY <2>1, <2>2
<1>7. Single /\ Shaped /\ Moded
  BY <1>1, <1>5 DEF Single, Shaped, Moded
<1>8. Current /\ Desired /\ Settled
  BY <1>1, <1>5 DEF Current, Desired, Settled, Up
<1>9. CursorMatchesInbox
  <2>1. \A i \in Message : ~(i <= 0)
    BY <1>2 DEF Message
  <2> QED BY <1>1, <1>3, <2>1 DEF CursorMatchesInbox
<1> QED BY <1>4, <1>6, <1>7, <1>8, <1>9 DEF Inv

-----------------------------------------------------------------------------
(* The theorems.                                                           *)

\* The inductive invariant holds in every behaviour of the listeners.
THEOREM InvHolds == ASSUME ConstantsOK PROVE Spec => []Inv
<1>1. Init => Inv
  BY InitInv
<1>2. Inv /\ [Next]_vars => Inv'
  BY NextInv
<1> QED BY <1>1, <1>2, PTL DEF Spec

\* What lies before the cursor of an account is stored and nothing else, whatever was
\* deleted, registered again or confirmed anew while a poll was in flight (commitPollPage).
THEOREM PagesAreFenced == ASSUME ConstantsOK PROVE Spec => []CursorMatchesInbox
<1>1. Inv => CursorMatchesInbox
  BY DEF Inv
<1> QED BY <1>1, InvHolds, PTL

\* Two tasks never poll for the same account: #reconcile waits for what it retired before
\* it starts another.
THEOREM PollersAreSingle == ASSUME ConstantsOK PROVE Spec => []OnePoller
<1>1. ASSUME Inv PROVE OnePoller
  <2> SUFFICES ASSUME NEW a \in Account
               PROVE  Cardinality({k \in Slot : tasks[a][k].at # "none"}) <= 1
    BY DEF OnePoller
  <2>1. \A k, l \in {k \in Slot : tasks[a][k].at # "none"} : k = l
    BY <1>1 DEF Inv, Single
  <2>2. CASE {k \in Slot : tasks[a][k].at # "none"} = {}
    <3>1. Cardinality({k \in Slot : tasks[a][k].at # "none"}) = 0
      BY <2>2, FS_EmptySet
    <3> QED BY <3>1
  <2>3. CASE \E k \in Slot : {l \in Slot : tasks[a][l].at # "none"} = {k}
    <3>1. PICK k \in Slot : {l \in Slot : tasks[a][l].at # "none"} = {k}
      BY <2>3
    <3>2. Cardinality({k}) = 1
      BY FS_Singleton
    <3> QED BY <3>1, <3>2
  <2> QED BY <2>1, <2>2, <2>3
<1> QED BY <1>1, InvHolds, PTL

\* Once no refresh is in line the enabled accounts are the ones that are listened to, each
\* with its current registration and token: a change that came while a refresh was waiting
\* is seen by the next one (refresh, #reconcile).
THEOREM ListenersAreRight == ASSUME ConstantsOK PROVE Spec => []ListenersMatchAccounts
<1>1. ASSUME Inv PROVE ListenersMatchAccounts
  BY <1>1 DEF Inv, Settled, Matched, ListenersMatchAccounts, SameRuntime, Listed
<1> QED BY <1>1, InvHolds, PTL

\* However accounts are confirmed, stopped, deleted and registered again, each has the one
\* listener it should have (ilink/listener.ts: refresh, #reconcile, #startAccount).
THEOREM ListenersAreUnique == ASSUME ConstantsOK PROVE Spec => []OneListenerPerAccount
<1> QED BY PollersAreSingle, ListenersAreRight, PTL DEF OneListenerPerAccount

=============================================================================
