-------------------------- MODULE NotificationCenter --------------------------
(***************************************************************************)
(* The notification center: the settings of an organisation, which several *)
(* administrators edit in the dashboard at once; the types its members     *)
(* mute; and the inboxes into which events are dispatched, in which they   *)
(* recur, and whose entries are marked.                                    *)
(*                                                                         *)
(* Settings are the set of deliveries that are on: a type and a channel.   *)
(* The recipients of the e-mails are one more such set and not modelled.   *)
(***************************************************************************)
EXTENDS Naturals

CONSTANTS
  Types,
  Mandatory,    \* the types whose in-app delivery cannot be turned off
  Defaults,     \* the built-in defaults
  Admins,       \* members with the settings panel open
  Members,      \* members with an inbox
  Events,       \* events; each recurs within its coalescing window
  TypeOf,       \* event -> its type
  Audience,     \* type -> the roles that may read it
  MaxVersions,  \* bound: saved versions of the settings
  MaxChanges    \* bound: changes of roles and of mutes, and recurrences

Channels == {"in_app", "email"}
Roles == {"admin", "viewer", "none"}
Deliveries == Types \X Channels

Settings == [version : 0..MaxVersions, on : SUBSET Deliveries]
Panel == [version : 0..MaxVersions, on : SUBSET Deliveries, draft : SUBSET Deliveries,
          touched : SUBSET Deliveries]
Stored == [pc : {"none", "emitted", "dispatched"}, eligible : SUBSET Members]
Entry == {"none", "unread", "read", "archived"}

VARIABLES
  settings,  \* the organisation's settings: a version and the deliveries that are on
  panel,     \* administrator -> what the settings panel shows, its edits, what was touched
  request,   \* administrator -> the save under way
  role,      \* member -> role
  muted,     \* member -> types
  event,     \* event -> its place in the outbox, and the members it was for
  inbox,     \* member -> event -> the state of the entry
  marked,    \* member -> events marked by the member since they last occurred
  listing,   \* member -> entries a "mark all read" has found
  changes

settingsVars == << settings, panel, request >>
inboxVars == << role, muted, event, inbox, marked, listing, changes >>
vars == << settingsVars, inboxVars >>

(* _normalize: a mandatory type is delivered in-app whatever is stored. *)
Locked == Mandatory \X {"in_app"}
Normalize(on) == on \cup Locked

NoRequest ==
  [pc |-> "none", version |-> 0, on |-> {}, confirm |-> FALSE, told |-> {}, touched |-> {}]

Init ==
  /\ settings = [version |-> 0, on |-> Normalize(Defaults)]
  /\ panel = [a \in Admins |->
       [version |-> 0, on |-> Normalize(Defaults), draft |-> Normalize(Defaults), touched |-> {}]]
  /\ request = [a \in Admins |-> NoRequest]
  /\ role \in [Members -> {"admin", "viewer"}]
  /\ muted = [m \in Members |-> {}]
  /\ event = [e \in Events |-> [pc |-> "none", eligible |-> {}]]
  /\ inbox = [m \in Members |-> [e \in Events |-> "none"]]
  /\ marked = [m \in Members |-> {}]
  /\ listing = [m \in Members |-> {}]
  /\ changes = 0

-----------------------------------------------------------------------------
(* The settings panel. It is keyed by the version it shows: when a newer    *)
(* one is fetched, the edits and the open dialog are gone.                  *)

Refetch(a) ==
  /\ panel[a].version # settings.version
  /\ panel' = [panel EXCEPT ![a] =
       [version |-> settings.version, on |-> settings.on, draft |-> settings.on, touched |-> {}]]
  /\ request' = [request EXCEPT ![a] = IF @.pc = "told" THEN NoRequest ELSE @]
  /\ UNCHANGED << settings, inboxVars >>

Edit(a) ==
  /\ \E d \in Deliveries \ Locked :
       panel' = [panel EXCEPT ![a].draft = IF d \in @ THEN @ \ {d} ELSE @ \cup {d},
                              ![a].touched = @ \cup {d}]
  /\ request[a].pc = "none"
  /\ UNCHANGED << settings, request, inboxVars >>

(* Saving what turns a delivery off first lists it in a dialog. *)
SaveClicked(a) ==
  LET off == panel[a].on \ panel[a].draft
  IN  /\ request[a].pc = "none"
      /\ panel[a].draft # panel[a].on
      /\ request' = [request EXCEPT ![a] =
           [pc |-> IF off = {} THEN "sent" ELSE "told", version |-> panel[a].version,
            on |-> panel[a].draft, confirm |-> FALSE, told |-> off,
            touched |-> panel[a].touched]]
      /\ UNCHANGED << settings, panel, inboxVars >>

Confirm(a) ==
  /\ request[a].pc = "told"
  /\ request' = [request EXCEPT ![a].pc = "sent", ![a].confirm = TRUE]
  /\ UNCHANGED << settings, panel, inboxVars >>

Cancel(a) ==
  /\ request[a].pc = "told"
  /\ request' = [request EXCEPT ![a] = NoRequest]
  /\ UNCHANGED << settings, panel, inboxVars >>

(* update_organization: the version and the confirmation are checked        *)
(* against the settings as they are read before the transaction.            *)
CheckSave(a) ==
  LET q == request[a]
      off == settings.on \ Normalize(q.on)
  IN  /\ q.pc = "sent"
      /\ request' = [request EXCEPT ![a] =
           IF q.version # settings.version THEN NoRequest
           ELSE IF off # {} /\ ~q.confirm THEN [q EXCEPT !.pc = "told", !.told = off]
           ELSE [q EXCEPT !.pc = "checked"]]
      /\ UNCHANGED << settings, panel, inboxVars >>

(* A mutation: the version is not looked at again. *)
StillCurrentAssumed(a) == settings.version < MaxVersions

StillCurrent(a) ==
  /\ request[a].version = settings.version
  /\ settings.version < MaxVersions

(* Its transaction, which looks at the version again. *)
StoreSave(a) ==
  LET q == request[a]
  IN  /\ q.pc = "checked"
      /\ StillCurrent(a)
      /\ settings' = [version |-> q.version + 1, on |-> Normalize(q.on)]
      /\ request' = [request EXCEPT ![a] = NoRequest]
      /\ UNCHANGED << panel, inboxVars >>

RefuseSave(a) ==
  /\ request[a].pc = "checked"
  /\ ~StillCurrent(a)
  /\ request' = [request EXCEPT ![a] = NoRequest]
  /\ UNCHANGED << settings, panel, inboxVars >>

-----------------------------------------------------------------------------
(* Members and their inboxes.                                              *)

ChangeRole(m) ==
  /\ changes < MaxChanges
  /\ \E r \in Roles \ {role[m]} : role' = [role EXCEPT ![m] = r]
  /\ changes' = changes + 1
  /\ UNCHANGED << settingsVars, muted, event, inbox, marked, listing >>

(* update_personal: a mandatory type cannot be muted. *)
Mute(m) ==
  /\ changes < MaxChanges
  /\ role[m] # "none"
  /\ \E t \in Types \ Mandatory :
       muted' = [muted EXCEPT ![m] = IF t \in @ THEN @ \ {t} ELSE @ \cup {t}]
  /\ changes' = changes + 1
  /\ UNCHANGED << settingsVars, role, event, inbox, marked, listing >>

MayRead(m, e) == role[m] \in Audience[TypeOf[e]]

(* in_app_enabled. *)
InAppEnabled(m, t) ==
  \/ t \in Mandatory
  \/ <<t, "in_app">> \in settings.on /\ t \notin muted[m]

(* emit: the first occurrence. *)
Emit(e) ==
  /\ event[e].pc = "none"
  /\ event' = [event EXCEPT ![e].pc = "emitted"]
  /\ UNCHANGED << settingsVars, role, muted, inbox, marked, listing, changes >>

(* _dispatch: the members who may read the type and have it enabled. *)
Dispatch(e) ==
  LET eligible == {m \in Members : MayRead(m, e)}
  IN  /\ event[e].pc = "emitted"
      /\ event' = [event EXCEPT ![e] = [pc |-> "dispatched", eligible |-> eligible]]
      /\ inbox' = [m \in Members |-> [inbox[m] EXCEPT ![e] =
           IF m \in eligible /\ InAppEnabled(m, TypeOf[e]) THEN "unread" ELSE @]]
      /\ UNCHANGED << settingsVars, role, muted, marked, listing, changes >>

(* What a recurrence makes of the state of an entry. *)
Again(state) == IF state = "read" THEN "unread" ELSE state

(* emit: another occurrence within the window. *)
Recur(e) ==
  /\ event[e].pc # "none"
  /\ changes < MaxChanges
  /\ inbox' = [m \in Members |-> [inbox[m] EXCEPT ![e] = Again(@)]]
  /\ marked' = [m \in Members |-> marked[m] \ {e}]
  /\ changes' = changes + 1
  /\ UNCHANGED << settingsVars, role, muted, event, listing >>

(* _row: an entry of the member, who may still read it. *)
Readable(m, e) == inbox[m][e] # "none" /\ MayRead(m, e)

SetState(m, e) ==
  /\ Readable(m, e)
  /\ \E state \in {"unread", "read", "archived"} :
       inbox' = [inbox EXCEPT ![m][e] = state]
  /\ marked' = [marked EXCEPT ![m] = @ \cup {e}]
  /\ UNCHANGED << settingsVars, role, muted, event, listing, changes >>

(* mark_all_read: the unread entries are found, then marked in a            *)
(* transaction if they are unread still.                                    *)
FindUnread(m) ==
  /\ listing[m] = {}
  /\ listing' = [listing EXCEPT ![m] = {e \in Events : inbox[m][e] = "unread" /\ MayRead(m, e)}]
  /\ listing'[m] # {}
  /\ UNCHANGED << settingsVars, role, muted, event, inbox, marked, changes >>

MarkFound(m) ==
  /\ listing[m] # {}
  /\ inbox' = [inbox EXCEPT ![m] = [e \in Events |->
       IF e \in listing[m] /\ @[e] = "unread" THEN "read" ELSE @[e]]]
  /\ marked' = [marked EXCEPT ![m] = @ \cup listing[m]]
  /\ listing' = [listing EXCEPT ![m] = {}]
  /\ UNCHANGED << settingsVars, role, muted, event, changes >>

Next ==
  \/ \E a \in Admins :
       \/ Refetch(a) \/ Edit(a) \/ SaveClicked(a) \/ Confirm(a) \/ Cancel(a)
       \/ CheckSave(a) \/ StoreSave(a) \/ RefuseSave(a)
  \/ \E m \in Members : ChangeRole(m) \/ Mute(m) \/ FindUnread(m) \/ MarkFound(m)
  \/ \E e \in Events :
       \/ Emit(e) \/ Dispatch(e) \/ Recur(e)
       \/ \E m \in Members : SetState(m, e)

Spec == Init /\ [][Next]_vars

-----------------------------------------------------------------------------
(* Types of the variables. *)
TypeOK ==
  /\ settings \in Settings
  /\ panel \in [Admins -> Panel]
  /\ \A a \in Admins : request[a].pc \in {"none", "told", "sent", "checked"}
  /\ role \in [Members -> Roles]
  /\ muted \in [Members -> SUBSET Types]
  /\ event \in [Events -> Stored]
  /\ inbox \in [Members -> [Events -> Entry]]

(* "409 CONFLICT if someone saved first", "confirmation to turn anything    *)
(* off": however many administrators edit the settings, a save changes only *)
(* deliveries that its administrator touched, and turns off only those that *)
(* the administrator was told it would.                                     *)
AskedFor(d, told) ==
  \E a \in Admins :
    /\ request[a].pc = "checked" /\ request'[a].pc = "none"
    /\ d \in request[a].touched
    /\ told => d \in request[a].told
SavesOnlyWhatWasAsked ==
  [][/\ \A d \in settings'.on \ settings.on : AskedFor(d, FALSE)
     /\ \A d \in settings.on \ settings'.on : AskedFor(d, TRUE)]_vars

(* "Mandatory in-app types reach every eligible member whatever either      *)
(* setting says": such an event is in the inbox of every member who could   *)
(* read it when it was dispatched, and unread until the member has marked   *)
(* it since it last occurred.                                               *)
MandatoryReaches ==
  \A e \in Events, m \in Members :
    event[e].pc = "dispatched" /\ TypeOf[e] \in Mandatory /\ m \in event[e].eligible =>
      \/ inbox[m][e] \in {"unread", "archived"}
      \/ inbox[m][e] = "read" /\ e \in marked[m]
=============================================================================
