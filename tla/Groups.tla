--------------------------------- MODULE Groups ---------------------------------
(***************************************************************************)
(* Groups: the requests that change one and the metadata read from it      *)
(* (groups/index.ts), and the events that notifications of changes become  *)
(* (handleNotificationStanza() in client.ts).  Pure functions: a change is *)
(* a request here and a child of a notification at the others.             *)
(*                                                                         *)
(* The server's state of the group and its rules are external, and so is   *)
(* the application, which assigns updates to the metadata it keeps.  0 is  *)
(* "none" and "off".                                                       *)
(***************************************************************************)
EXTENDS Naturals, Sequences, FiniteSets

CONSTANTS
  Persons, Creator,   \* the creator cannot be removed or demoted
  Subjects,
  Durations,        \* of disappearing messages
  Texts             \* ids of descriptions

ASSUME GroupsAssumption ==
  /\ IsFiniteSet(Persons) /\ Creator \in Persons
  /\ Durations \subseteq Nat \ {0} /\ Texts \subseteq Nat \ {0}

Actions  == {"add", "remove", "promote", "demote"}
Settings == {"announcement", "not_announcement", "locked", "unlocked"}

Request(tag, who, value, prev) == [tag |-> tag, who |-> who, value |-> value, prev |-> prev]

-----------------------------------------------------------------------------
(***************************************************************************)
(* Reading a group.                                                        *)
(***************************************************************************)

\* The server's answer; some have a size.  Ids come with the server's name
\* or without.
GroupNode(g, withSize) ==
  [id |-> IF withSize THEN << "g", "g.us" >> ELSE << "g" >>,
   subject |-> g.subject, size |-> IF withSize THEN Cardinality(g.members) ELSE 0,
   description |-> g.description, ephemeral |-> g.ephemeral,
   flags |-> { f \in {"announcement", "locked"} : f \in g.flags },
   participants |-> { [jid |-> u, type |-> IF u = Creator THEN "superadmin"
                                           ELSE IF u \in g.admins THEN "admin" ELSE ""] : u \in g.members }]

Participant(p) ==
  [id |-> p.jid, isAdmin |-> p.type = "admin", isSuperAdmin |-> p.type = "superadmin"]

ExtractGroupMetadata(node) ==
  [id |-> IF Len(node.id) = 2 THEN node.id ELSE << node.id[1], "g.us" >>, subject |-> node.subject, descId |-> node.description,
   size |-> IF node.size # 0 THEN node.size ELSE Cardinality(node.participants),
   restrict |-> "locked" \in node.flags, announce |-> "announcement" \in node.flags,
   ephemeralDuration |-> node.ephemeral,
   participants |-> { Participant(p) : p \in node.participants }]

\* All groups, by the ids their notifications come from.
GroupFetchAllParticipating(nodes) ==
  LET data == { ExtractGroupMetadata(node) : node \in nodes }
  IN  [id \in { m.id : m \in data } |-> CHOOSE m \in data : m.id = id]

-----------------------------------------------------------------------------
(***************************************************************************)
(* Changing it.                                                            *)
(***************************************************************************)

GroupCreate(subject, participants)    == Request("create", participants, subject, 0)
GroupLeave(who)                       == Request("leave", {who}, 0, 0)
GroupUpdateSubject(subject)           == Request("subject", {}, subject, 0)
GroupParticipantsUpdate(who, action)  == Request(action, who, 0, 0)
GroupSettingUpdate(setting)           == Request(setting, {}, 0, 0)

\* Of those who asked to join.
GroupRequestParticipantsUpdate(who, action) == Request(action, who, 0, 0)

\* Over the description that was read; without a text it is deleted.
GroupUpdateDescription(metadata, text) == Request("description", {}, text, metadata.descId)

\* 0 disables.
GroupToggleEphemeral(duration) ==
  IF duration # 0 THEN Request("ephemeral", {}, duration, 0) ELSE Request("not_ephemeral", {}, 0, 0)

\* What the caller is told of the participants: the error, or 200.
Statuses(answer) ==
  { [jid |-> p.jid, status |-> IF p.error # "" THEN p.error ELSE "200"] : p \in answer }

\* The server: whom a change reaches, and whether it is made.
Reached(g, r) ==
  CASE r.tag = "add" -> r.who \ g.members
    [] r.tag \in {"remove", "leave", "promote", "demote"} -> (r.who \cap g.members) \ {Creator}
    [] r.tag \in {"approve", "reject"} -> r.who \cap g.pending
    [] OTHER -> {}

Accepts(g, r) == r.tag = "description" => r.prev = g.description

Answer(g, r) == { [jid |-> u, error |-> IF u \in Reached(g, r) THEN "" ELSE "409"] : u \in r.who }

Applied(g, r) ==
  LET who == Reached(g, r)
  IN  IF ~Accepts(g, r) THEN g
      ELSE [g EXCEPT
        !.subject     = IF r.tag = "subject" THEN r.value ELSE @,
        !.description = IF r.tag = "description" THEN r.value ELSE @,
        !.ephemeral   = IF r.tag \in {"ephemeral", "not_ephemeral"} THEN r.value ELSE @,
        !.flags       = CASE r.tag = "announcement" -> @ \cup {r.tag}
                          [] r.tag = "locked" -> @ \cup {r.tag}
                          [] r.tag = "not_announcement" -> @ \ {"announcement"}
                          [] r.tag = "unlocked" -> @ \ {"locked"}
                          [] OTHER -> @,
        !.members     = CASE r.tag \in {"add", "approve"} -> @ \cup who
                          [] r.tag \in {"remove", "leave"} -> @ \ who [] OTHER -> @,
        !.pending     = @ \ who,
        !.admins      = CASE r.tag = "promote" -> @ \cup who
                          [] r.tag \in {"remove", "leave", "demote"} -> @ \ who [] OTHER -> @]

Created(r) ==
  [subject |-> r.value, description |-> 0, ephemeral |-> 0, flags |-> {},
   members |-> r.who \cup {Creator}, admins |-> {}, pending |-> {}]

\* The child of the notification the group gets: who is let in is added, who
\* leaves removed, and only new admins have a type.
Child(g, r) ==
  [tag |-> CASE r.tag = "approve" -> "add" [] r.tag = "leave" -> "remove" [] OTHER -> r.tag, value |-> r.value,
   participants |-> { [jid |-> u, type |-> IF r.tag = "promote" THEN "admin" ELSE ""] : u \in Reached(g, r) }]

-----------------------------------------------------------------------------
(***************************************************************************)
(* Hearing of changes.                                                     *)
(***************************************************************************)

GroupsUpdate(fields) == << [event |-> "groups.update", fields |-> fields] >>

BugOnlyOn(c) ==
  CASE c.tag = "subject" -> GroupsUpdate([subject |-> c.value])
    [] c.tag \in Actions -> << [event |-> "group-participants.update", action |-> c.tag,
                                participants |-> { Participant(p) : p \in c.participants }] >>
    [] c.tag = "ephemeral" -> GroupsUpdate([ephemeralDuration |-> c.value])
    [] OTHER -> << >>

\* The events of one child; of a description or a setting there are none.
EventsOf(c) ==
  CASE c.tag = "subject" -> GroupsUpdate([subject |-> c.value])
    [] c.tag \in Actions -> << [event |-> "group-participants.update", action |-> c.tag,
                                participants |-> { Participant(p) : p \in c.participants }] >>
    [] c.tag = "ephemeral" -> GroupsUpdate([ephemeralDuration |-> c.value])
    [] c.tag = "not_ephemeral" -> GroupsUpdate([ephemeralDuration |-> 0])
    [] OTHER -> << >>

Assigned(view, fields) ==
  [f \in DOMAIN view \cup DOMAIN fields |-> IF f \in DOMAIN fields THEN fields[f] ELSE view[f]]

\* The application: an update is assigned, an action carried out.
Heard(view, e) ==
  IF e.event = "groups.update" THEN Assigned(view, e.fields)
  ELSE LET named == { p.id : p \in e.participants }
           those == { p \in view.participants : p.id \in named }
           rest  == view.participants \ those
       IN  [view EXCEPT !.participants =
              CASE e.action = "add" -> rest \cup e.participants
                [] e.action = "remove" -> rest
                [] e.action \in {"promote", "demote"} ->
                     rest \cup { [p EXCEPT !.isAdmin = e.action = "promote"] : p \in those }]

HeardAll(view, events) ==
  LET after[i \in 0..Len(events)] == IF i = 0 THEN view ELSE Heard(after[i - 1], events[i])
  IN  after[Len(events)]

-----------------------------------------------------------------------------
(***************************************************************************)
(* What holds.                                                             *)
(***************************************************************************)

GroupStates ==
  { g \in { [subject |-> 0, description |-> d, ephemeral |-> e, flags |-> {},
              members |-> m, admins |-> a, pending |-> q] :
                d \in Texts \cup {0}, e \in Durations \cup {0},
                m \in { s \in SUBSET Persons : Creator \in s },
                a, q \in SUBSET (Persons \ {Creator}) } :
      g.admins \subseteq g.members /\ g.pending \cap g.members = {} }
  \cup { Created(GroupCreate(s, who)) : s \in Subjects, who \in SUBSET Persons }

Requests(metadata) ==
  { GroupUpdateSubject(s) : s \in Subjects } \cup { GroupSettingUpdate(s) : s \in Settings }
  \cup { GroupToggleEphemeral(d) : d \in Durations \cup {0} }
  \cup { GroupUpdateDescription(metadata, t) : t \in Texts \cup {0} }
  \cup { GroupParticipantsUpdate(who, a) : who \in SUBSET Persons, a \in Actions }
  \cup { GroupRequestParticipantsUpdate(who, a) : who \in SUBSET Persons, a \in {"approve", "reject"} }
  \cup { GroupLeave(u) : u \in Persons }

Metadata(g) == ExtractGroupMetadata(GroupNode(g, FALSE))

NotifiedFrom == << "g", "g.us" >>

Followed(m) == [subject |-> m.subject, ephemeralDuration |-> m.ephemeralDuration,
                participants |-> m.participants]

\* Metadata kept up to date with the events of any two changes, in one
\* notification or in two, agrees with metadata read afresh, in either way:
\* in subject, participants and their roles, and disappearing messages.  What
\* a caller is told of each participant is what became of it.
ViewsFollow ==
  \A g \in GroupStates :
    \A r1 \in Requests(Metadata(g)) : \A r2 \in Requests(Metadata(Applied(g, r1))) :
      LET g1 == Applied(g, r1)  g2 == Applied(g1, r2)
          events == EventsOf(Child(g, r1)) \o EventsOf(Child(g1, r2))
      IN  /\ Followed(HeardAll(Metadata(g), events)) = Followed(Metadata(g2))
          /\ ExtractGroupMetadata(GroupNode(g2, TRUE)) = Metadata(g2)
          /\ GroupFetchAllParticipating({GroupNode(g2, FALSE)})[NotifiedFrom] = Metadata(g2)
          /\ { s.jid : s \in { t \in Statuses(Answer(g, r1)) : t.status = "200" } } = Reached(g, r1)

\* A description is replaced only by one who read it: a change between the
\* two queries of groupUpdateDescription() makes its request fail.
DescriptionsRead ==
  \A g \in { h \in GroupStates : h.admins = {} } :
    \A others \in Requests(Metadata(g)) \cup { Request("description", {}, t, g.description) : t \in Texts \cup {0} },
       text \in Texts \cup {0} :
      LET g1 == Applied(g, others)
          g2 == Applied(g1, GroupUpdateDescription(Metadata(g), text))
      IN  g2.description # g1.description => g1.description = g.description

GroupsAgree == ViewsFollow /\ DescriptionsRead

=============================================================================
