----------------------------- MODULE SchemaSteps -----------------------------
(***************************************************************************)
(* The 24 revisions of the schema, each with what its upgrade and its      *)
(* downgrade do to columns, indexes and constraints.  Types, lengths and   *)
(* server defaults are left out, and the order of columns.                 *)
(***************************************************************************)
EXTENDS Naturals, Sequences, FiniteSets

(* Columns of table t that must have a value, and columns that may be NULL.*)
T(t, required, optional) ==
  {[t |-> t, c |-> c, null |-> FALSE] : c \in required}
    \cup {[t |-> t, c |-> c, null |-> TRUE] : c \in optional}

(* Indexes, unique constraints, and a foreign key to another table.        *)
Ix(t, C) == {[kind |-> "ix", t |-> t, c |-> c, to |-> "none"] : c \in C}
Uq(t, C) == {[kind |-> "uq", t |-> t, c |-> c, to |-> "none"] : c \in C}
Fk(t, C, to) == {[kind |-> "fk", t |-> t, c |-> c, to |-> to] : c \in C}

Nothing == [add |-> {}, drop |-> {}, gone |-> {}, on |-> {}, off |-> {}]
Add(cols, on) == [Nothing EXCEPT !.add = cols, !.on = on]
Gone(tables, off) == [Nothing EXCEPT !.gone = tables, !.off = off]
Names(cols) == {<<k.t, k.c>> : k \in cols}
Drop(cols, off) == [Nothing EXCEPT !.drop = Names(cols), !.off = off]
Swap(old, new, off, on) ==
  [add |-> new, drop |-> Names(old), gone |-> {}, on |-> on, off |-> off]

Stamps == {"created_at", "updated_at"}

-----------------------------------------------------------------------------
Users == T("users", {"id", "email", "full_name", "auth_provider", "is_active"} \cup Stamps,
           {"hashed_password", "external_subject"})
Roles ==
  T("roles", {"id", "name"}, {"description"}) \cup T("user_roles", {"user_id", "role_id"}, {})
UserMarks == Uq("users", {"email"}) \cup Ix("users", {"email"})
RoleMarks == Uq("roles", {"name"}) \cup Fk("user_roles", {"role_id"}, "roles")
               \cup Fk("user_roles", {"user_id"}, "users")

Up1 == Add(Users \cup Roles, UserMarks \cup RoleMarks)
Down1 == Gone({"user_roles", "roles", "users"}, Ix("users", {"email"}))

Up2 == Add(
  T("companies", {"id", "name", "status"} \cup Stamps,
    {"customer_code", "registration_number", "address", "main_email", "main_phone",
     "notes", "created_by_id", "updated_by_id"})
  \cup T("contacts", {"id", "company_id", "full_name", "contact_type", "is_primary",
                      "is_authorised_requester", "status"} \cup Stamps,
         {"email", "phone", "job_title"}),
  Uq("companies", {"customer_code"}) \cup Ix("companies", {"name"})
  \cup Fk("companies", {"created_by_id", "updated_by_id"}, "users")
  \cup Fk("contacts", {"company_id"}, "companies") \cup Ix("contacts", {"company_id"}))
Down2 == Gone({"contacts", "companies"},
              Ix("contacts", {"company_id"}) \cup Ix("companies", {"name"}))

Up3 == Add(
  T("requests", {"id", "request_number", "company_id", "request_type", "title",
                 "status"} \cup Stamps,
    {"requested_by_id", "description", "submitted_at", "reviewed_by_id", "reviewed_at",
     "review_notes"})
  \cup T("visitor_access_requests",
         {"id", "request_id", "visit_date", "expected_arrival_time",
          "expected_departure_time", "visitor_full_name", "visitor_id_number",
          "visit_status"} \cup Stamps,
         {"site_location", "host_contact_name", "visitor_phone", "visitor_email",
          "visitor_company", "vehicle_registration", "equipment_carried",
          "special_instructions", "checked_in_at", "checked_in_by_id", "checked_out_at",
          "checked_out_by_id", "security_notes"})
  \cup T("audit_logs", {"id", "action", "entity_type", "summary", "created_at"},
         {"actor_user_id", "entity_id", "metadata"}),
  Uq("requests", {"request_number"}) \cup Ix("requests", {"company_id", "request_number"})
  \cup Fk("requests", {"company_id"}, "companies")
  \cup Fk("requests", {"requested_by_id", "reviewed_by_id"}, "users")
  \cup Uq("visitor_access_requests", {"request_id"})
  \cup Ix("visitor_access_requests", {"request_id"})
  \cup Fk("visitor_access_requests", {"request_id"}, "requests")
  \cup Fk("visitor_access_requests", {"checked_in_by_id", "checked_out_by_id"}, "users")
  \cup Fk("audit_logs", {"actor_user_id"}, "users"))
Down3 == Gone({"audit_logs", "visitor_access_requests", "requests"},
              Ix("visitor_access_requests", {"request_id"})
              \cup Ix("requests", {"company_id", "request_number"}))

CompanyUsers == T("company_users", {"id", "company_id", "user_id", "status", "created_at"}, {})
CompanyUserMarks ==
  Uq("company_users", {"company_id_user_id"})
  \cup Fk("company_users", {"company_id"}, "companies")
  \cup Fk("company_users", {"user_id"}, "users")
  \cup Ix("company_users", {"company_id", "user_id"})

Up4 == Add(CompanyUsers, CompanyUserMarks)
Down4 == Gone({"company_users"}, Ix("company_users", {"company_id", "user_id"}))

Address == T("visitor_access_requests", {}, {"visitor_address"})
Up5 == Add(Address, {})
Down5 == Drop(Address, {})

ContactUser == T("contacts", {}, {"user_id"})
ContactUserMarks == Uq("contacts", {"user_id"}) \cup Fk("contacts", {"user_id"}, "users")
Up6 == Add(ContactUser, ContactUserMarks)
Down6 == Drop(ContactUser, ContactUserMarks)

PasswordFlag == T("users", {"must_change_password"}, {})
Up7 == Add(PasswordFlag, {})
Down7 == Drop(PasswordFlag, {})

(* One visitor a request until here, and again after the downgrade.        *)
OneVisitor == Uq("visitor_access_requests", {"request_id"})
Up8 == [Nothing EXCEPT !.off = OneVisitor]
Down8 == [Nothing EXCEPT !.on = OneVisitor]

-----------------------------------------------------------------------------
Snapshots == T("audit_logs", {}, {"actor_subject", "actor_tenant_id", "actor_email_snapshot",
                                  "actor_name_snapshot", "actor_roles_snapshot"})
Up9 == Add(Snapshots, Ix("audit_logs", {"actor_subject"}))
Down9 == Drop(Snapshots, Ix("audit_logs", {"actor_subject"}))

Actor == T("audit_logs", {}, {"actor_user_id"})
ActorKey == Fk("audit_logs", {"actor_user_id"}, "users")
Up10 == Drop(Actor, ActorKey)
Down10 == Add(Actor, ActorKey)

(* Columns that name a user of the application's own.                      *)
ByUser ==
  T("companies", {}, {"created_by_id", "updated_by_id"})
  \cup T("requests", {}, {"requested_by_id", "reviewed_by_id"})
  \cup T("visitor_access_requests", {}, {"checked_in_by_id", "checked_out_by_id"})
ByUserKeys ==
  Fk("companies", {"created_by_id", "updated_by_id"}, "users")
  \cup Fk("requests", {"requested_by_id", "reviewed_by_id"}, "users")
  \cup Fk("visitor_access_requests", {"checked_in_by_id", "checked_out_by_id"}, "users")

Up11 == [Drop(ContactUser \cup ByUser, ContactUserMarks \cup ByUserKeys
                                         \cup Ix("users", {"email"}))
           EXCEPT !.gone = {"company_users", "user_roles", "roles", "users"}]
(* Mutant: the contacts' link to a user is not restored.                   *)
Down11WithoutLink ==
  Add(Users \cup PasswordFlag \cup Roles \cup ByUser \cup CompanyUsers,
      UserMarks \cup RoleMarks \cup ByUserKeys \cup CompanyUserMarks)

Down11 == Add(Users \cup PasswordFlag \cup Roles \cup ByUser \cup ContactUser \cup CompanyUsers,
              UserMarks \cup RoleMarks \cup ByUserKeys \cup ContactUserMarks
              \cup CompanyUserMarks)

-----------------------------------------------------------------------------
(* user_session_events, in all its forms.                                  *)
S(required, optional) == T("user_session_events", required, optional)
SIx(C) == Ix("user_session_events", C)

Up12 == Add(
  S({"id", "actor_subject", "actor_tenant_id", "actor_name_snapshot",
     "actor_roles_snapshot", "event_type", "created_at"},
    {"actor_email_snapshot", "access_token_expires_at"}),
  SIx({"actor_subject", "actor_tenant_id", "created_at", "event_type"}))
Down12 == Gone({"user_session_events"},
               SIx({"actor_subject", "actor_tenant_id", "created_at", "event_type"}))

Up13 == Add(S({"username_snapshot"}, {}), SIx({"username_snapshot"}))
Down13 == Drop(S({"username_snapshot"}, {}), SIx({"username_snapshot"}))

Events == S({"actor_subject", "actor_tenant_id", "actor_name_snapshot",
             "actor_roles_snapshot", "event_type", "created_at", "username_snapshot"},
            {"actor_email_snapshot", "access_token_expires_at"})
EventIx == SIx({"actor_subject", "actor_tenant_id", "created_at", "event_type",
                "username_snapshot"})
Times == S({"username"}, {"login_date_time", "heartbeat_date_time"})
TimeIx == SIx({"username", "login_date_time", "heartbeat_date_time"})
Up14 == Swap(Events, Times, EventIx, TimeIx)
Down14 == Swap(Times, Events, TimeIx, EventIx)

Up15 == Nothing
Down15 == Nothing

(* Times in the zone of the site, and back: the same moments.              *)
Up16 == Nothing
Down16 == Nothing

Heartbeat == S({}, {"heartbeat_date_time"})
LastActive == S({}, {"last_active_date_time"})
Up17 == Swap(Heartbeat, LastActive, SIx({"heartbeat_date_time"}), SIx({"last_active_date_time"}))
(* Mutant: the index is left under its new name.                           *)
Down17KeepingIndex == Swap(LastActive, Heartbeat, {}, {})
Down17 == Swap(LastActive, Heartbeat, SIx({"last_active_date_time"}), SIx({"heartbeat_date_time"}))

Active17 == S({"username"}, {"login_date_time", "last_active_date_time"})
ActiveIx == SIx({"username", "login_date_time", "last_active_date_time"})
Sessions18 ==
  S({"actor_tenant_id", "actor_object_id", "actor_subject", "actor_name_snapshot",
     "login_at", "last_seen_at", "status"},
    {"actor_email_snapshot", "ended_at", "detected_at", "end_reason"})
SessionIx ==
  SIx({"actor_tenant_id", "actor_object_id", "actor_subject", "login_at", "last_seen_at",
       "ended_at", "status", "end_reason"})
Up18 == Swap(Active17, Sessions18, ActiveIx, SessionIx)
Down18 == Swap(Sessions18, Active17, SessionIx, ActiveIx)

Shown == S({"name"}, {"email", "reason"})
Hidden == S({"actor_tenant_id", "actor_object_id", "actor_subject", "actor_name_snapshot",
             "status"}, {"actor_email_snapshot", "detected_at", "end_reason"})
HiddenIx == SIx({"actor_tenant_id", "actor_object_id", "actor_subject", "status", "end_reason"})
Up19 == Swap(Hidden, Shown, HiddenIx, SIx({"email", "reason"}))
Down19 == Swap(Shown, Hidden, SIx({"email", "reason"}), HiddenIx)

(* The table is made anew, under the old name, to order its columns.       *)
Display == S({"id", "name", "login_at", "last_seen_at"}, {"email", "ended_at", "reason"})
DisplayIx == SIx({"email", "login_at", "last_seen_at", "ended_at", "reason"})
Up20 == [Add(Display, DisplayIx) EXCEPT !.gone = {"user_session_events"}]
Down20 == [Add(Display, DisplayIx) EXCEPT !.gone = {"user_session_events"}]

Up21 == Nothing
Down21 == Nothing

Up22 == Nothing
Down22 == Nothing

Owner == S({}, {"actor_subject", "last_activity_at"})
Up23 == Add(Owner, SIx({"actor_subject", "last_activity_at"}))
Down23 == Drop(Owner, SIx({"actor_subject", "last_activity_at"}))

Requester == T("contacts", {"is_authorised_requester"}, {})
(* Mutant: the column stays.                                               *)
Up24Keeping == Nothing
Up24 == Drop(Requester, {})
Down24 == Add(Requester, {})

Ups == <<Up1, Up2, Up3, Up4, Up5, Up6, Up7, Up8, Up9, Up10, Up11, Up12, Up13, Up14, Up15,
         Up16, Up17, Up18, Up19, Up20, Up21, Up22, Up23, Up24>>
Downs == <<Down1, Down2, Down3, Down4, Down5, Down6, Down7, Down8, Down9, Down10, Down11,
           Down12, Down13, Down14, Down15, Down16, Down17, Down18, Down19, Down20, Down21,
           Down22, Down23, Down24>>
Newest == Len(Ups)

-----------------------------------------------------------------------------
(* What the ORM models declare, and so the application reads and writes.   *)
CompanyModel == T("companies", {"id", "name", "status"} \cup Stamps,
  {"customer_code", "registration_number", "address", "main_email", "main_phone", "notes"})
ContactModel == T("contacts",
  {"id", "company_id", "full_name", "contact_type", "is_primary", "status"} \cup Stamps,
  {"email", "phone", "job_title"})
RequestModel == T("requests",
  {"id", "request_number", "company_id", "request_type", "title", "status"} \cup Stamps,
  {"description", "submitted_at", "reviewed_at", "review_notes"})
VisitorModel == T("visitor_access_requests",
  {"id", "request_id", "visit_date", "expected_arrival_time", "expected_departure_time",
   "visitor_full_name", "visitor_id_number", "visit_status"} \cup Stamps,
  {"site_location", "host_contact_name", "visitor_phone", "visitor_email",
   "visitor_address", "visitor_company", "vehicle_registration", "equipment_carried",
   "special_instructions", "checked_in_at", "checked_out_at", "security_notes"})
AuditModel == T("audit_logs", {"id", "action", "entity_type", "summary", "created_at"},
  {"actor_subject", "actor_tenant_id", "actor_email_snapshot", "actor_name_snapshot",
   "actor_roles_snapshot", "entity_id", "metadata"})
SessionModel == S({"id", "name", "login_at", "last_seen_at"},
  {"email", "actor_subject", "last_activity_at", "ended_at", "reason"})

Models ==
  CompanyModel \cup ContactModel \cup RequestModel \cup VisitorModel \cup AuditModel
    \cup SessionModel
ModelMarks ==
  Ix("companies", {"name"}) \cup Uq("companies", {"customer_code"})
  \cup Fk("contacts", {"company_id"}, "companies") \cup Ix("contacts", {"company_id"})
  \cup Uq("requests", {"request_number"}) \cup Ix("requests", {"request_number", "company_id"})
  \cup Fk("requests", {"company_id"}, "companies")
  \cup Fk("visitor_access_requests", {"request_id"}, "requests")
  \cup Ix("visitor_access_requests", {"request_id"})
  \cup Ix("audit_logs", {"actor_subject"})
  \cup SIx({"email", "actor_subject", "last_activity_at", "login_at", "last_seen_at",
            "ended_at", "reason"})
=============================================================================
