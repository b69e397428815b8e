------------------------------- MODULE Schema -------------------------------
(***************************************************************************)
(* The database schema, twice: as the ORM models under app/ declare it     *)
(* (what the services rely on, and what the tests create) and as the       *)
(* scripts under alembic/versions build it, statement by statement (what   *)
(* a deployed database has).                                               *)
(*                                                                         *)
(* A table is its columns (NOT NULL or nullable), the column sets that are *)
(* unique, its foreign keys with their ON DELETE, its indexed columns and  *)
(* its named CHECKs.  Column types and constraint names are left out, and  *)
(* so is the primary key, which is the column id in every table.           *)
(***************************************************************************)
EXTENDS Sequences, TLC

Table(required, optional, unique, refs, indexes) ==
    [required |-> required, optional |-> optional, unique |-> unique, refs |-> refs,
     indexes |-> indexes, checks |-> {}]

Nothing == Table({}, {}, {}, {}, {})

\* UUIDPrimaryKeyMixin and TimestampMixin.
Stamped == {"id", "created_at", "updated_at"}

Limits == {"rate_limit_email", "rate_limit_sms", "rate_limit_push", "rate_limit_in_app"}

RoleMatchesTenant == "ck_user_role_tenant_scope"

-----------------------------------------------------------------------------
(* What the models declare. *)

TenantModel ==
    Table(Stamped \cup Limits \cup {"name", "slug", "api_key_hash", "is_active",
                                    "max_notifications_per_day"},
          {}, {{"name"}, {"slug"}}, {}, {})

UserModel ==
    [Table(Stamped \cup {"email", "hashed_password", "role", "is_active"}, {"tenant_id"},
           {{"email"}}, {<<"tenant_id", "tenants", "CASCADE">>}, {"tenant_id", "email"})
       EXCEPT !.checks = {RoleMatchesTenant}]

TemplateModel ==
    Table(Stamped \cup {"tenant_id", "name", "channel", "body", "variables", "is_active"},
          {"description", "subject", "created_by"}, {{"tenant_id", "name", "channel"}},
          {<<"tenant_id", "tenants", "CASCADE">>}, {"tenant_id"})

RecipientModel ==
    Table(Stamped \cup {"tenant_id", "external_key"}, {"display_name"},
          {{"tenant_id", "external_key"}}, {<<"tenant_id", "tenants", "CASCADE">>}, {"tenant_id"})

AddressModel ==
    Table(Stamped \cup {"recipient_id", "tenant_id", "channel", "address"}, {},
          {{"recipient_id", "channel"}}, {<<"recipient_id", "recipients", "CASCADE">>},
          {"recipient_id", "tenant_id"})

ConfigModel ==
    Table(Stamped \cup {"tenant_id", "channel", "is_enabled", "config"}, {},
          {{"tenant_id", "channel"}}, {<<"tenant_id", "tenants", "CASCADE">>}, {"tenant_id"})

RequestModel ==
    Table(Stamped \cup {"tenant_id", "template_name", "channels", "recipient_ids", "variables",
                        "status"},
          {"scheduled_at", "idempotency_key", "created_by"}, {{"tenant_id", "idempotency_key"}},
          {<<"tenant_id", "tenants", "CASCADE">>}, {"tenant_id", "status"})

ChannelModel ==
    Table(Stamped \cup {"notification_request_id", "tenant_id", "channel", "rendered_body",
                        "status", "skipped_recipients"},
          {"template_id", "rendered_subject"}, {{"notification_request_id", "channel"}},
          {<<"notification_request_id", "notification_requests", "CASCADE">>,
           <<"template_id", "templates", "SET NULL">>},
          {"notification_request_id", "tenant_id", "status"})

AttemptModel ==
    Table(Stamped \cup {"notification_channel_id", "tenant_id", "channel", "recipient_id",
                        "address", "status", "attempt_count", "max_attempts"},
          {"next_attempt_at", "last_error", "provider_message_id", "provider_response", "sent_at"},
          {}, {<<"notification_channel_id", "notification_channels", "CASCADE">>,
               <<"recipient_id", "recipients", "CASCADE">>},
          {"notification_channel_id", "tenant_id", "recipient_id", "status", "next_attempt_at"})

AuditModel ==
    Table({"id", "created_at", "entity_type", "entity_id", "action"},
          {"tenant_id", "actor_id", "old_state", "new_state", "metadata"}, {}, {},
          {"tenant_id", "entity_id"})

\* Base.metadata, once env.py (or conftest.py) has imported every models module.
DeclaredTables ==
    "tenants" :> TenantModel @@ "users" :> UserModel @@ "templates" :> TemplateModel
    @@ "recipients" :> RecipientModel @@ "recipient_channel_addresses" :> AddressModel
    @@ "channel_configs" :> ConfigModel @@ "notification_requests" :> RequestModel
    @@ "notification_channels" :> ChannelModel @@ "delivery_attempts" :> AttemptModel
    @@ "audit_logs" :> AuditModel

-----------------------------------------------------------------------------
(* The statements of a script.  batch_alter_table issues its index statements *)
(* as they are; anything else makes it recreate the table: create a copy,     *)
(* fill it, drop the table and rename the copy.                               *)

CreateTable(t, table) == [do |-> "create", on |-> t, table |-> table]
DropTable(t) == [do |-> "drop", on |-> t]
CreateIndex(t, c) == [do |-> "index", on |-> t, column |-> c, unique |-> FALSE]
CreateUniqueIndex(t, c) == [do |-> "index", on |-> t, column |-> c, unique |-> TRUE]
DropIndex(t, c) == [do |-> "unindex", on |-> t, column |-> c]

Recreate(t, gains, loses) ==
    << [do |-> "copy", on |-> t],
       [do |-> "swap", on |-> t, gains |-> gains, loses |-> loses] >>

-----------------------------------------------------------------------------
(* The scripts of alembic/versions, in the order of their down_revision.     *)

OldNotifications ==
    Table(Stamped \cup {"tenant_id", "channel", "body", "recipients", "context", "status"},
          {"template_id", "subject", "scheduled_at", "idempotency_key", "created_by"},
          {{"tenant_id", "idempotency_key"}},
          {<<"template_id", "templates", "SET NULL">>, <<"tenant_id", "tenants", "CASCADE">>}, {})

\* c59ba6c5ad9d, initial schema
InitialUpgrade ==
    << CreateTable("audit_logs",
         Table({"entity_type", "entity_id", "action", "created_at", "id"},
               {"tenant_id", "actor_id", "old_state", "new_state", "metadata"}, {}, {}, {})),
       CreateIndex("audit_logs", "entity_id"), CreateIndex("audit_logs", "tenant_id"),
       CreateTable("tenants",
         Table(Stamped \cup Limits \cup {"name", "slug", "api_key_hash", "is_active",
                                         "max_notifications_per_day"},
               {}, {{"name"}, {"slug"}}, {}, {})),
       CreateTable("users",
         Table(Stamped \cup {"email", "hashed_password", "role", "is_active"}, {"tenant_id"},
               {}, {}, {})),
       CreateUniqueIndex("users", "email"), CreateIndex("users", "tenant_id"),
       CreateTable("templates",
         Table(Stamped \cup {"tenant_id", "name", "channel", "body", "variables", "is_active"},
               {"description", "subject", "created_by"}, {{"tenant_id", "name", "channel"}},
               {<<"tenant_id", "tenants", "CASCADE">>}, {})),
       CreateIndex("templates", "tenant_id"),
       CreateTable("notifications", OldNotifications),
       CreateIndex("notifications", "status"), CreateIndex("notifications", "tenant_id"),
       CreateTable("delivery_attempts",
         Table(Stamped \cup {"tenant_id", "notification_id", "channel", "recipient", "status",
                             "attempt_count", "max_attempts"},
               {"next_attempt_at", "last_error", "provider_message_id", "provider_response",
                "sent_at"},
               {}, {<<"notification_id", "notifications", "CASCADE">>}, {})),
       CreateIndex("delivery_attempts", "next_attempt_at"),
       CreateIndex("delivery_attempts", "notification_id"),
       CreateIndex("delivery_attempts", "status"), CreateIndex("delivery_attempts", "tenant_id") >>

\* Variant: the tenants are dropped before the templates that refer to them.
InitialDowngradeTenantsFirst ==
    << DropTable("delivery_attempts"), DropTable("notifications"), DropTable("tenants"),
       DropTable("templates"), DropTable("users"), DropTable("audit_logs") >>

InitialDowngrade ==
    << DropIndex("delivery_attempts", "tenant_id"), DropIndex("delivery_attempts", "status"),
       DropIndex("delivery_attempts", "notification_id"),
       DropIndex("delivery_attempts", "next_attempt_at"), DropTable("delivery_attempts"),
       DropIndex("notifications", "tenant_id"), DropIndex("notifications", "status"),
       DropTable("notifications"), DropIndex("templates", "tenant_id"), DropTable("templates"),
       DropIndex("users", "tenant_id"), DropIndex("users", "email"), DropTable("users"),
       DropTable("tenants"), DropIndex("audit_logs", "tenant_id"),
       DropIndex("audit_logs", "entity_id"), DropTable("audit_logs") >>

\* d5c82e600657, fix delivery status and users fk
UsersRefTenants == [Nothing EXCEPT !.refs = {<<"tenant_id", "tenants", "CASCADE">>}]
UsersFkUpgrade == Recreate("users", UsersRefTenants, Nothing)
UsersFkDowngrade == Recreate("users", Nothing, UsersRefTenants)

\* 52dc3952e1e0, add recipients
RecipientsUpgrade ==
    << CreateTable("recipients",
         Table(Stamped \cup {"tenant_id", "external_key"}, {"display_name"},
               {{"tenant_id", "external_key"}}, {<<"tenant_id", "tenants", "CASCADE">>}, {})),
       CreateIndex("recipients", "tenant_id"),
       CreateTable("recipient_channel_addresses",
         Table(Stamped \cup {"recipient_id", "tenant_id", "channel", "address"}, {},
               {{"recipient_id", "channel"}}, {<<"recipient_id", "recipients", "CASCADE">>}, {})),
       CreateIndex("recipient_channel_addresses", "recipient_id"),
       CreateIndex("recipient_channel_addresses", "tenant_id") >>

RecipientsDowngrade ==
    << DropIndex("recipient_channel_addresses", "tenant_id"),
       DropIndex("recipient_channel_addresses", "recipient_id"),
       DropTable("recipient_channel_addresses"), DropIndex("recipients", "tenant_id"),
       DropTable("recipients") >>

\* a9ff87112df0, notification fanout and users split.  The foreign key of a
\* dropped column goes with it.
FanoutGains ==
    Table({"notification_channel_id", "recipient_id", "address"}, {}, {},
          {<<"recipient_id", "recipients", "CASCADE">>,
           <<"notification_channel_id", "notification_channels", "CASCADE">>},
          {"notification_channel_id", "recipient_id"})

FanoutLoses ==
    Table({"notification_id", "recipient"}, {}, {},
          {<<"notification_id", "notifications", "CASCADE">>}, {"notification_id"})

UsersCheck == [Nothing EXCEPT !.checks = {RoleMatchesTenant}]

FanoutTables ==
    << CreateTable("notification_requests",
         Table(Stamped \cup {"tenant_id", "template_name", "channels", "recipient_ids",
                             "variables", "status"},
               {"scheduled_at", "idempotency_key", "created_by"},
               {{"tenant_id", "idempotency_key"}}, {<<"tenant_id", "tenants", "CASCADE">>}, {})),
       CreateIndex("notification_requests", "status"),
       CreateIndex("notification_requests", "tenant_id"),
       CreateTable("notification_channels",
         Table(Stamped \cup {"notification_request_id", "tenant_id", "channel", "rendered_body",
                             "status", "skipped_recipients"},
               {"template_id", "rendered_subject"}, {{"notification_request_id", "channel"}},
               {<<"notification_request_id", "notification_requests", "CASCADE">>,
                <<"template_id", "templates", "SET NULL">>}, {})),
       CreateIndex("notification_channels", "notification_request_id"),
       CreateIndex("notification_channels", "status"),
       CreateIndex("notification_channels", "tenant_id") >>

DropNotifications ==
    << DropIndex("notifications", "status"), DropIndex("notifications", "tenant_id"),
       DropTable("notifications") >>

\* Variant: notifications goes before delivery_attempts is detached from it.
FanoutUpgradeDropFirst ==
    FanoutTables \o DropNotifications
    \o Recreate("delivery_attempts", FanoutGains, FanoutLoses)
    \o Recreate("users", UsersCheck, Nothing)

\* Variant: the check on users forgotten.
FanoutUpgradeUnchecked ==
    FanoutTables \o Recreate("delivery_attempts", FanoutGains, FanoutLoses) \o DropNotifications

FanoutUpgrade ==
    FanoutTables
    \o Recreate("delivery_attempts", FanoutGains, FanoutLoses)
    \o DropNotifications
    \o Recreate("users", UsersCheck, Nothing)

\* Variant: an index of the old table forgotten.
FanoutDowngradeUnindexed ==
    Recreate("users", Nothing, UsersCheck)
    \o << CreateTable("notifications", OldNotifications),
          CreateIndex("notifications", "tenant_id") >>
    \o Recreate("delivery_attempts", FanoutLoses, FanoutGains)
    \o << DropTable("notification_channels"), DropTable("notification_requests") >>

FanoutDowngrade ==
    Recreate("users", Nothing, UsersCheck)
    \o << CreateTable("notifications", OldNotifications),
          CreateIndex("notifications", "tenant_id"), CreateIndex("notifications", "status") >>
    \o Recreate("delivery_attempts", FanoutLoses, FanoutGains)
    \o << DropIndex("notification_channels", "tenant_id"),
          DropIndex("notification_channels", "status"),
          DropIndex("notification_channels", "notification_request_id"),
          DropTable("notification_channels"), DropIndex("notification_requests", "tenant_id"),
          DropIndex("notification_requests", "status"), DropTable("notification_requests") >>

\* a89b974f0985, add channel configs
ConfigsUpgrade ==
    << CreateTable("channel_configs",
         Table(Stamped \cup {"tenant_id", "channel", "is_enabled", "config"}, {},
               {{"tenant_id", "channel"}}, {<<"tenant_id", "tenants", "CASCADE">>}, {})),
       CreateIndex("channel_configs", "tenant_id") >>

ConfigsDowngrade == << DropIndex("channel_configs", "tenant_id"), DropTable("channel_configs") >>

UpgradeScripts ==
    <<InitialUpgrade, UsersFkUpgrade, RecipientsUpgrade, FanoutUpgrade, ConfigsUpgrade>>
DowngradeScripts ==
    <<InitialDowngrade, UsersFkDowngrade, RecipientsDowngrade, FanoutDowngrade, ConfigsDowngrade>>
=============================================================================
