------------------------------- MODULE MCApi -------------------------------
(* A small deployment for the API: two tenants, one of them with a template on two
   channels, a recipient with an address and one without; and the requests its users,
   the other tenant's admin and the platform admin may send. *)
EXTENDS NotificationCreate, TLC

T1 == <<"tenant 1">>
T2 == <<"tenant 2">>
R1 == <<"recipient 1">>
R2 == <<"recipient 2">>
Welcome == <<"welcome">>

SeedRows ==
    { Row(T1, "tenants", T1, None, {<<"tenants", <<>>, "one", None>>, <<"tenants", <<>>, "1", "slug">>}, {}),
      Row(T2, "tenants", T2, None, {<<"tenants", <<>>, "two", None>>, <<"tenants", <<>>, "2", "slug">>}, {}),
      Row(<<"root">>, "users", None, None, {<<"users", <<>>, "root@", None>>}, {}),
      Row(<<"ann">>, "users", T1, T1, {<<"users", <<>>, "ann@", None>>}, {}),
      Row(<<"bob">>, "users", T2, T2, {<<"users", <<>>, "bob@", None>>}, {}),
      Row(Welcome, "templates", T1, T1, {<<"templates", T1, "welcome", "email">>}, {"name"}),
      Row(<<"welcome sms">>, "templates", T1, T1, {<<"templates", T1, "welcome", "sms">>}, {}),
      Row(R1, "recipients", T1, T1, {<<"recipients", T1, "k1", None>>}, {}),
      Row(<<"address 1">>, "addresses", T1, R1, {<<"addresses", R1, None, "email">>}, {"a"}),
      Row(R2, "recipients", T1, T1, {<<"recipients", T1, "k2", None>>}, {}),
      Row(<<"config 1">>, "configs", T1, T1, {<<"configs", T1, None, "email">>}, {"on"}) }

Call(op, by, id, name, channel, value) ==
    [op |-> op, by |-> <<by>>, id |-> id, name |-> name, slug |-> None, channel |-> channel,
     channels |-> <<>>, value |-> value]

NotifyCall(channels, recipients, given, key, scheduled) ==
    [op |-> "notify", by |-> <<"ann">>, name |-> "welcome", channels |-> channels,
     recipients |-> recipients, given |-> given, key |-> key, scheduled |-> scheduled]

DirectoryCalls ==
    { [Call("createTenant", "root", None, "three", None, {}) EXCEPT !.slug = "3"],
      [Call("createTenant", "root", None, "one", None, {}) EXCEPT !.slug = "2"],
      Call("updateTenant", "root", T2, "three", None, None),
      [Call("createTenant", "ann", None, "four", None, {}) EXCEPT !.slug = "4"],
      Call("getTenant", "root", T1, None, None, None),
      Call("getTenant", "nobody", T1, None, None, None),
      Call("createUser", "root", T1, "new@", None, {}),
      Call("createUser", "root", <<"nowhere">>, "new@", None, {}),
      Call("bootstrap", None, None, "new@", None, {}),
      Call("createTemplate", "ann", None, "welcome", "push", {"name"}),
      Call("createTemplate", "bob", None, "welcome", "email", {}),
      Call("updateTemplate", "ann", Welcome, "bye", None, {"name", "age"}),
      Call("updateTemplate", "ann", Welcome, None, None, {"inactive"}),
      Call("updateTemplate", "bob", Welcome, "bye", None, None),
      Call("getTemplate", "ann", Welcome, None, None, None),
      Call("deleteTemplate", "ann", Welcome, None, None, None) }

RecipientCalls ==
    { [Call("createRecipient", "ann", None, "k3", None, {"a"}) EXCEPT !.channels = <<"email", "sms">>],
      [Call("createRecipient", "ann", None, "k4", None, {"a"}) EXCEPT !.channels = <<"sms", "sms">>],
      Call("getRecipient", "bob", R1, None, None, None),
      Call("updateRecipient", "ann", R2, None, None, {"Ann"}),
      Call("deleteRecipient", "ann", R1, None, None, None),
      Call("deleteRecipient", "ann", R2, None, None, None),
      Call("upsertAddress", "ann", R1, None, "email", {"b"}),
      Call("upsertAddress", "ann", R2, None, "sms", {"b"}),
      Call("upsertAddress", "bob", R2, None, "sms", {"b"}),
      Call("deleteAddress", "ann", R1, None, "email", None),
      Call("upsertConfig", "ann", None, None, "email", {"off"}),
      Call("upsertConfig", "bob", None, None, "email", {"off"}),
      Call("getConfig", "ann", None, None, "email", None),
      Call("deleteConfig", "ann", None, None, "email", None) }

NotifyCalls ==
    { NotifyCall(<<"email", "sms", "email">>, <<R1, R2, R1>>, {"name"}, "key", FALSE),
      NotifyCall(<<"sms">>, <<R1>>, {}, "", TRUE),
      NotifyCall(<<"email">>, <<R1>>, {}, None, FALSE) }

\* Before there is anybody: two people set the service up.
BootstrapCalls ==
    {Call("bootstrap", None, None, "root@", None, {}), Call("bootstrap", None, None, "toor@", None, {})}

AllCalls == DirectoryCalls \cup RecipientCalls \cup NotifyCalls

Symmetry == Permutations(Requests)
=============================================================================
