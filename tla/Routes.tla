------------------------------- MODULE Routes -------------------------------
(***************************************************************************)
(* The routes of the API and the dependency each of them authenticates its *)
(* caller with (app/api/api_v1/endpoint): one table per router file.  A    *)
(* route that anyone may call needs "anyone"; the forms are left out.      *)
(***************************************************************************)

\* The dependencies of UserManagerService, by the end of their names.  The
\* optional one lets everybody in and is "anyone" here; the router of the approval
\* log is not among the routers of the application.
Dependencies == {"user", "user_or_business_verify", "business", "business_admin_superuser",
                 "admin", "superuser", "websocket"}

OpenTo(names) == [n \in names |-> "anyone"]
OnlyFor(names, needs) == [n \in names |-> needs]

\* Put one table under another.
f ++ g == [n \in DOMAIN f \cup DOMAIN g |-> IF n \in DOMAIN f THEN f[n] ELSE g[n]]

AdminApprovalRequestJob == OnlyFor({"get", "get_by_id", "approve", "approve_update"}, "admin")

Business ==
    [me |-> "business_admin_superuser", get |-> "admin", get_by_id |-> "admin",
     create |-> "admin", update |-> "business", delete |-> "business_admin_superuser"]

BusinessAdmin ==
    [get |-> "superuser", get_by_id |-> "superuser", create |-> "superuser",
     update |-> "admin", delete |-> "admin"]

BusinessAuth ==
    OpenTo({"register", "login", "change_password_for_test", "send_forgot_password"})
    ++ OnlyFor({"refresh_token", "logout", "verify_token", "change_password"},
            "business_admin_superuser")

BusinessCampaign ==
    [get |-> "business_admin_superuser", get_by_id |-> "business_admin_superuser",
     create |-> "business", update_status |-> "business", update |-> "business",
     delete |-> "business_admin_superuser"]

BusinessCompany ==
    [get |-> "business_admin_superuser", get_by_id |-> "business_admin_superuser",
     create |-> "business", update |-> "business", delete |-> "business_admin_superuser"]

BusinessCVApplications == OnlyFor({"get", "get_by_id", "update"}, "business")

\* The job routes that read, and those that write.
BusinessJobReads == OnlyFor({"get", "search", "get_by_id"}, "business_admin_superuser")

BusinessJobWrites ==
    [create |-> "business", update |-> "business",
     update_status |-> "business_admin_superuser", delete |-> "business_admin_superuser"]

Verify == OnlyFor({"send_verify_code", "verify_code"}, "business")

Chat == OnlyFor({"get"}, "websocket")
ChatContact == OnlyFor({"get", "get_contactables"}, "user_or_business_verify")
ChatConversation ==
    OnlyFor({"get", "get_existing", "get_by_id", "create", "upload_attachment", "update",
          "update_avatar"}, "user_or_business_verify")
ChatMessage == OnlyFor({"get"}, "user_or_business_verify")
ChatWebsocket == OnlyFor({"connect"}, "websocket")

\* The lists an application is configured with: everybody reads them.
Config(needs) ==
    OpenTo({"get", "get_by_id"}) ++ OnlyFor({"create", "update", "delete"}, needs)
Category == Config("superuser")
Field == Config("superuser")
Skill == Config("superuser")
JobPosition == Config("admin")
GroupPosition == Config("admin")
Location == OpenTo({"get_province", "get_province_by_id", "get_district", "get_district_by_id"})

UserCompany == OpenTo({"get", "search", "get_by_id"})
UserCVApplications == OnlyFor({"get", "get_by_id", "create"}, "user")
UserJob == OpenTo({"search", "get", "count_job_by_category", "count_job_by_salary",
                   "cruitment_demand", "get_by_id"})
User ==
    [me |-> "user", get |-> "admin", get_by_id |-> "admin", create |-> "admin",
     update |-> "user", delete |-> "user"]
UserAuth ==
    OpenTo({"register", "login", "login_google"})
    ++ OnlyFor({"refresh_token", "logout", "verify_token", "change_password"}, "user")

Route ==
    [admin_approval_request_job |-> AdminApprovalRequestJob, business |-> Business,
     business_admin |-> BusinessAdmin, business_auth |-> BusinessAuth, business_campaign |-> BusinessCampaign,
     business_company |-> BusinessCompany, business_cv_applications |-> BusinessCVApplications,
     business_job |-> BusinessJobReads ++ BusinessJobWrites, verify |-> Verify,
     chat |-> Chat, contact |-> ChatContact, conversation |-> ChatConversation,
     message |-> ChatMessage, websocket |-> ChatWebsocket,
     category |-> Category, field |-> Field, skill |-> Skill, position |-> JobPosition,
     position_group |-> GroupPosition, location |-> Location,
     user_company |-> UserCompany, user_cv_applications |-> UserCVApplications,
     user_job |-> UserJob, user |-> User, user_auth |-> UserAuth]

\* What a call changes of the accounts, tokens and codes: a registration by the role
\* it gives.
Effects == {"nothing", "business", "user", "refresh_business", "refresh_user", "logout",
            "delete_business", "delete_user", "delete_manager", "send_verify_code", "verify_code"}

Does(router, route) ==
    CASE router = "business_auth" /\ route = "refresh_token" -> "refresh_business"
      [] router = "user_auth" /\ route = "refresh_token" -> "refresh_user"
      [] router \in {"business_auth", "user_auth"} /\ route = "logout" -> "logout"
      [] router = "business" /\ route = "delete" -> "delete_business"
      [] router = "user" /\ route = "delete" -> "delete_user"
      [] router = "business_admin" /\ route = "delete" -> "delete_manager"
      [] router = "verify" -> route
      [] OTHER -> "nothing"

\* What the routes that ask for a token ask for and change.
Guarded ==
    {r \in UNION {{[needs |-> Route[router][route], does |-> Does(router, route)] :
                      route \in DOMAIN Route[router]} : router \in DOMAIN Route} :
        r.needs \in Dependencies}
=============================================================================
