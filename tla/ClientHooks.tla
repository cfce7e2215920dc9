------------------------------ MODULE ClientHooks ------------------------------
(***************************************************************************)
(* What every data hook of the client declares: for a query, the key its   *)
(* answer is held under in memory, the row it is kept in on the device,    *)
(* the server tables the endpoint reads and how soon the answer ages; for  *)
(* a mutation, its method, whether it may wait in the outbox, the rows it  *)
(* rewrites before asking the server, the tables the endpoint changes and  *)
(* the keys it invalidates when it is done.                                *)
(*                                                                         *)
(* Keys are sequences, matched by prefix; "id" stands for the identifier   *)
(* of the one submission, statement or organization looked at, "p" for     *)
(* the one set of parameters or filters a view uses.  Names are the        *)
(* source's.                                                               *)
(***************************************************************************)
EXTENDS Sequences, SequencesExt, FiniteSets

(* -------------------------------- queries -------------------------------- *)
NoRow == "no row"

\* A query through useOfflineQuery with the client's default of five minutes.
Cached(key, row, reads) ==
  [key |-> key, row |-> row, reads |-> reads, ages |-> "later", lags |-> FALSE, fallback |-> FALSE]
\* A query of figures computed from many records, allowed to lag its stale time.
Derived(key, row, reads) == [Cached(key, row, reads) EXCEPT !.lags = TRUE]
\* A plain useQuery: nothing on the device.
Plain(key, reads) == Cached(key, NoRow, reads)

Records == {"members", "loans", "savings", "deposits", "farm"}
Returns == {"submissions", "statements", "lineItems"} \union Records

\* Submissions
useCooperativeSubmissions == Cached(<<"cooperative-submissions">>, "cooperative-list", {"submissions"})
useApexSubmissions == Cached(<<"apex-submissions">>, "apex-list", {"submissions"})
useFederationSubmissions == Cached(<<"federation-submissions", "p">>, "federation-list-default", {"submissions"})
useMinistrySubmissions == Cached(<<"ministry-submissions", "p">>, "ministry-list-default", {"submissions"})
useSubmission == Cached(<<"cooperative-submissions", "id">>, "submission-id", {"submissions", "sections"})
useSubmissionSections == Cached(<<"cooperative-submissions", "id", "sections">>, "sections-id", {"sections"})
useSubmissionReviews == Cached(<<"submission-reviews", "id">>, "reviews-id", {"reviews"})
useSubmissionFlags == Cached(<<"submission-flags", "id">>, "submission-flags-id", {"flags"})
useFinancialStatement == Cached(<<"financial-statement", "id">>, "financial-statement-id", {"statements"})
useLineItems == Cached(<<"line-items", "id">>, "line-items-id", {"lineItems"})
useChartOfAccounts == [Cached(<<"chart-of-accounts">>, "chart-of-accounts", {"accounts"}) EXCEPT !.ages = "never"]
useExtractionJob == Cached(<<"extraction-job", "id">>, "extraction-job-id", {"jobs"})
useSubmissionFiles == Plain(<<"submission-files", "id", "role", "p">>, {"files"})
useSubmissionEntries == Cached(<<"submission-entries", "id">>, "nf-indicators-id", {"entries"})
useIndicatorCatalog == Cached(<<"indicator-catalog", "p", "en">>, "indicator-catalog-p-en", {"catalog"})
useQuestionnaire == Cached(<<"questionnaire-response", "id", "p">>, "questionnaire-id-p", {"responses"})
useActiveTemplate == Cached(<<"active-questionnaire-template", "p", "en">>, "active-template-p-en", {"templates"})
useQuestionnaireTemplates == Cached(<<"questionnaire-templates">>, "questionnaire-templates", {"templates"})
useQuestionnaireTemplate == Cached(<<"questionnaire-templates", "id">>, "questionnaire-template-id", {"templates"})
useSubmissionNarratives == Cached(<<"submission-narratives", "id", "token", "en">>, "narratives-id-en", {"narratives"})

\* Records of the members, loans, savings, deposits and farm reports
useMembers == Cached(<<"non-financial-members", "p">>, "members-list-p", {"members"})
useMember == Cached(<<"non-financial-members", "id">>, "member-id", {"members"})
useLoans == Cached(<<"non-financial-loans", "p">>, "loans-list-p", {"loans"})
useLoan == Cached(<<"non-financial-loans", "id">>, "loan-id", {"loans"})
useSavings == Cached(<<"non-financial-savings", "p">>, "savings-list-p", {"savings"})
useSaving == Cached(<<"non-financial-savings", "id">>, "saving-id", {"savings"})
useFixedDeposits == Cached(<<"non-financial-fixed-deposits", "p">>, "fixed-deposits-list-p", {"deposits"})
useFixedDeposit == Cached(<<"non-financial-fixed-deposits", "id">>, "fixed-deposit-id", {"deposits"})
useFarmCoops == Cached(<<"non-financial-farm-coop", "p">>, "farm-coops-list-p", {"farm"})
useFarmCoop == Cached(<<"non-financial-farm-coop", "id">>, "farm-coop-id", {"farm"})
useAllNfRecords == Plain(<<"non-financial-members", "all-pages", "p">>, {"members"})

\* Organizations and people
useCooperatives == Cached(<<"cooperatives">>, "cooperatives-list", {"cooperatives"})
useCooperative == Cached(<<"cooperatives", "id">>, "cooperative-id", {"cooperatives"})
useCooperativeDeletePreview == Cached(<<"cooperatives", "id", "delete-preview">>, "cooperative-id-delete-preview", {"cooperative members", "submissions"})
useCooperativeMembers == Cached(<<"cooperatives", "id", "members">>, "cooperative-id-members", {"cooperative members"})
useMyCooperativeProfile == Cached(<<"cooperative-self", "profile">>, "cooperative-self-profile", {"profiles"})
useMyCooperativeMembers == Cached(<<"cooperative-self", "members">>, "cooperative-self-members", {"cooperative members"})
useMyAssignedDimensions == Cached(<<"cooperative-self", "dimensions">>, "cooperative-self-dimensions", {"dimensions"})
useCooperativeProfiles == Cached(<<"cooperative-profiles">>, "cooperative-profiles", {"profiles"})
useCooperativeProfile == Cached(<<"cooperative-profiles", "id">>, "cooperative-profile-id", {"profiles"})
useApexes == Cached(<<"apexes">>, "apexes-list", {"apexes"})
useMinistryApexes == Cached(<<"apexes", "ministry", "p">>, "apexes-ministry-p", {"apexes"})
useApex == Cached(<<"apexes", "id">>, "apex-id", {"apexes"})
useApexDeletePreview == Cached(<<"apexes", "id", "delete-preview">>, "apex-id-delete-preview", {"apex members", "cooperatives"})
useApexMembers == Cached(<<"apexes", "id", "members">>, "apex-id-members", {"apex members"})
useFederations == Cached(<<"federations">>, "federations-list", {"federations"})
useFederation == Cached(<<"federations", "id">>, "federation-id", {"federations"})
useFederationDeletePreview == Cached(<<"federations", "id", "delete-preview">>, "federation-id-delete-preview", {"federation members", "apexes"})
useFederationMembers == Cached(<<"federations", "id", "members">>, "federation-id-members", {"federation members"})
useFederationInvitations == Cached(<<"federations", "id", "invitations">>, "federation-id-invitations", {"invitations"})
useOrganizations == Cached(<<"organizations">>, "organizations-list", {"organizations"})
useOrganization == Cached(<<"organizations", "id">>, "organization-id", {"organizations"})
useUsers == Cached(<<"users">>, "users-list", {"users"})
useUser == Cached(<<"users", "id">>, "user-id", {"users"})
useCurrentUser == Cached(<<"auth", "me">>, "user-profile-me", {"self"})

\* Account, consent, settings
useSecuritySettings == Plain(<<"me-security-settings">>, {"security"})
useConsentStatus == Plain(<<"consent-status">>, {"consents"})
useMyConsents == Plain(<<"my-consents">>, {"consents"})
useMyPrivacyRequests == Plain(<<"my-privacy-requests">>, {"privacy"})
useAllPrivacyRequests == Plain(<<"all-privacy-requests">>, {"privacy"})
useOrganizationLabels ==
  [Cached(<<"organization-labels">>, "organization-labels-list", {"labels"}) EXCEPT !.ages = "now", !.fallback = TRUE]
useReportRoleLabels == Derived(<<"report-role-labels", "token">>, NoRow, {"labels"})
useAuditLogs == Derived(<<"audit-logs", "p">>, "audit-logs-p", {"audit"})
useReportStatus == Plain(<<"report-status", "id">>, {"reports"})
useExchangeRates == Plain(<<"exchange-rates">>, {"rates"})
useLegalDocuments == [Plain(<<"legal-policies">>, {"policies"}) EXCEPT !.fallback = TRUE]
useCustomKpis == Cached(<<"custom-kpis", "en">>, "custom-kpis-en", {"kpis"})

\* Statistics and analytics
useCooperativeStats == Derived(<<"cooperative-stats">>, "cooperative-stats", {"submissions", "sections"})
useApexStats == Derived(<<"apex-stats">>, "apex-stats", {"submissions", "cooperatives"})
useFederationStats == Derived(<<"federation-stats">>, "federation-stats", {"submissions", "apexes"})
useMinistryStats == Derived(<<"ministry-stats", "p">>, "ministry-stats-p", {"submissions", "federations"})
useNationalOverview == [Derived(<<"national-overview", "p">>, "national-overview-p", Returns) EXCEPT !.fallback = TRUE]
useBenchmark == Derived(<<"benchmark", "p">>, "benchmark-p", Returns)
useBenchmarks == Derived(<<"benchmarks", "p">>, "benchmarks-p", Returns)
useBasicBenchmark == Derived(<<"basic-benchmark", "p">>, "basic-benchmark-p", Returns)
useBasicDashboard == Derived(<<"basic-dashboard", "v3", "p">>, "basic-dashboard-v3-p", Returns)
useComparativeStatements == Derived(<<"comparative-statements", "v4", "p">>, "comparative-statements-v4-p", Returns)
useMonthlyTrend == Derived(<<"monthly-trend", "v2", "p">>, "monthly-trend-v2-p", Returns)
usePeriodSeries == Derived(<<"period-series", "v1", "p">>, "period-series-v1-p", Returns)
useReconciliationAudit == Derived(<<"reconciliation-audit", "id">>, "reconciliation-audit-id", {"lineItems"})
useRegionCompliance == Derived(<<"region-compliance", "p">>, "region-compliance-p", {"submissions", "cooperatives"})
useSectorBreakdown == Derived(<<"sector-breakdown", "p">>, "sector-breakdown-p", Returns)
useSubmissionActivity == Derived(<<"submission-activity", "p">>, "submission-activity-p", {"submissions"})
useNfStatistics == [Derived(<<"nf-statistics", "role", "p">>, "nf-statistics-role-p", Records) EXCEPT !.fallback = TRUE]
useNfTrend == Derived(<<"nf-trend", "p">>, "nf-trend-p", Records)
useApexNarratives == Derived(<<"apex-narratives", "id", "p", "token", "en">>, "apex-narratives-id-p-en", {"narratives"})
useFederationNarratives == Derived(<<"federation-narratives", "id", "p", "token", "en">>, "federation-narratives-id-p-en", {"narratives"})
useMinistryNarratives == Derived(<<"ministry-narratives", "p", "token", "en">>, "ministry-narratives-p-en", {"narratives"})
useQuestionnaireAnalytics == Derived(<<"questionnaire-analytics", "p">>, "questionnaire-analytics-p", {"responses"})
useConsolidateIndicator == Derived(<<"indicator-consolidation", "p">>, "indicator-consolidation-p", {"entries"})
useApexSubmissionKpis == Derived(<<"apex-submission-kpis", "id", "token">>, "apex-submission-kpis-id", {"lineItems"})
useCooperativeKpis == Derived(<<"coop-kpis", "id", "token", "p">>, "kpis-p-id", {"lineItems"})
useSubmissionLineItems == Derived(<<"coop-line-items", "id", "token", "p">>, "line-items-p-id", {"lineItems"})
usePortfolioBreakdown == Derived(<<"portfolio-breakdown", "id", "token">>, "portfolio-id", {"loans"})
useMembershipStats == Derived(<<"membership-stats", "id", "token">>, "membership-id", {"members"})
useQuestionnaireReport == Derived(<<"questionnaire-report", "v1", "id", "token">>, NoRow, {"responses"})
useQuestionnaireNarratives == Derived(<<"questionnaire-narratives", "v1", "id", "token", "en">>, NoRow, {"responses", "narratives"})

(* ------------------------------- mutations ------------------------------- *)
\* A save through runMutation: kept in the outbox when it cannot be sent.
Save(method, changes, invalidates) ==
  [method |-> method, route |-> "outbox", asserts |-> FALSE, needs |-> FALSE,
   rows |-> {}, changes |-> changes, invalidates |-> invalidates]
\* An action that asserts a connection first and refuses to be kept.
Connected(method, changes, invalidates) ==
  [Save(method, changes, invalidates) EXCEPT !.asserts = TRUE, !.needs = TRUE]
\* A call of the endpoint itself, outside the outbox.
Direct(changes, invalidates) == [Save("POST", changes, invalidates) EXCEPT !.route = "direct"]
Writing(save, rows) == [save EXCEPT !.rows = rows]

Own == <<"cooperative-submissions">>
This == <<"cooperative-submissions", "id">>
Sections == <<"cooperative-submissions", "id", "sections">>
OfApex == <<"apex-submissions">>

\* Submissions and their workflow
cacheLocalDraftSubmission(list) == {list, "submission-new", "reviews-new", "sections-new"}
updateCachedSubmissionStatus(list) == {"submission-id", list, "reviews-id"}
Review(list, key) ==
  Writing(Connected("POST", {"submissions", "reviews"}, {<<key>>}), updateCachedSubmissionStatus(list))
useCreateSubmission == Writing(Save("POST", {"submissions", "sections"}, {Own, OfApex}), cacheLocalDraftSubmission("cooperative-list"))
useCreateApexSubmission == Writing(Save("POST", {"submissions", "sections"}, {OfApex, Own}), cacheLocalDraftSubmission("apex-list"))
useUpdateSubmissionMethod ==
  Writing(Save("PATCH", {"submissions", "sections"}, {This, Own, OfApex, <<"submission", "id">>, <<"submission-sections", "id">>}),
          {"submission-id", "cooperative-list"})
useDeleteSubmission ==
  Writing(Save("DELETE", {"submissions", "sections"}, {Own, OfApex}),
          {"cooperative-list", "ministry-list-default", "federation-list-default", "apex-list", "submission-id"})
\* (a variant that forgets assertOnline)
useSubmitSubmissionUnasserted ==
  Writing([Save("POST", {"submissions", "flags"}, {Own, OfApex, This}) EXCEPT !.needs = TRUE], {"submission-id", "cooperative-list"})
useSubmitSubmission ==
  Writing(Connected("POST", {"submissions", "flags"}, {Own, OfApex, <<"submission", "id">>, This}), {"submission-id", "cooperative-list"})
useApexApprove == Review("apex-list", "apex-submissions")
useApexReturn == Review("apex-list", "apex-submissions")
useFederationApprove == Review("federation-list-default", "federation-submissions")
useFederationReturn == Review("federation-list-default", "federation-submissions")
useMinistryApprove == Review("ministry-list-default", "ministry-submissions")
useMinistryReject == Review("ministry-list-default", "ministry-submissions")
useDelegateSubmission == [Direct({"submissions"}, {OfApex, This, Own}) EXCEPT !.asserts = TRUE]
useReclaimSubmission == [Direct({"submissions"}, {OfApex, This, Own}) EXCEPT !.asserts = TRUE]
useClaimCooperativeEdit == [Direct({"submissions"}, {This, Own}) EXCEPT !.asserts = TRUE]
useClaimApexEdit == [Direct({"submissions"}, {OfApex, This, Own}) EXCEPT !.asserts = TRUE]
useUpdateSubmissionSection == Save("PATCH", {"sections"}, {Sections, This, Own, OfApex})

\* Statements, uploads, entries and questionnaires of a submission
useUpdateLineItems == Save("PATCH", {"lineItems"}, {<<"line-items", "id">>})
useValidateExtraction == Connected("POST", {"sections", "statements", "lineItems", "flags"}, {Own, <<"financial-statement">>, <<"line-items">>})
useDeleteFinancialStatement ==
  [Direct({"statements", "lineItems", "sections", "jobs"}, {This, Own, <<"financial-statement">>, <<"extraction-job">>}) EXCEPT !.asserts = TRUE]
useUploadFinancialStatement ==
  [Direct({"submissions", "sections", "files"}, {Own, OfApex, This, <<"submission-files", "id">>}) EXCEPT !.asserts = TRUE]
useDeleteSingleFile == [Direct({"files"}, {<<"submission-files", "id">>, This}) EXCEPT !.asserts = TRUE]
useNfUpload ==
  [Direct(Records \union {"sections", "submissions"},
          {<<"non-financial-members">>, <<"non-financial-savings">>, <<"non-financial-loans">>, <<"non-financial-fixed-deposits">>,
           <<"non-financial-farm-coop">>, <<"non-financial">>, Sections, Own, This, OfApex}) EXCEPT !.asserts = TRUE]
useSubmitManualFinancialStatement ==
  Save("POST", {"submissions", "sections", "statements", "lineItems"}, {Own, This, Sections, <<"financial-statement", "id">>, <<"line-items", "id">>})
useDeleteManualFinancialStatement == Save("DELETE", {"statements", "lineItems", "sections"}, {Own, This, Sections})
ManualKeys == {<<"members">>, <<"non-financial-members">>, <<"non-financial-savings">>, <<"non-financial-loans">>,
               <<"non-financial-fixed-deposits">>, <<"non-financial-farm-coop">>}
useSubmitManualMembers == Save("POST", Records \union {"sections"}, {Own, This, Sections} \union ManualKeys)
useDeleteManualNonFinancialData == Save("DELETE", Records \union {"sections"}, {Own, This, Sections} \union ManualKeys)
useSaveSubmissionEntries == Save("POST", {"entries", "sections"}, {<<"submission-entries", "id">>, Sections, This, Own})
useSaveQuestionnaire ==
  Writing(Save("POST", {"responses", "sections"}, {<<"questionnaire-response", "id">>, Sections, This, Own}), {"questionnaire-id-p"})
useGenerateSubmissionNarratives == Connected("POST", {"narratives"}, {<<"submission-narratives", "id">>})

\* Records: create, update and delete of each report
Record(method, table, key) == Save(method, {table}, {<<key>>})
useCreateMember == Record("POST", "members", "non-financial-members")
useUpdateMember == Record("PUT", "members", "non-financial-members")
useDeleteMember == Record("DELETE", "members", "non-financial-members")
useCreateLoan == Record("POST", "loans", "non-financial-loans")
useUpdateLoan == Record("PUT", "loans", "non-financial-loans")
useDeleteLoan == Record("DELETE", "loans", "non-financial-loans")
useCreateSavings == Record("POST", "savings", "non-financial-savings")
useUpdateSavings == Record("PUT", "savings", "non-financial-savings")
useDeleteSavings == Record("DELETE", "savings", "non-financial-savings")
useCreateFixedDeposit == Record("POST", "deposits", "non-financial-fixed-deposits")
useUpdateFixedDeposit == Record("PUT", "deposits", "non-financial-fixed-deposits")
useDeleteFixedDeposit == Record("DELETE", "deposits", "non-financial-fixed-deposits")
useCreateFarmCoop == Record("POST", "farm", "non-financial-farm-coop")
useUpdateFarmCoop == Record("PUT", "farm", "non-financial-farm-coop")
useDeleteFarmCoop == Record("DELETE", "farm", "non-financial-farm-coop")

\* Organizations and people
useCreateCooperative ==
  Writing(Save("POST", {"cooperatives", "profiles"}, {<<"cooperatives">>, <<"cooperative-profiles">>}), {"cooperatives-list", "cooperative-new"})
useUpdateCooperative == Writing(Save("PATCH", {"cooperatives"}, {<<"cooperatives">>, <<"cooperatives", "id">>}), {"cooperatives-list", "cooperative-id"})
useDeleteCooperative ==
  Writing(Save("DELETE", {"cooperatives", "profiles", "cooperative members"}, {<<"cooperatives">>, <<"cooperative-profiles">>}),
          {"cooperatives-list", "cooperative-id"})
useCreateCooperativeProfile == Writing(Save("POST", {"profiles"}, {<<"cooperative-profiles">>}), {"cooperative-profiles", "cooperative-profile-new"})
useUpdateCooperativeProfile ==
  Writing(Save("PATCH", {"profiles"}, {<<"cooperative-profiles">>, <<"cooperative-profiles", "id">>}), {"cooperative-profiles", "cooperative-profile-id"})
useDeleteCooperativeProfile == Writing(Save("DELETE", {"profiles"}, {<<"cooperative-profiles">>}), {"cooperative-profiles", "cooperative-profile-id"})
Membership(method, table, organizations) == Save(method, {table}, {<<organizations, "id", "members">>})
useAddCooperativeMember == Membership("POST", "cooperative members", "cooperatives")
useUpdateCooperativeMember == Membership("PATCH", "cooperative members", "cooperatives")
useRemoveCooperativeMember == Membership("DELETE", "cooperative members", "cooperatives")
useAddApexMember == Membership("POST", "apex members", "apexes")
useUpdateApexMember == Membership("PATCH", "apex members", "apexes")
useRemoveApexMember == Membership("DELETE", "apex members", "apexes")
useRemoveFederationMember == Membership("DELETE", "federation members", "federations")
useCreateApex == Save("POST", {"apexes"}, {<<"apexes">>})
useUpdateApex == Save("PATCH", {"apexes"}, {<<"apexes">>, <<"apexes", "id">>})
useDeleteApex == Save("DELETE", {"apexes", "apex members"}, {<<"apexes">>})
useCreateFederation == Save("POST", {"federations"}, {<<"federations">>})
useUpdateFederation == Save("PATCH", {"federations"}, {<<"federations">>, <<"federations", "id">>})
useDeleteFederation == Save("DELETE", {"federations", "federation members"}, {<<"federations">>})
useInviteUserToFederation == Save("POST", {"invitations"}, {<<"federations", "id", "invitations">>})
useResendInvitation == Save("POST", {"invitations"}, {<<"federations", "id", "invitations">>})
useDeleteInvitation == Save("DELETE", {"invitations"}, {<<"federations", "id", "invitations">>})
useCreateOrganization == Save("POST", {"organizations"}, {<<"organizations">>})
useUpdateOrganization == Save("PATCH", {"organizations"}, {<<"organizations">>, <<"organizations", "id">>})
useDeleteOrganization == Save("DELETE", {"organizations"}, {<<"organizations">>})
useCreateUser == Save("POST", {"users"}, {<<"users">>})
useUpdateUser == Save("PATCH", {"users"}, {<<"users">>, <<"users", "id">>})
useDeleteUser == Save("DELETE", {"users"}, {<<"users">>})
useAssignRole == Save("POST", {"users"}, {<<"users">>, <<"users", "id">>})

\* Settings, templates, catalogue, consent
useUpdateOrganizationLabel == Direct({"labels"}, {<<"organization-labels">>})
useCreateQuestionnaireTemplate == Save("POST", {"templates"}, {<<"questionnaire-templates">>})
useUpdateQuestionnaireTemplate ==
  Save("PUT", {"templates"}, {<<"questionnaire-templates">>, <<"questionnaire-templates", "id">>, <<"active-questionnaire-template">>})
useActivateQuestionnaireTemplate ==
  Save("POST", {"templates"}, {<<"questionnaire-templates">>, <<"questionnaire-response">>, <<"active-questionnaire-template">>})
useDeleteQuestionnaireTemplate == Save("DELETE", {"templates"}, {<<"questionnaire-templates">>})
useCreateCatalogItem == Save("POST", {"catalog"}, {<<"indicator-catalog">>})
useUpdateCatalogItem == Save("PUT", {"catalog"}, {<<"indicator-catalog">>})
useDeleteCatalogItem == Save("DELETE", {"catalog"}, {<<"indicator-catalog">>})
createKpi == Save("POST", {"kpis"}, {<<"custom-kpis">>})
updateKpi == Save("PUT", {"kpis"}, {<<"custom-kpis">>})
deleteKpi == Save("DELETE", {"kpis"}, {<<"custom-kpis">>})
useRecordConsent == Direct({"consents"}, {<<"consent-status">>, <<"my-consents">>})
useSubmitPrivacyRequest == Direct({"privacy"}, {<<"consent-status">>, <<"my-privacy-requests">>})
useUpdatePrivacyRequestStatus == Direct({"privacy"}, {<<"all-privacy-requests">>, <<"my-privacy-requests">>})
usePrepareReport == [Direct({"reports"}, {<<"report-status", "id">>}) EXCEPT !.asserts = TRUE]

(* -------------------------------- the sets ------------------------------- *)
Queries ==
 {useCooperativeSubmissions, useApexSubmissions, useFederationSubmissions, useMinistrySubmissions,
  useSubmission, useSubmissionSections, useSubmissionReviews, useSubmissionFlags, useFinancialStatement,
  useLineItems, useChartOfAccounts, useExtractionJob, useSubmissionFiles, useSubmissionEntries,
  useIndicatorCatalog, useQuestionnaire, useActiveTemplate, useQuestionnaireTemplates,
  useQuestionnaireTemplate, useSubmissionNarratives, useMembers, useMember, useLoans, useLoan, useSavings,
  useSaving, useFixedDeposits, useFixedDeposit, useFarmCoops, useFarmCoop, useAllNfRecords, useCooperatives,
  useCooperative, useCooperativeDeletePreview, useCooperativeMembers, useMyCooperativeProfile,
  useMyCooperativeMembers, useMyAssignedDimensions, useCooperativeProfiles, useCooperativeProfile, useApexes,
  useMinistryApexes, useApex, useApexDeletePreview, useApexMembers, useFederations, useFederation,
  useFederationDeletePreview, useFederationMembers, useFederationInvitations, useOrganizations,
  useOrganization, useUsers, useUser, useCurrentUser, useSecuritySettings, useConsentStatus, useMyConsents,
  useMyPrivacyRequests, useAllPrivacyRequests, useOrganizationLabels, useReportRoleLabels, useAuditLogs,
  useReportStatus, useExchangeRates, useLegalDocuments, useCustomKpis, useCooperativeStats, useApexStats,
  useFederationStats, useMinistryStats, useNationalOverview, useBenchmark, useBenchmarks, useBasicBenchmark,
  useBasicDashboard, useComparativeStatements, useMonthlyTrend, usePeriodSeries, useReconciliationAudit,
  useRegionCompliance, useSectorBreakdown, useSubmissionActivity, useNfStatistics, useNfTrend,
  useApexNarratives, useFederationNarratives, useMinistryNarratives, useQuestionnaireAnalytics,
  useConsolidateIndicator, useApexSubmissionKpis, useCooperativeKpis, useSubmissionLineItems,
  usePortfolioBreakdown, useMembershipStats, useQuestionnaireReport, useQuestionnaireNarratives}

Mutations ==
 {useCreateSubmission, useCreateApexSubmission, useUpdateSubmissionMethod, useDeleteSubmission,
  useSubmitSubmission, useApexApprove, useApexReturn, useFederationApprove, useFederationReturn,
  useMinistryApprove, useMinistryReject, useDelegateSubmission, useReclaimSubmission,
  useClaimCooperativeEdit, useClaimApexEdit, useUpdateSubmissionSection, useUpdateLineItems,
  useValidateExtraction, useDeleteFinancialStatement, useUploadFinancialStatement, useDeleteSingleFile,
  useNfUpload, useSubmitManualFinancialStatement, useDeleteManualFinancialStatement, useSubmitManualMembers,
  useDeleteManualNonFinancialData, useSaveSubmissionEntries, useSaveQuestionnaire,
  useGenerateSubmissionNarratives, useCreateMember, useUpdateMember, useDeleteMember, useCreateLoan,
  useUpdateLoan, useDeleteLoan, useCreateSavings, useUpdateSavings, useDeleteSavings, useCreateFixedDeposit,
  useUpdateFixedDeposit, useDeleteFixedDeposit, useCreateFarmCoop, useUpdateFarmCoop, useDeleteFarmCoop,
  useCreateCooperative, useUpdateCooperative, useDeleteCooperative, useCreateCooperativeProfile,
  useUpdateCooperativeProfile, useDeleteCooperativeProfile, useAddCooperativeMember,
  useUpdateCooperativeMember, useRemoveCooperativeMember, useAddApexMember, useUpdateApexMember,
  useRemoveApexMember, useRemoveFederationMember, useCreateApex, useUpdateApex, useDeleteApex,
  useCreateFederation, useUpdateFederation, useDeleteFederation, useInviteUserToFederation,
  useResendInvitation, useDeleteInvitation, useCreateOrganization, useUpdateOrganization,
  useDeleteOrganization, useCreateUser, useUpdateUser, useDeleteUser, useAssignRole,
  useUpdateOrganizationLabel, useCreateQuestionnaireTemplate, useUpdateQuestionnaireTemplate,
  useActivateQuestionnaireTemplate, useDeleteQuestionnaireTemplate, useCreateCatalogItem,
  useUpdateCatalogItem, useDeleteCatalogItem, createKpi, updateKpi, deleteKpi, useRecordConsent,
  useSubmitPrivacyRequest, useUpdatePrivacyRequestStatus, usePrepareReport}

\* The hooks that only one tier's pages call; the others are called by several.
ByMinistry ==
  {useMinistrySubmissions, useMinistryApexes, useMinistryStats, useFederations, useFederation, useFederationDeletePreview,
   useFederationMembers, useFederationInvitations, useQuestionnaireTemplates, useQuestionnaireTemplate, useAllPrivacyRequests,
   useMinistryNarratives, useMinistryApprove, useMinistryReject, useCreateFederation, useUpdateFederation,
   useDeleteFederation, useInviteUserToFederation, useResendInvitation, useDeleteInvitation, useRemoveFederationMember,
   useUpdateOrganizationLabel, useCreateQuestionnaireTemplate, useUpdateQuestionnaireTemplate,
   useActivateQuestionnaireTemplate, useDeleteQuestionnaireTemplate, useCreateCatalogItem, useUpdateCatalogItem,
   useDeleteCatalogItem, createKpi, updateKpi, deleteKpi, useUpdatePrivacyRequestStatus}
ByFederation ==
  {useFederationSubmissions, useFederationStats, useApexes, useApex, useApexDeletePreview, useApexMembers,
   useFederationNarratives, useFederationApprove, useFederationReturn, useCreateApex, useUpdateApex, useDeleteApex,
   useAddApexMember, useUpdateApexMember, useRemoveApexMember}
ByApex ==
  {useApexSubmissions, useApexStats, useCooperatives, useCooperative, useCooperativeDeletePreview, useCooperativeMembers,
   useCooperativeProfiles, useCooperativeProfile, useApexSubmissionKpis, useApexNarratives, useApexApprove, useApexReturn,
   useCreateApexSubmission, useDelegateSubmission, useReclaimSubmission, useClaimApexEdit, useCreateCooperative,
   useUpdateCooperative, useDeleteCooperative, useCreateCooperativeProfile, useUpdateCooperativeProfile,
   useDeleteCooperativeProfile, useAddCooperativeMember, useUpdateCooperativeMember, useRemoveCooperativeMember}
ByCooperative ==
  {useCooperativeSubmissions, useCooperativeStats, useMyCooperativeProfile, useMyCooperativeMembers,
   useMyAssignedDimensions, useCreateSubmission, useClaimCooperativeEdit}
ByPreparers ==
  {useUpdateSubmissionMethod, useDeleteSubmission, useSubmitSubmission, useUpdateSubmissionSection, useUpdateLineItems,
   useValidateExtraction, useDeleteFinancialStatement, useUploadFinancialStatement, useDeleteSingleFile, useNfUpload,
   useSubmitManualFinancialStatement, useDeleteManualFinancialStatement, useSubmitManualMembers,
   useDeleteManualNonFinancialData, useSaveSubmissionEntries, useSaveQuestionnaire, useGenerateSubmissionNarratives}
Roles(hook) ==
  CASE hook \in ByMinistry -> {"ministry"}
    [] hook \in ByFederation -> {"federation"}
    [] hook \in ByApex -> {"apex"}
    [] hook \in ByCooperative -> {"cooperative"}
    [] hook \in ByPreparers -> {"cooperative", "apex"}
    [] OTHER -> {"cooperative", "apex", "federation", "ministry"}

=============================================================================
