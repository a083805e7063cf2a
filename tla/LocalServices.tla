---------------------------- MODULE LocalServices ----------------------------
(***************************************************************************)
(* The parts of the server that share no state with another part, as one   *)
(* specification: a behaviour is a behaviour of one of them, the others    *)
(* stay as they are.                                                       *)
(***************************************************************************)
EXTENDS Onboarding, SuggestionEngine, WebhookEndpoints, LlmFailover,
        InventoryAudit, LocalSkills, SkillQueries, SkillFiles

VARIABLE part   \* the part that runs

Parts == {"onboarding", "mail", "suggestions", "webhooks", "llm", "inventory", "local", "outdated", "queries",
          "reports", "files"}

vars == <<part, onboardingVars, mailVars, suggestionVars, webhookVars, llmChainVars, inventoryVars,
          localVars, outdatedVars, queryVars, reportVars, fileVars>>

\* What a part may start with is settled when another one runs.
Init ==
  /\ part \in Parts
  /\ OnboardingInit /\ MailInit /\ SuggestionInit
  /\ WebhookInit /\ (part # "webhooks" => endpoint.kind = "github")
  /\ LlmInit /\ (part # "llm" => ~chain.enabled)
  /\ InventoryInit /\ (part # "inventory" => \A s \in Slot : disk[s] = NoContent)
  /\ LocalInit
  /\ part # "local" => client = CanonicalClient /\ \A d \in SkillDir : local[d] = NoSkill
  /\ OutdatedInit /\ QueryInit /\ ReportInit /\ FileInit

Next ==
  /\ UNCHANGED part
  /\ \/ /\ part = "onboarding" /\ OnboardingNext
        /\ UNCHANGED <<mailVars, suggestionVars, webhookVars, llmChainVars, inventoryVars, localVars, outdatedVars, queryVars,
                       reportVars, fileVars>>
     \/ /\ part = "mail" /\ MailNext
        /\ UNCHANGED <<onboardingVars, suggestionVars, webhookVars, llmChainVars, inventoryVars, localVars, outdatedVars, queryVars,
                       reportVars, fileVars>>
     \/ /\ part = "suggestions" /\ SuggestionNext
        /\ UNCHANGED <<onboardingVars, mailVars, webhookVars, llmChainVars, inventoryVars, localVars, outdatedVars, queryVars,
                       reportVars, fileVars>>
     \/ /\ part = "webhooks" /\ WebhookNext
        /\ UNCHANGED <<onboardingVars, mailVars, suggestionVars, llmChainVars, inventoryVars, localVars, outdatedVars, queryVars,
                       reportVars, fileVars>>
     \/ /\ part = "llm" /\ LlmNext
        /\ UNCHANGED <<onboardingVars, mailVars, suggestionVars, webhookVars, inventoryVars, localVars, outdatedVars, queryVars,
                       reportVars, fileVars>>
     \/ /\ part = "inventory" /\ InventoryNext
        /\ UNCHANGED <<onboardingVars, mailVars, suggestionVars, webhookVars, llmChainVars, localVars, outdatedVars, queryVars,
                       reportVars, fileVars>>
     \/ /\ part = "local" /\ LocalNext
        /\ UNCHANGED <<onboardingVars, mailVars, suggestionVars, webhookVars, llmChainVars, inventoryVars, outdatedVars, queryVars,
                       reportVars, fileVars>>
     \/ /\ part = "outdated" /\ OutdatedNext
        /\ UNCHANGED <<onboardingVars, mailVars, suggestionVars, webhookVars, llmChainVars, inventoryVars, localVars, queryVars,
                       reportVars, fileVars>>
     \/ /\ part = "queries" /\ QueryNext
        /\ UNCHANGED <<onboardingVars, mailVars, suggestionVars, webhookVars, llmChainVars, inventoryVars, localVars, outdatedVars,
                       reportVars, fileVars>>
     \/ /\ part = "reports" /\ ReportNext
        /\ UNCHANGED <<onboardingVars, mailVars, suggestionVars, webhookVars, llmChainVars, inventoryVars, localVars, outdatedVars,
                       queryVars, fileVars>>
     \/ /\ part = "files" /\ FileNext
        /\ UNCHANGED <<onboardingVars, mailVars, suggestionVars, webhookVars, llmChainVars, inventoryVars, localVars, outdatedVars,
                       queryVars, reportVars>>

Spec == Init /\ [][Next]_vars
-----------------------------------------------------------------------------
\* What the tools tell of this machine, and leave on it, agrees with what lies on it: the
\* statements of LocalReports and of SkillFiles.
LocalAnswersAreTrue == ReportsAreTrue /\ FilesAreTrue
=============================================================================
