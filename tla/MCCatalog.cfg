\* Two models, the second in ALLOWED_MODELS; one run of the script.
SPECIFICATION CatalogSpec
CONSTANTS
  NoModel = NoModel
  Models = {m1, m2}
  ProviderModels = {m1, m2}
  AllowedModels = {m2}
  SeededModel = m1
  Seeds = {s1}
INVARIANTS
  AllowedOnlyWhileEmpty
