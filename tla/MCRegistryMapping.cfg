SPECIFICATION Spec
CONSTANTS
  Refs <- MCRefs
  Mappings <- MCMappings
INVARIANT OrderIrrelevant
