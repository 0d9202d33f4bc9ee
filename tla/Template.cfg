SPECIFICATION Spec
CONSTANTS
  Machines = {m1, m2}
  Specs <- MCSpecs
  Proposals <- MCProposals
  Exposures <- MCExposures
  Versions = {1, 2}
  MaxInterfaces = 3
SYMMETRY AnyMachine
INVARIANTS ClonesAgree AdmissionMatchesBackstop ExactlyOnePrimary EndpointPrimaryIsNodeLocal GPUOneAllocator
