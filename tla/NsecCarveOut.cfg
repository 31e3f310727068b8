\* Firmware reports of up to two banks against one secure window, one
\* shared-memory region, one or two SDP regions and one non-secure device.
CONSTANTS
  Discovered <- MCDiscovered
  SdpDtChoices <- MCSdpDtChoices
  PhysSdpMem <- MCPhysSdpMem
  SecureOnly <- MCSecureOnly
  MemMap <- MCMemMap
  ShmType <- MEM_AREA_NSEC_SHM
  ExemptTypes <- MCExemptTypes
  PaSpace = 16
  Windows <- MCWindows
SPECIFICATION Spec
\* core_mmu_set_discovered_nsec_ddr() returns or panics.
CHECK_DEADLOCK FALSE
INVARIANT TypeOK
INVARIANT CarveExact
INVARIANT CarveOutExclusion
INVARIANT CarveOutIsSetDifference
PROPERTY NsecDdrRefined
