SPECIFICATION FairSpec
CONSTANTS
  Periodic = {"if_slowtimo", "pffasttimo", "pfslowtimo"}
  OneShot = {}
  Period <- KernelPeriod
  Boot <- KernelBoot
  Delays = {}
  CanCancel = {}
  MaxLag = 1
  MaxTicks = 10
PROPERTY WatchdogRecurs
