--------------------------- MODULE MCKernelModules --------------------------
\* hm2reg_uio: the bridge, a device with platform data and a misconfigured one;
\* two open files of each; two tasks that mask and unmask the bridge's interrupt.
\* hmreg: both builds, two tasks in the attribute.  Pages are numbered from
\* hmreg_BASE: the builds request pages 4 and 64 and map pages 4 and 0.
\* hmreg_show of hmreg_module reads 32767 bytes, its hmreg_store writes one or none;
\* those of linux-driver-test read 4096 and write 8191.
EXTENDS KernelModules, TLC

MCBuilds    == {"hmreg_module", "linux-driver-test"}
MCRequested == "hmreg_module" :> 4 @@ "linux-driver-test" :> 64
MCMapped    == "hmreg_module" :> 4 @@ "linux-driver-test" :> 0
MCSpans     == "hmreg_module" :> {0, 1, 8} @@ "linux-driver-test" :> {1, 2}
=============================================================================
